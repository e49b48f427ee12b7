------------------------- MODULE RemoteEngineProofs -------------------------
(***************************************************************************)
(* Proofs about RemoteEngine for every number of workers, every queue      *)
(* capacity, every set of requests and priorities and any number of        *)
(* panics.                                                                 *)
(***************************************************************************)
EXTENDS RemoteEngine, FiniteSetTheorems, TLAPS

USE RequestsAssumption, PrioritiesAssumption, SizesAssumption

(* The entries marked busy, and the requests whose stage is in S.          *)
BusyOn(idl) == {w \in Workers : ~idl[w]}
StageSet(st, S) == {r \in Requests : st[r] \in S}

OutStages == {"dispatched", "running", "lost"}
Outstanding(st) == Cardinality(StageSet(st, OutStages))
Rejected(st) == Cardinality(StageSet(st, {"rejected"}))
Done(st) == Cardinality(StageSet(st, {"done"}))

(***************************************************************************)
(* The inductive invariant, over the components a handler changes before   *)
(* its trailing try_dispatch: queue q, next sequence number ns, idle flags *)
(* idl, metrics m, stages st, and the signals sg and messages wk under way.*)
(***************************************************************************)
QueueOn(q, ns, st) ==
    /\ IsFiniteSet(q)
    /\ Cardinality(q) <= QueueCapacity
    /\ \A e \in q : st[e.req] = "queued" /\ e.arrival_seq < ns
    /\ \A e, f \in q : e.arrival_seq = f.arrival_seq => e = f
    /\ \A e, f \in q : e.req = f.req => e = f

MailOn(st, inb, run) ==
    /\ \A w \in Workers : \A i \in 1..Len(inb[w]) : st[inb[w][i]] = "dispatched"
    /\ \A w, v \in Workers : \A i \in 1..Len(inb[w]), j \in 1..Len(inb[v]) :
          inb[w][i] = inb[v][j] => w = v /\ i = j
    /\ \A w \in Workers : run[w] # NoRequest => st[run[w]] = "running"
    /\ \A w, v \in Workers : run[w] = run[v] /\ run[w] # NoRequest => w = v

CountsOn(q, idl, m, st, sg, wk) ==
    /\ Cardinality(BusyOn(idl)) = Outstanding(st) + sg + wk
    /\ m.queued = Cardinality(q)
    /\ m.in_flight = Cardinality(BusyOn(idl))
    /\ m.rejected_backpressure = Rejected(st)
    /\ m.completed + sg + wk = Done(st)

TypeOn(q, ns, idl, m, st, inb, run, sg, wk) ==
    /\ q \subseteq PriorityRequest
    /\ ns \in Nat
    /\ idl \in [Workers -> BOOLEAN]
    /\ m \in EngineMetrics
    /\ inb \in [Workers -> Seq(Requests)]
    /\ run \in [Workers -> Requests \cup {NoRequest}]
    /\ sg \in Nat
    /\ wk \in Nat
    /\ st \in [Requests -> Stages]

IInv ==
    /\ TypeOn(queue, next_seq, idle, metrics, stage, inbox, running, signals, wakeups)
    /\ alive \in [Workers -> BOOLEAN]
    /\ QueueOn(queue, next_seq, stage)
    /\ MailOn(stage, inbox, running)
    /\ CountsOn(queue, idle, metrics, stage, signals, wakeups)
    /\ WorkConserving
-----------------------------------------------------------------------------
(* Facts about the dispatch loop.                                          *)

(* The pool is finite.                                                     *)
LEMMA WorkersFinite == IsFiniteSet(Workers)
BY FS_Interval DEF Workers

(* So is every set of workers, and its cardinality is a natural number.    *)
LEMMA SubsetFinite == ASSUME NEW S \in SUBSET Workers PROVE IsFiniteSet(S) /\ Cardinality(S) \in Nat
BY WorkersFinite, FS_Subset, FS_CardinalityType

(* The same for sets of requests.                                          *)
LEMMA RequestSubsetFinite ==
    ASSUME NEW S \in SUBSET Requests PROVE IsFiniteSet(S) /\ Cardinality(S) \in Nat
BY FS_Subset, FS_CardinalityType

(* Nothing is sent when there is nothing to pair.                          *)
LEMMA NothingToSend ==
    ASSUME NEW q, NEW idl, q = {} \/ IdleWorkers(idl) = {}
    PROVE  Dispatches(q, idl) = {}
BY DEF Dispatches

(* A finite non-empty queue has an entry no other entry comes before.      *)
LEMMA HeadExists ==
    ASSUME NEW q, IsFiniteSet(q), q \subseteq PriorityRequest, q # {}
    PROVE  \E e \in q : {f \in q : Before(f, e)} = {}
<1> DEFINE Ahead(e) == {f \in q : Before(f, e)}
<1> DEFINE T == {Ahead(e) : e \in q}
<1> DEFINE R == StrictSubsetOrdering(q)
<1>1. IsWellFoundedOn(R, FiniteSubsetsOf(q))
  BY FS_StrictSubsetOrderingWellFounded
<1>2. T \subseteq FiniteSubsetsOf(q)
  BY FS_Subset DEF FiniteSubsetsOf
<1>3. T # {}
  OBVIOUS
<1> HIDE DEF T, R
<1>4. PICK x \in T : \A y \in T : ~(<<y, x>> \in R)
  BY <1>1, <1>2, <1>3, WFMin
<1>5. PICK e \in q : x = Ahead(e)
  BY DEF T
<1>6. ASSUME NEW f \in q, Before(f, e) PROVE FALSE
  <2>1. \A g \in q : Before(g, f) => Before(g, e)
    BY <1>6 DEF Before, PriorityRequest
  <2>2. ~Before(f, f)
    BY DEF Before, PriorityRequest
  <2>3. Ahead(f) \subseteq Ahead(e) /\ Ahead(f) # Ahead(e)
    BY <2>1, <2>2, <1>6
  <2>4. <<Ahead(f), Ahead(e)>> \in R
    BY <2>3 DEF R, StrictSubsetOrdering
  <2>5. Ahead(f) \in T
    BY DEF T
  <2> QED BY <2>4, <2>5, <1>4, <1>5
<1> QED BY <1>6

(* A non-empty set of natural numbers has a least element.                 *)
LEMMA LeastNatural ==
    ASSUME NEW S \in SUBSET Nat, S # {}
    PROVE  \E n \in S : \A k \in S : ~(k < n)
<1> DEFINE R == {p \in Nat \X Nat : p[1] < p[2]}
<1>1. IsWellFoundedOn(R, Nat)
  BY NatLessThanWellFounded DEF OpToRel
<1> HIDE DEF R
<1>2. PICK n \in S : \A k \in S : ~(<<k, n>> \in R)
  BY <1>1, WFMin
<1>3. \A k \in S : k < n => <<k, n>> \in R
  BY DEF R
<1> QED BY <1>2, <1>3

(* With one idle entry, or one queued request, exactly one pair is sent,   *)
(* and its request is the one every other entry comes after.               *)
LEMMA OneToSend ==
    ASSUME NEW q, NEW idl, IsFiniteSet(q), q \subseteq PriorityRequest, q # {},
           \A e, f \in q : e.arrival_seq = f.arrival_seq => e = f,
           IdleWorkers(idl) # {},
           (\E e : q = {e}) \/ (\E w : IdleWorkers(idl) = {w})
    PROVE  \E w \in IdleWorkers(idl), e \in q :
              /\ Dispatches(q, idl) = {<<w, e>>}
              /\ q = {e} \/ IdleWorkers(idl) = {w}
              /\ {f \in q : Before(f, e)} = {}
<1> DEFINE I == IdleWorkers(idl)
           Ahead(e) == {f \in q : Before(f, e)}
           Lower(w) == {v \in I : v < w}
<1>0. I \subseteq Workers /\ \A v \in I : v \in Nat
  BY DEF IdleWorkers, Workers
<1>1. PICK e \in q : Ahead(e) = {}
  BY HeadExists
<1>2. PICK w \in I : Lower(w) = {}
  <2>1. I \subseteq Nat /\ I # {}
    BY <1>0
  <2>2. PICK w \in I : \A v \in I : ~(v < w)
    BY <2>1, LeastNatural
  <2> QED BY <2>2
<1>3. ASSUME NEW f \in q, f # e PROVE e \in Ahead(f)
  BY <1>1, <1>3 DEF Before, PriorityRequest
<1>4. ASSUME NEW v \in I, v # w PROVE w \in Lower(v)
  BY <1>0, <1>2, <1>4
<1>5. Cardinality(Ahead(e)) = 0 /\ Cardinality(Lower(w)) = 0
  BY <1>1, <1>2, FS_EmptySet
<1>6. ASSUME NEW f \in q, f # e PROVE Cardinality(Ahead(f)) # 0
  <2>1. IsFiniteSet(Ahead(f))
    BY FS_Subset
  <2> QED BY <2>1, <1>3, <1>6, FS_EmptySet
<1>7. ASSUME NEW v \in I, v # w PROVE Cardinality(Lower(v)) # 0
  <2>1. IsFiniteSet(Lower(v))
    BY <1>0, SubsetFinite
  <2> QED BY <2>1, <1>4, <1>7, FS_EmptySet
<1>8. \A d \in I \X q : d[1] = w \/ d[2] = e
  OBVIOUS
<1>9. Dispatches(q, idl) =
        {d \in I \X q : Cardinality(Lower(d[1])) = Cardinality(Ahead(d[2]))}
  BY DEF Dispatches
<1> HIDE DEF I, Ahead, Lower
<1>10. <<w, e>> \in Dispatches(q, idl)
  BY <1>5, <1>9
<1>11. ASSUME NEW d \in Dispatches(q, idl) PROVE d = <<w, e>>
  <2>1. d \in I \X q /\ Cardinality(Lower(d[1])) = Cardinality(Ahead(d[2]))
    BY <1>9
  <2>2. d[1] = w /\ d[2] = e
    BY <2>1, <1>5, <1>6, <1>7, <1>8
  <2> QED BY <2>1, <2>2
<1>12. q = {e} \/ I = {w}
  BY DEF I
<1> QED BY <1>1, <1>10, <1>11, <1>12 DEF I, Ahead

(* try_dispatch changes nothing when it sends nothing ...                  *)
LEMMA SendNothing ==
    ASSUME NEW q, NEW idl \in [Workers -> BOOLEAN], NEW m \in EngineMetrics,
           NEW st \in [Requests -> Stages], inbox \in [Workers -> Seq(Requests)],
           Dispatches(q, idl) = {}, TryDispatch(q, idl, m, st)
    PROVE  queue' = q /\ idle' = idl /\ inbox' = inbox /\ stage' = st /\ metrics' = m
<1>1. queue' = q /\ idle' = idl /\ inbox' = inbox /\ stage' = st
  BY DEF TryDispatch
<1>2. metrics' = [m EXCEPT !.queued = Saturating(@ - 0), !.in_flight = @ + 0]
  BY FS_EmptySet DEF TryDispatch
<1>3. /\ Saturating(m.queued - 0) = m.queued
      /\ m.in_flight + 0 = m.in_flight
  BY DEF Saturating, EngineMetrics
<1>4. metrics' = m
  BY <1>2, <1>3 DEF EngineMetrics
<1> QED BY <1>1, <1>4

Moves(q, idl, m, st, w, e) ==
    /\ queue' = q \ {e}
    /\ idle' = [idl EXCEPT ![w] = FALSE]
    /\ inbox' = IF alive[w] THEN [inbox EXCEPT ![w] = Append(@, e.req)] ELSE inbox
    /\ stage' = [st EXCEPT ![e.req] = IF alive[w] THEN "dispatched" ELSE "lost"]
    /\ metrics' = [m EXCEPT !.queued = @ - 1, !.in_flight = @ + 1]

(* ... and moves one request to one worker when it sends one pair.         *)
LEMMA SendOne ==
    ASSUME NEW q, NEW idl \in [Workers -> BOOLEAN], NEW m \in EngineMetrics,
           NEW st \in [Requests -> Stages], inbox \in [Workers -> Seq(Requests)],
           q \subseteq PriorityRequest, m.queued > 0,
           NEW w \in Workers, NEW e \in q,
           Dispatches(q, idl) = {<<w, e>>}, TryDispatch(q, idl, m, st)
    PROVE  Moves(q, idl, m, st, w, e)
<1> DEFINE sent == Dispatches(q, idl)
<1>0. e.req \in Requests
  BY DEF PriorityRequest
<1>1. \A v : (\E d \in sent : d[1] = v) <=> v = w
  OBVIOUS
<1>2. \A r : (\E d \in sent : d[2].req = r) <=> r = e.req
  OBVIOUS
<1>a. \A d \in sent : d = <<w, e>>
  OBVIOUS
<1>b. <<w, e>> \in sent
  OBVIOUS
<1>3. (CHOOSE d \in sent : d[1] = w)[2].req = e.req
  <2> HIDE DEF sent
  <2>1. \E d \in sent : d[1] = w
    BY <1>b
  <2>2. (CHOOSE d \in sent : d[1] = w) \in sent
    BY <2>1
  <2> QED BY <2>2, <1>a
<1>4. (CHOOSE d \in sent : d[2].req = e.req)[1] = w
  <2> HIDE DEF sent
  <2>1. \E d \in sent : d[2].req = e.req
    BY <1>b
  <2>2. (CHOOSE d \in sent : d[2].req = e.req) \in sent
    BY <2>1
  <2> QED BY <2>2, <1>a
<1>5. Cardinality(sent) = 1
  BY FS_Singleton
<1>6. queue' = q \ {e}
  BY DEF TryDispatch
<1> HIDE DEF sent
<1> USE DEF TryDispatch
<1>7. idle' = [idl EXCEPT ![w] = FALSE]
  <2>1. idle' = [v \in Workers |-> idl[v] /\ \A d \in sent : d[1] # v]
    BY DEF sent
  <2>2. \A v \in Workers : (\A d \in sent : d[1] # v) <=> v # w
    BY <1>1
  <2>3. idle' = [v \in Workers |-> idl[v] /\ v # w]
    BY <2>1, <2>2
  <2> QED BY <2>3
<1>8. inbox' = IF alive[w] THEN [inbox EXCEPT ![w] = Append(@, e.req)] ELSE inbox
  <2>1. inbox' = [v \in Workers |->
                    IF alive[v] /\ \E d \in sent : d[1] = v
                    THEN Append(inbox[v], (CHOOSE d \in sent : d[1] = v)[2].req)
                    ELSE inbox[v]]
    BY DEF sent
  <2>2. \A v \in Workers : (\E d \in sent : d[1] = v) <=> v = w
    BY <1>1
  <2>3. inbox' = [v \in Workers |-> IF alive[v] /\ v = w
                                    THEN Append(inbox[w], e.req) ELSE inbox[v]]
    BY <2>1, <2>2, <1>3
  <2>4. CASE alive[w]
    <3>1. inbox' = [v \in Workers |-> IF v = w THEN Append(inbox[w], e.req) ELSE inbox[v]]
      BY <2>3, <2>4
    <3>2. inbox' = [inbox EXCEPT ![w] = Append(@, e.req)]
      BY <3>1
    <3> QED BY <3>2, <2>4
  <2>5. CASE ~alive[w]
    <3>1. inbox' = [v \in Workers |-> inbox[v]]
      BY <2>3, <2>5
    <3>2. inbox' = inbox
      BY <3>1
    <3> QED BY <3>2, <2>5
  <2> QED BY <2>4, <2>5
<1>9. stage' = [st EXCEPT ![e.req] = IF alive[w] THEN "dispatched" ELSE "lost"]
  <2>1. stage' = [r \in Requests |->
                    IF \E d \in sent : d[2].req = r
                    THEN IF alive[(CHOOSE d \in sent : d[2].req = r)[1]]
                         THEN "dispatched" ELSE "lost"
                    ELSE st[r]]
    BY DEF sent
  <2> QED BY <2>1, <1>2, <1>4, <1>0
<1>10. metrics' = [m EXCEPT !.queued = Saturating(@ - 1), !.in_flight = @ + 1]
  BY <1>5 DEF sent
<1>11. Saturating(m.queued - 1) = m.queued - 1
  BY DEF Saturating, EngineMetrics
<1> QED BY <1>6, <1>7, <1>8, <1>9, <1>10, <1>11 DEF Moves
-----------------------------------------------------------------------------
(* One element leaves or enters a set of workers or of requests.           *)
Counted(m, new, a, b) == new = [m EXCEPT !.queued = a, !.in_flight = b]

(* Metrics stay well formed under the two updates of try_dispatch.         *)
LEMMA MetricsUpdate ==
    ASSUME NEW m \in EngineMetrics, NEW a \in Nat, NEW b \in Nat,
           NEW new, Counted(m, new, a, b)
    PROVE  /\ new \in EngineMetrics
           /\ new.queued = a
           /\ new.in_flight = b
           /\ new.completed = m.completed
           /\ new.rejected_backpressure = m.rejected_backpressure
BY DEF EngineMetrics, Counted

(* Marking an idle entry busy adds one worker to the busy ones.            *)
LEMMA MarkBusy ==
    ASSUME NEW idl \in [Workers -> BOOLEAN], NEW w \in Workers, idl[w],
           NEW new, new = [idl EXCEPT ![w] = FALSE]
    PROVE  Cardinality(BusyOn(new)) = Cardinality(BusyOn(idl)) + 1
<1>1. BusyOn(new) = BusyOn(idl) \cup {w} /\ w \notin BusyOn(idl)
  BY DEF BusyOn
<1>2. IsFiniteSet(BusyOn(idl))
  BY SubsetFinite DEF BusyOn
<1> QED BY <1>1, <1>2, FS_AddElement

(* Marking a busy entry idle removes one worker from the busy ones.        *)
LEMMA MarkIdle ==
    ASSUME NEW idl \in [Workers -> BOOLEAN], NEW w \in Workers, ~idl[w],
           NEW new, new = [idl EXCEPT ![w] = TRUE]
    PROVE  Cardinality(BusyOn(new)) = Cardinality(BusyOn(idl)) - 1
<1>1. BusyOn(new) = BusyOn(idl) \ {w} /\ w \in BusyOn(idl)
  BY DEF BusyOn
<1>2. IsFiniteSet(BusyOn(idl))
  BY SubsetFinite DEF BusyOn
<1> QED BY <1>1, <1>2, FS_RemoveElement

(* Request r moves to stage x and no other request moves.                  *)
Restaged(st, new, r, x) == new = [st EXCEPT ![r] = x]

(* How the counts of CountsOn follow one request.                          *)
LEMMA StageCounts ==
    ASSUME NEW st \in [Requests -> Stages], NEW r \in Requests, NEW x, NEW new,
           Restaged(st, new, r, x)
    PROVE  /\ Outstanding(st) \in Nat /\ Rejected(st) \in Nat /\ Done(st) \in Nat
           /\ Outstanding(new) = Outstanding(st) + (IF x \in OutStages THEN 1 ELSE 0)
                                                 - (IF st[r] \in OutStages THEN 1 ELSE 0)
           /\ Rejected(new) = Rejected(st) + (IF x = "rejected" THEN 1 ELSE 0)
                                           - (IF st[r] = "rejected" THEN 1 ELSE 0)
           /\ Done(new) = Done(st) + (IF x = "done" THEN 1 ELSE 0)
                                   - (IF st[r] = "done" THEN 1 ELSE 0)
<1>1. \A S : IsFiniteSet(StageSet(st, S)) /\ Cardinality(StageSet(st, S)) \in Nat
  BY RequestSubsetFinite DEF StageSet
<1>2. \A S : Cardinality(StageSet(new, S)) =
         Cardinality(StageSet(st, S)) + (IF x \in S THEN 1 ELSE 0) - (IF st[r] \in S THEN 1 ELSE 0)
  <2> TAKE S
  <2>1. CASE st[r] \in S <=> x \in S
    <3>1. StageSet(new, S) = StageSet(st, S)
      BY <2>1 DEF StageSet, Restaged
    <3> QED BY <3>1, <2>1, <1>1
  <2>2. CASE st[r] \notin S /\ x \in S
    <3>1. StageSet(new, S) = StageSet(st, S) \cup {r} /\ r \notin StageSet(st, S)
      BY <2>2 DEF StageSet, Restaged
    <3>2. Cardinality(StageSet(new, S)) = Cardinality(StageSet(st, S)) + 1
      BY <3>1, <1>1, FS_AddElement
    <3> QED BY <3>2, <2>2, <1>1
  <2>3. CASE st[r] \in S /\ x \notin S
    <3>1. StageSet(new, S) = StageSet(st, S) \ {r} /\ r \in StageSet(st, S)
      BY <2>3 DEF StageSet, Restaged
    <3>a. IsFiniteSet(StageSet(st, S))
      BY <1>1
    <3>b. Cardinality(StageSet(st, S) \ {r}) = Cardinality(StageSet(st, S)) - 1
      BY <3>1, <3>a, FS_RemoveElement
    <3>2. Cardinality(StageSet(new, S)) = Cardinality(StageSet(st, S)) - 1
      BY <3>1, <3>b
    <3> QED BY <3>2, <2>3, <1>1
  <2> QED BY <2>1, <2>2, <2>3
<1>3. \A y, z : y \in {z} <=> y = z
  OBVIOUS
<1> QED BY <1>1, <1>2, <1>3 DEF Outstanding, Rejected, Done

(* What a handler has established when it calls try_dispatch: everything   *)
(* of the invariant but WorkConserving, which it can have disturbed by one *)
(* entry of the queue or one idle worker only.                             *)
Ready(q, ns, idl, m, st, sg, wk) ==
    /\ TypeOn(q, ns, idl, m, st, inbox, running, sg, wk)
    /\ alive \in [Workers -> BOOLEAN]
    /\ QueueOn(q, ns, st)
    /\ MailOn(st, inbox, running)
    /\ CountsOn(q, idl, m, st, sg, wk)
    /\ \/ q = {}
       \/ IdleWorkers(idl) = {}
       \/ \E e : q = {e}
       \/ \E w : IdleWorkers(idl) = {w}

(* A handler that ends by calling try_dispatch on what it has prepared.    *)
Calls(q, ns, idl, m, st, sg, wk) ==
    /\ Ready(q, ns, idl, m, st, sg, wk)
    /\ TryDispatch(q, idl, m, st)
    /\ next_seq' = ns /\ running' = running /\ alive' = alive
    /\ signals' = sg /\ wakeups' = wk

Keeps(q, idl, m, st) ==
    queue' = q /\ idle' = idl /\ inbox' = inbox /\ stage' = st /\ metrics' = m

(* So called, the loop moves nothing or moves the head of the queue.       *)
LEMMA DispatchEffect ==
    ASSUME NEW q, NEW ns, NEW idl, NEW m, NEW st, NEW sg, NEW wk,
           Calls(q, ns, idl, m, st, sg, wk)
    PROVE  \/ Keeps(q, idl, m, st) /\ (q = {} \/ IdleWorkers(idl) = {})
           \/ \E w \in IdleWorkers(idl), e \in q :
                 /\ Moves(q, idl, m, st, w, e)
                 /\ q = {e} \/ IdleWorkers(idl) = {w}
                 /\ {f \in q : Before(f, e)} = {}
<1> USE DEF Calls
<1>t. /\ q \subseteq PriorityRequest
      /\ idl \in [Workers -> BOOLEAN]
      /\ m \in EngineMetrics
      /\ st \in [Requests -> Stages]
      /\ inbox \in [Workers -> Seq(Requests)]
  BY DEF Ready, TypeOn
<1>1. CASE q = {} \/ IdleWorkers(idl) = {}
  BY <1>1, <1>t, NothingToSend, SendNothing DEF Keeps
<1>2. CASE q # {} /\ IdleWorkers(idl) # {}
  <2>1. PICK w \in IdleWorkers(idl), e \in q :
              /\ Dispatches(q, idl) = {<<w, e>>}
              /\ q = {e} \/ IdleWorkers(idl) = {w}
              /\ {f \in q : Before(f, e)} = {}
    <3>1. /\ IsFiniteSet(q)
          /\ \A f, g \in q : f.arrival_seq = g.arrival_seq => f = g
      BY DEF Ready, QueueOn
    <3>2. (\E e : q = {e}) \/ (\E w : IdleWorkers(idl) = {w})
      BY <1>2 DEF Ready
    <3> QED BY <3>1, <3>2, <1>t, <1>2, OneToSend, Zenon
  <2>2. w \in Workers
    BY DEF IdleWorkers
  <2>3. m.queued > 0
    BY FS_CardinalityType, FS_EmptySet, <1>2 DEF Ready, QueueOn, CountsOn
  <2>4. Moves(q, idl, m, st, w, e)
    BY <2>1, <2>2, <2>3, <1>t, SendOne
  <2> QED BY <2>1, <2>4
<1> QED BY <1>1, <1>2

(* try_dispatch, on any well-formed arguments, restores the invariant.     *)
LEMMA DispatchPreserves ==
    ASSUME NEW q, NEW ns, NEW idl, NEW m, NEW st, NEW sg, NEW wk,
           Calls(q, ns, idl, m, st, sg, wk)
    PROVE  IInv'
<1>r. /\ TypeOn(q, ns, idl, m, st, inbox, running, sg, wk)
      /\ alive \in [Workers -> BOOLEAN]
      /\ QueueOn(q, ns, st) /\ MailOn(st, inbox, running)
      /\ CountsOn(q, idl, m, st, sg, wk)
      /\ next_seq' = ns /\ running' = running /\ alive' = alive
      /\ signals' = sg /\ wakeups' = wk
  BY DEF Calls, Ready
<1>1. CASE Keeps(q, idl, m, st) /\ (q = {} \/ IdleWorkers(idl) = {})
  BY <1>1, <1>r DEF Keeps, IInv, WorkConserving
<1>2. ASSUME NEW w \in IdleWorkers(idl), NEW e \in q, Moves(q, idl, m, st, w, e),
             q = {e} \/ IdleWorkers(idl) = {w}
      PROVE  IInv'
  <2>2. w \in Workers /\ idl[w]
    BY DEF IdleWorkers
  <2>3. e.req \in Requests /\ st[e.req] = "queued"
    BY <1>r DEF TypeOn, QueueOn, PriorityRequest
  <2>4. Cardinality(q) \in Nat /\ Cardinality(q) > 0 /\ Cardinality(q \ {e}) = Cardinality(q) - 1
        /\ IsFiniteSet(q \ {e})
    BY FS_CardinalityType, FS_EmptySet, FS_RemoveElement, <1>r DEF QueueOn
  <2>5. /\ queue' = q \ {e}
        /\ idle' = [idl EXCEPT ![w] = FALSE]
        /\ inbox' = IF alive[w] THEN [inbox EXCEPT ![w] = Append(@, e.req)] ELSE inbox
        /\ stage' = [st EXCEPT ![e.req] = IF alive[w] THEN "dispatched" ELSE "lost"]
        /\ metrics' = [m EXCEPT !.queued = @ - 1, !.in_flight = @ + 1]
    BY <1>2 DEF Moves
  <2>6. TypeOn(queue', next_seq', idle', metrics', stage', inbox', running', signals', wakeups')
    <3>1. metrics' \in EngineMetrics
      <4>1. m \in EngineMetrics /\ m.queued - 1 \in Nat /\ m.in_flight + 1 \in Nat
        BY <1>r, <2>4 DEF TypeOn, CountsOn, EngineMetrics
      <4>2. metrics' = [m EXCEPT !.queued = @ - 1, !.in_flight = @ + 1]
        BY <2>5
      <4>3. Counted(m, metrics', m.queued - 1, m.in_flight + 1)
        BY <4>2 DEF Counted
      <4> QED BY <4>1, <4>3, MetricsUpdate
    <3>2. inbox' \in [Workers -> Seq(Requests)]
      BY <1>r, <2>2, <2>3, <2>5 DEF TypeOn
    <3>3. stage' \in [Requests -> Stages]
      BY <1>r, <2>3, <2>5 DEF TypeOn, Stages
    <3>4. idle' \in [Workers -> BOOLEAN]
      BY <1>r, <2>2, <2>5 DEF TypeOn
    <3> QED BY <1>r, <2>5, <3>1, <3>2, <3>3, <3>4 DEF TypeOn
  <2>7. QueueOn(queue', next_seq', stage')
    <3>1. Cardinality(queue') <= QueueCapacity /\ IsFiniteSet(queue')
      BY <1>r, <2>4, <2>5 DEF QueueOn
    <3>2. \A f \in queue' : stage'[f.req] = "queued" /\ f.arrival_seq < next_seq'
      BY <1>r, <2>5 DEF QueueOn, TypeOn, PriorityRequest
    <3> QED BY <1>r, <3>1, <3>2, <2>5 DEF QueueOn
  <2>8. MailOn(stage', inbox', running')
    <3>1. CASE alive[w]
      <4>1. inbox' = [inbox EXCEPT ![w] = Append(@, e.req)] /\ stage' = [st EXCEPT ![e.req] = "dispatched"]
        BY <2>5, <3>1
      <4>2. \A v \in Workers : \A i \in 1..Len(inbox[v]) :
              inbox[v][i] \in Requests /\ st[inbox[v][i]] = "dispatched" /\ inbox[v][i] # e.req
        BY <1>r, <2>3 DEF MailOn, TypeOn
      <4>3. \A v \in Workers \ {w} : inbox'[v] = inbox[v]
        BY <1>r, <4>1 DEF TypeOn
      <4>4. /\ Len(inbox'[w]) = Len(inbox[w]) + 1
            /\ \A i \in 1..Len(inbox[w]) : inbox'[w][i] = inbox[w][i]
            /\ inbox'[w][Len(inbox[w]) + 1] = e.req
            /\ Len(inbox[w]) \in Nat
        BY <1>r, <2>2, <2>3, <4>1 DEF TypeOn
      <4>5. \A v \in Workers : \A i \in 1..Len(inbox'[v]) : stage'[inbox'[v][i]] = "dispatched"
        BY <1>r, <2>3, <4>1, <4>2, <4>3, <4>4 DEF TypeOn
      <4>6. \A v, u \in Workers : \A i \in 1..Len(inbox'[v]), j \in 1..Len(inbox'[u]) :
              inbox'[v][i] = inbox'[u][j] => v = u /\ i = j
        <5> SUFFICES ASSUME NEW v \in Workers, NEW u \in Workers,
                            NEW i \in 1..Len(inbox'[v]), NEW j \in 1..Len(inbox'[u]),
                            inbox'[v][i] = inbox'[u][j]
                     PROVE  v = u /\ i = j
          OBVIOUS
        <5>1. CASE v # w /\ u # w
          BY <1>r, <5>1, <4>3 DEF MailOn
        <5>a. \A k \in 1..Len(inbox'[w]) : k \in 1..Len(inbox[w]) \/ inbox'[w][k] = e.req
          BY <4>4
        <5>b. \A z \in Workers \ {w} : \A k \in 1..Len(inbox'[w]), l \in 1..Len(inbox'[z]) :
                inbox'[w][k] # inbox'[z][l]
          <6> SUFFICES ASSUME NEW z \in Workers \ {w}, NEW k \in 1..Len(inbox'[w]),
                              NEW l \in 1..Len(inbox'[z])
                       PROVE  inbox'[w][k] # inbox'[z][l]
            OBVIOUS
          <6>1. l \in 1..Len(inbox[z]) /\ inbox'[z][l] = inbox[z][l]
            BY <4>3
          <6>2. CASE k \in 1..Len(inbox[w])
            BY <1>r, <6>1, <6>2, <4>4, <2>2 DEF MailOn
          <6>3. CASE inbox'[w][k] = e.req
            BY <6>1, <6>3, <4>2
          <6> QED BY <6>2, <6>3, <5>a
        <5>2. CASE v = w /\ u # w
          BY <5>2, <5>b
        <5>3. CASE v # w /\ u = w
          BY <5>3, <5>b
        <5>4. CASE v = w /\ u = w
          <6>1. \A k, l \in 1..Len(inbox[w]) : inbox[w][k] = inbox[w][l] => k = l
            BY <1>r, <2>2 DEF MailOn
          <6>2. \A k \in 1..Len(inbox[w]) : inbox[w][k] # e.req
            BY <2>2, <4>2
          <6>3. CASE i \in 1..Len(inbox[w]) /\ j \in 1..Len(inbox[w])
            BY <5>4, <6>1, <6>3, <4>4
          <6>4. CASE i \notin 1..Len(inbox[w]) /\ j \in 1..Len(inbox[w])
            BY <5>4, <5>a, <6>2, <6>4, <4>4
          <6>5. CASE i \in 1..Len(inbox[w]) /\ j \notin 1..Len(inbox[w])
            BY <5>4, <5>a, <6>2, <6>5, <4>4
          <6>6. CASE i \notin 1..Len(inbox[w]) /\ j \notin 1..Len(inbox[w])
            BY <5>4, <6>6, <4>4
          <6> QED BY <6>3, <6>4, <6>5, <6>6
        <5> QED BY <5>1, <5>2, <5>3, <5>4
      <4>7. \A v \in Workers : running'[v] # NoRequest => stage'[running'[v]] = "running"
        BY <1>r, <2>3, <4>1 DEF MailOn, TypeOn
      <4> QED BY <1>r, <4>5, <4>6, <4>7 DEF MailOn
    <3>2. CASE ~alive[w]
      BY <1>r, <2>3, <2>5, <3>2 DEF MailOn, TypeOn
    <3> QED BY <3>1, <3>2
  <2>9. CountsOn(queue', idle', metrics', stage', signals', wakeups')
    <3>1. Cardinality(BusyOn(idle')) = Cardinality(BusyOn(idl)) + 1
      <4>1. idl \in [Workers -> BOOLEAN] /\ idle' = [idl EXCEPT ![w] = FALSE]
        BY <1>r, <2>5 DEF TypeOn
      <4> QED BY <4>1, <2>2, MarkBusy
    <3>2. /\ Outstanding(st) \in Nat /\ Outstanding(stage') = Outstanding(st) + 1
          /\ Rejected(stage') = Rejected(st)
          /\ Done(stage') = Done(st)
      <4> DEFINE x == IF alive[w] THEN "dispatched" ELSE "lost"
      <4>1. st \in [Requests -> Stages] /\ Restaged(st, stage', e.req, x)
        BY <1>r, <2>5 DEF TypeOn, Restaged
      <4>2. x \in OutStages /\ st[e.req] \notin OutStages /\ x # "rejected" /\ x # "done"
            /\ st[e.req] # "rejected" /\ st[e.req] # "done"
        BY <2>3 DEF OutStages
      <4> HIDE DEF x
      <4>3. /\ Outstanding(st) \in Nat /\ Rejected(st) \in Nat /\ Done(st) \in Nat
            /\ Outstanding(stage') = Outstanding(st) + (IF x \in OutStages THEN 1 ELSE 0)
                                      - (IF st[e.req] \in OutStages THEN 1 ELSE 0)
            /\ Rejected(stage') = Rejected(st) + (IF x = "rejected" THEN 1 ELSE 0)
                                      - (IF st[e.req] = "rejected" THEN 1 ELSE 0)
            /\ Done(stage') = Done(st) + (IF x = "done" THEN 1 ELSE 0)
                                      - (IF st[e.req] = "done" THEN 1 ELSE 0)
        BY <4>1, <2>3, StageCounts
      <4> QED BY <4>2, <4>3
    <3>5. /\ metrics'.queued = m.queued - 1
          /\ metrics'.in_flight = m.in_flight + 1
          /\ metrics'.rejected_backpressure = m.rejected_backpressure
          /\ metrics'.completed = m.completed
      BY <1>r, <2>5 DEF TypeOn, EngineMetrics
    <3>7. sg \in Nat /\ wk \in Nat /\ signals' = sg /\ wakeups' = wk
      BY <1>r DEF TypeOn
    <3> QED BY <1>r, <3>1, <3>2, <3>5, <3>7, <2>4, <2>5 DEF CountsOn
  <2>10. WorkConserving'
    BY <1>r, <1>2, <2>5, <2>2 DEF WorkConserving, IdleWorkers, TypeOn
  <2> QED BY <1>r, <2>6, <2>7, <2>8, <2>9, <2>10 DEF IInv
<1> QED BY <1>1, <1>2, DispatchEffect
-----------------------------------------------------------------------------
(* The invariant holds initially and every action preserves it.            *)

(* Every engine starts in the invariant.                                   *)
LEMMA InitInv == Init => IInv
<1> SUFFICES ASSUME Init PROVE IInv
  OBVIOUS
<1> USE DEF Init
<1>1. TypeOn(queue, next_seq, idle, metrics, stage, inbox, running, signals, wakeups)
  BY DEF TypeOn, EngineMetrics, Stages
<1>2. QueueOn(queue, next_seq, stage)
  BY FS_EmptySet DEF QueueOn
<1>3. MailOn(stage, inbox, running)
  BY DEF MailOn
<1>4. CountsOn(queue, idle, metrics, stage, signals, wakeups)
  <2>1. BusyOn(idle) = {} /\ StageSet(stage, OutStages) = {}
        /\ StageSet(stage, {"rejected"}) = {} /\ StageSet(stage, {"done"}) = {}
    BY DEF BusyOn, StageSet, OutStages
  <2>2. Cardinality(BusyOn(idle)) = 0 /\ Outstanding(stage) = 0 /\ Rejected(stage) = 0
        /\ Done(stage) = 0 /\ Cardinality(queue) = 0
    BY <2>1, FS_EmptySet DEF Outstanding, Rejected, Done
  <2> QED BY <2>2 DEF CountsOn
<1>5. WorkConserving
  BY DEF WorkConserving
<1> QED BY <1>1, <1>2, <1>3, <1>4, <1>5 DEF IInv

(* EngineMsg::Add, admitted or refused, calls try_dispatch well prepared.  *)
LEMMA AddCalls ==
    ASSUME IInv, NEW r \in Requests, NEW p \in Priorities, Add(r, p)
    PROVE  \/ /\ ~IsFull
              /\ Calls(Push(r, p), next_seq + 1, idle, [metrics EXCEPT !.queued = @ + 1],
                       [stage EXCEPT ![r] = "queued"], signals, wakeups)
           \/ /\ IsFull
              /\ Calls(queue, next_seq, idle, [metrics EXCEPT !.rejected_backpressure = @ + 1],
                       [stage EXCEPT ![r] = "rejected"], signals, wakeups)
<1>0. /\ TypeOn(queue, next_seq, idle, metrics, stage, inbox, running, signals, wakeups)
      /\ alive \in [Workers -> BOOLEAN]
      /\ QueueOn(queue, next_seq, stage)
      /\ MailOn(stage, inbox, running)
      /\ CountsOn(queue, idle, metrics, stage, signals, wakeups)
      /\ WorkConserving
      /\ stage[r] = "new" /\ running' = running /\ alive' = alive
      /\ signals' = signals /\ wakeups' = wakeups
  BY DEF IInv, Add
<1>t. /\ stage \in [Requests -> Stages] /\ metrics \in EngineMetrics /\ next_seq \in Nat
      /\ queue \subseteq PriorityRequest /\ signals \in Nat /\ wakeups \in Nat
      /\ IsFiniteSet(queue) /\ Cardinality(queue) \in Nat
  BY <1>0, FS_CardinalityType DEF TypeOn, QueueOn
<1>1. CASE ~IsFull
  <2> DEFINE e == [req |-> r, priority |-> p, arrival_seq |-> next_seq]
             q == Push(r, p)
             m == [metrics EXCEPT !.queued = @ + 1]
             st == [stage EXCEPT ![r] = "queued"]
             ns == next_seq + 1
  <2>1. next_seq' = ns /\ TryDispatch(q, idle, m, st)
    BY <1>1 DEF Add
  <2>2. q = queue \cup {e} /\ e \in PriorityRequest /\ e \notin queue
    BY <1>0, <1>t DEF Push, PriorityRequest, QueueOn
  <2>3. IsFiniteSet(q) /\ Cardinality(q) = Cardinality(queue) + 1
    <3> HIDE DEF e, q
    <3> QED BY <2>2, <1>t, FS_AddElement
  <2>4. TypeOn(q, ns, idle, m, st, inbox, running, signals, wakeups)
    <3>1. q \subseteq PriorityRequest
      BY <2>2, <1>t
    <3>2. m \in EngineMetrics /\ m.queued = metrics.queued + 1 /\ st \in [Requests -> Stages]
      BY <1>t DEF EngineMetrics, Stages
    <3> HIDE DEF q, m, st, e
    <3> QED BY <1>0, <1>t, <3>1, <3>2 DEF TypeOn
  <2>5. QueueOn(q, ns, st)
    <3>1. Cardinality(q) <= QueueCapacity
      BY <1>1, <1>t, <2>3 DEF IsFull
    <3>2. \A f \in queue : f.req # r /\ f.req \in Requests /\ f.arrival_seq \in Nat
                             /\ f.arrival_seq < next_seq /\ st[f.req] = "queued"
      BY <1>0, <1>t DEF QueueOn, PriorityRequest
    <3>3. e.req = r /\ e.arrival_seq = next_seq /\ st[r] = "queued"
      BY <1>t
    <3>4. \A f \in q : st[f.req] = "queued" /\ f.arrival_seq < ns
      <4> HIDE DEF q, e, st
      <4> QED BY <2>2, <3>2, <3>3, <1>t
    <3>5. \A f, g \in q : (f.arrival_seq = g.arrival_seq => f = g) /\ (f.req = g.req => f = g)
      <4> HIDE DEF q, e, st
      <4> QED BY <2>2, <3>2, <3>3, <1>t, <1>0 DEF QueueOn
    <3> HIDE DEF q, e, st
    <3> QED BY <2>3, <3>1, <3>4, <3>5 DEF QueueOn
  <2>6. MailOn(st, inbox, running)
    BY <1>0, <1>t DEF MailOn, TypeOn
  <2>7. CountsOn(q, idle, m, st, signals, wakeups)
    <3>1. Restaged(stage, st, r, "queued")
      BY DEF Restaged
    <3>2. Outstanding(st) = Outstanding(stage) /\ Rejected(st) = Rejected(stage) /\ Done(st) = Done(stage)
      <4> HIDE DEF st
      <4> QED BY <3>1, <1>0, <1>t, StageCounts DEF OutStages
    <3>3. /\ m.queued = metrics.queued + 1 /\ m.in_flight = metrics.in_flight
          /\ m.completed = metrics.completed
          /\ m.rejected_backpressure = metrics.rejected_backpressure
      BY <1>t DEF EngineMetrics
    <3> HIDE DEF q, m, st
    <3> QED BY <3>2, <3>3, <2>3, <1>0 DEF CountsOn
  <2>8. q = {} \/ IdleWorkers(idle) = {} \/ (\E x : q = {x}) \/ \E w : IdleWorkers(idle) = {w}
    BY <1>0, <2>2 DEF WorkConserving
  <2>9. Calls(q, ns, idle, m, st, signals, wakeups)
    <3> HIDE DEF q, m, st, ns, e
    <3> QED BY <1>0, <2>1, <2>4, <2>5, <2>6, <2>7, <2>8 DEF Calls, Ready
  <2> QED BY <1>1, <2>9
<1>2. CASE IsFull
  <2> DEFINE m == [metrics EXCEPT !.rejected_backpressure = @ + 1]
             st == [stage EXCEPT ![r] = "rejected"]
  <2>1. next_seq' = next_seq /\ TryDispatch(queue, idle, m, st)
    BY <1>2 DEF Add
  <2>2. /\ m \in EngineMetrics /\ st \in [Requests -> Stages]
        /\ m.queued = metrics.queued /\ m.in_flight = metrics.in_flight
        /\ m.completed = metrics.completed
        /\ m.rejected_backpressure = metrics.rejected_backpressure + 1
    BY <1>t DEF EngineMetrics, Stages
  <2>3. TypeOn(queue, next_seq, idle, m, st, inbox, running, signals, wakeups)
    <3> HIDE DEF m, st
    <3> QED BY <1>0, <2>2 DEF TypeOn
  <2>4. QueueOn(queue, next_seq, st)
    BY <1>0, <1>t DEF QueueOn, PriorityRequest
  <2>5. MailOn(st, inbox, running)
    BY <1>0, <1>t DEF MailOn, TypeOn
  <2>6. CountsOn(queue, idle, m, st, signals, wakeups)
    <3>1. Restaged(stage, st, r, "rejected")
      BY DEF Restaged
    <3>2. /\ Outstanding(st) = Outstanding(stage) /\ Done(st) = Done(stage)
          /\ Rejected(st) = Rejected(stage) + 1
      <4> HIDE DEF st
      <4> QED BY <3>1, <1>0, <1>t, StageCounts DEF OutStages
    <3> HIDE DEF m, st
    <3> QED BY <3>2, <2>2, <1>0 DEF CountsOn
  <2>7. queue = {} \/ IdleWorkers(idle) = {}
    BY <1>0 DEF WorkConserving
  <2>8. Calls(queue, next_seq, idle, m, st, signals, wakeups)
    <3> HIDE DEF m, st
    <3> QED BY <1>0, <2>1, <2>3, <2>4, <2>5, <2>6, <2>7 DEF Calls, Ready
  <2> QED BY <1>2, <2>8
<1> QED BY <1>1, <1>2

(* So Add preserves the invariant.                                         *)
LEMMA AddInv ==
    ASSUME IInv, NEW r \in Requests, NEW p \in Priorities, Add(r, p)
    PROVE  IInv'
BY AddCalls, DispatchPreserves

(* A WorkerIdle message always finds an entry marked busy, and the first   *)
(* such entry exists.                                                      *)
LEMMA FirstBusyExists ==
    ASSUME \E w \in Workers : ~idle[w]
    PROVE  FirstBusy \in Workers /\ ~idle[FirstBusy]
<1> DEFINE B == {w \in Workers : ~idle[w]}
<1>1. B \in SUBSET Nat /\ B # {}
  BY DEF Workers
<1>2. PICK n \in B : \A k \in B : ~(k < n)
  <2> HIDE DEF B
  <2> QED BY <1>1, LeastNatural
<1>3. \E w \in Workers : ~idle[w] /\ \A v \in Workers : ~idle[v] => w <= v
  BY <1>2 DEF Workers
<1> QED BY <1>3 DEF FirstBusy

(* EngineMsg::WorkerIdle, whichever entry it marks, calls try_dispatch     *)
(* with the queue as it was and that one entry freed.                      *)
LEMMA WorkerIdleCalls ==
    ASSUME IInv, WorkerIdle
    PROVE  Calls(queue, next_seq, [idle EXCEPT ![FirstBusy] = TRUE],
                 [metrics EXCEPT !.in_flight = Saturating(@ - 1), !.completed = @ + 1],
                 stage, signals, wakeups - 1)
<1>0. /\ TypeOn(queue, next_seq, idle, metrics, stage, inbox, running, signals, wakeups)
      /\ alive \in [Workers -> BOOLEAN]
      /\ QueueOn(queue, next_seq, stage)
      /\ MailOn(stage, inbox, running)
      /\ CountsOn(queue, idle, metrics, stage, signals, wakeups)
      /\ WorkConserving
      /\ wakeups > 0 /\ wakeups' = wakeups - 1
      /\ next_seq' = next_seq /\ running' = running /\ alive' = alive /\ signals' = signals
  BY DEF IInv, WorkerIdle
<1>t. /\ idle \in [Workers -> BOOLEAN] /\ stage \in [Requests -> Stages]
      /\ metrics \in EngineMetrics /\ signals \in Nat /\ wakeups \in Nat /\ wakeups - 1 \in Nat
  BY <1>0 DEF TypeOn
<1>n. Outstanding(stage) \in Nat
  BY RequestSubsetFinite DEF Outstanding, StageSet
<1>1. Cardinality(BusyOn(idle)) > 0
  BY <1>0, <1>t, <1>n DEF CountsOn
<1>2. \E w \in Workers : ~idle[w]
  <2>1. BusyOn(idle) # {}
    BY <1>1, FS_EmptySet
  <2> QED BY <2>1 DEF BusyOn
<1>3. FirstBusy \in Workers /\ ~idle[FirstBusy]
  BY <1>2, FirstBusyExists
<1> DEFINE w == FirstBusy
           idl == [idle EXCEPT ![w] = TRUE]
           m == [metrics EXCEPT !.in_flight = Saturating(@ - 1), !.completed = @ + 1]
<1>4. TryDispatch(queue, idl, m, stage)
  BY <1>2 DEF WorkerIdle
<1>5. Cardinality(BusyOn(idl)) = Cardinality(BusyOn(idle)) - 1
  <2> HIDE DEF w
  <2> QED BY <1>3, <1>t, MarkIdle DEF w
<1>6. metrics.in_flight > 0
  BY <1>0, <1>1 DEF CountsOn
<1>7. /\ m \in EngineMetrics /\ m.queued = metrics.queued
      /\ m.in_flight = metrics.in_flight - 1 /\ m.completed = metrics.completed + 1
      /\ m.rejected_backpressure = metrics.rejected_backpressure
  <2>1. metrics.in_flight - 1 \in Nat /\ metrics.completed + 1 \in Nat
        /\ Saturating(metrics.in_flight - 1) = metrics.in_flight - 1
    BY <1>t, <1>6 DEF EngineMetrics, Saturating
  <2> QED BY <2>1, <1>t DEF EngineMetrics
<1>8. TypeOn(queue, next_seq, idl, m, stage, inbox, running, signals, wakeups - 1)
  <2>1. idl \in [Workers -> BOOLEAN]
    BY <1>t
  <2> HIDE DEF idl, m
  <2> QED BY <1>0, <1>t, <1>7, <2>1 DEF TypeOn
<1>9. CountsOn(queue, idl, m, stage, signals, wakeups - 1)
  <2> HIDE DEF idl, m
  <2>1. metrics.completed \in Nat
    BY <1>t DEF EngineMetrics
  <2> QED BY <1>0, <1>t, <1>n, <1>5, <1>7, <2>1 DEF CountsOn
<1>10. queue = {} \/ IdleWorkers(idl) = {} \/ (\E x : queue = {x}) \/ \E v : IdleWorkers(idl) = {v}
  <2>1. CASE IdleWorkers(idle) = {}
    <3>1. \A v \in Workers : ~idle[v]
      BY <2>1 DEF IdleWorkers
    <3>2. \A v \in Workers : idl[v] <=> v = w
      BY <3>1, <1>3, <1>t
    <3>3. IdleWorkers(idl) = {w}
      <4> HIDE DEF idl
      <4> QED BY <3>2, <1>3 DEF IdleWorkers, w
    <3> QED BY <3>3
  <2> QED BY <2>1, <1>0 DEF WorkConserving
<1>11. Calls(queue, next_seq, idl, m, stage, signals, wakeups - 1)
  <2> HIDE DEF idl, m
  <2> QED BY <1>0, <1>4, <1>8, <1>9, <1>10 DEF Calls, Ready
<1> QED BY <1>11

(* So WorkerIdle preserves the invariant.                                  *)
LEMMA WorkerIdleInv == ASSUME IInv, WorkerIdle PROVE IInv'
BY WorkerIdleCalls, DispatchPreserves

(* The forwarder moves a signal from the channel to the mailbox.           *)
LEMMA ForwardInv == ASSUME IInv, Forward PROVE IInv'
<1>1. /\ queue' = queue /\ next_seq' = next_seq /\ idle' = idle /\ metrics' = metrics
      /\ inbox' = inbox /\ running' = running /\ alive' = alive /\ stage' = stage
      /\ signals > 0 /\ signals' = signals - 1 /\ wakeups' = wakeups + 1
  BY DEF Forward
<1>2. signals \in Nat /\ wakeups \in Nat
  BY DEF IInv, TypeOn
<1>3. TypeOn(queue', next_seq', idle', metrics', stage', inbox', running', signals', wakeups')
  BY <1>1, <1>2 DEF IInv, TypeOn
<1>4. CountsOn(queue', idle', metrics', stage', signals', wakeups')
  <2>1. Outstanding(stage) \in Nat /\ metrics.completed \in Nat
    BY RequestSubsetFinite DEF Outstanding, StageSet, IInv, TypeOn, EngineMetrics
  <2> QED BY <1>1, <1>2, <2>1 DEF IInv, CountsOn
<1> QED BY <1>1, <1>3, <1>4 DEF IInv, WorkConserving

(* A worker takes a request from its mailbox.                              *)
LEMMA StartInv == ASSUME IInv, NEW w \in Workers, Start(w) PROVE IInv'
<1> DEFINE r == Head(inbox[w])
<1>0. /\ TypeOn(queue, next_seq, idle, metrics, stage, inbox, running, signals, wakeups)
      /\ alive \in [Workers -> BOOLEAN]
      /\ QueueOn(queue, next_seq, stage)
      /\ MailOn(stage, inbox, running)
      /\ CountsOn(queue, idle, metrics, stage, signals, wakeups)
      /\ WorkConserving
  BY DEF IInv
<1>t. /\ stage \in [Requests -> Stages] /\ inbox \in [Workers -> Seq(Requests)]
      /\ running \in [Workers -> Requests \cup {NoRequest}]
      /\ queue \subseteq PriorityRequest
      /\ inbox[w] \in Seq(Requests) /\ inbox[w] # <<>>
  BY <1>0 DEF TypeOn, Start
<1>a. /\ running' = [running EXCEPT ![w] = r]
      /\ inbox' = [inbox EXCEPT ![w] = Tail(inbox[w])]
      /\ stage' = [stage EXCEPT ![r] = "running"]
      /\ running[w] = NoRequest
      /\ queue' = queue /\ next_seq' = next_seq /\ idle' = idle /\ metrics' = metrics
      /\ alive' = alive /\ signals' = signals /\ wakeups' = wakeups
  BY DEF Start
<1>1. r = inbox[w][1] /\ r \in Requests /\ 1 \in 1..Len(inbox[w]) /\ Len(inbox[w]) \in Nat
  BY <1>t
<1>2. stage[r] = "dispatched"
  BY <1>0, <1>1 DEF MailOn
<1>3. /\ \A v \in Workers \ {w} : inbox'[v] = inbox[v]
      /\ Len(inbox'[w]) = Len(inbox[w]) - 1
      /\ \A i \in 1..Len(inbox'[w]) : inbox'[w][i] = inbox[w][i + 1] /\ i + 1 \in 1..Len(inbox[w])
  BY <1>t, <1>a, <1>1
<1>u. \A v, u \in Workers : \A i \in 1..Len(inbox[v]), j \in 1..Len(inbox[u]) :
         inbox[v][i] = inbox[u][j] => v = u /\ i = j
  BY <1>0 DEF MailOn
<1> HIDE DEF r
<1>4. TypeOn(queue', next_seq', idle', metrics', stage', inbox', running', signals', wakeups')
  <2>1. Tail(inbox[w]) \in Seq(Requests)
    BY <1>t
  <2> QED BY <1>0, <1>a, <1>1, <1>t, <2>1 DEF TypeOn, Stages
<1>5. QueueOn(queue', next_seq', stage')
  BY <1>0, <1>a, <1>1, <1>2, <1>t DEF QueueOn, PriorityRequest
<1>6. MailOn(stage', inbox', running')
  <2>1. \A v \in Workers : \A i \in 1..Len(inbox'[v]) :
           \E j \in 1..Len(inbox[v]) : inbox'[v][i] = inbox[v][j] /\ (v = w => j = i + 1)
                                       /\ (v # w => j = i)
    BY <1>3
  <2>2. \A v \in Workers : \A i \in 1..Len(inbox'[v]) : inbox'[v][i] # r
    <3> SUFFICES ASSUME NEW v \in Workers, NEW i \in 1..Len(inbox'[v]), inbox'[v][i] = r
                 PROVE  FALSE
      OBVIOUS
    <3>1. PICK j \in 1..Len(inbox[v]) : inbox'[v][i] = inbox[v][j] /\ (v = w => j = i + 1)
      BY <2>1
    <3>2. v = w /\ j = 1
      <4>1. inbox[v][j] = inbox[w][1]
        BY <3>1, <1>1
      <4>2. \A a \in 1..Len(inbox[v]), b \in 1..Len(inbox[w]) :
               inbox[v][a] = inbox[w][b] => v = w /\ a = b
        BY <1>u
      <4>3. inbox[v][j] = inbox[w][1] => v = w /\ j = 1
        BY <4>2, <1>1
      <4> QED BY <4>1, <4>3
    <3>3. i \in Nat /\ i >= 1 /\ j = i + 1
      BY <3>1, <3>2, <1>3, <1>1
    <3> QED BY <3>2, <3>3
  <2>3. \A v \in Workers : \A i \in 1..Len(inbox'[v]) : stage'[inbox'[v][i]] = "dispatched"
    <3> SUFFICES ASSUME NEW v \in Workers, NEW i \in 1..Len(inbox'[v])
                 PROVE  stage'[inbox'[v][i]] = "dispatched"
      OBVIOUS
    <3>1. PICK j \in 1..Len(inbox[v]) : inbox'[v][i] = inbox[v][j]
      BY <2>1
    <3>2. inbox[v][j] \in Requests /\ stage[inbox[v][j]] = "dispatched" /\ inbox[v][j] # r
      BY <3>1, <2>2, <1>0, <1>t DEF MailOn
    <3> QED BY <3>1, <3>2, <1>a, <1>t
  <2>4. \A v, u \in Workers : \A i \in 1..Len(inbox'[v]), j \in 1..Len(inbox'[u]) :
           inbox'[v][i] = inbox'[u][j] => v = u /\ i = j
    <3> SUFFICES ASSUME NEW v \in Workers, NEW u \in Workers,
                        NEW i \in 1..Len(inbox'[v]), NEW j \in 1..Len(inbox'[u]),
                        inbox'[v][i] = inbox'[u][j]
                 PROVE  v = u /\ i = j
      OBVIOUS
    <3>1. PICK k \in 1..Len(inbox[v]) : inbox'[v][i] = inbox[v][k] /\ (v = w => k = i + 1)
                                        /\ (v # w => k = i)
      BY <2>1
    <3>2. PICK l \in 1..Len(inbox[u]) : inbox'[u][j] = inbox[u][l] /\ (u = w => l = j + 1)
                                        /\ (u # w => l = j)
      BY <2>1
    <3>3. v = u /\ k = l
      <4>1. inbox[v][k] = inbox[u][l]
        BY <3>1, <3>2
      <4>2. \A a \in 1..Len(inbox[v]), b \in 1..Len(inbox[u]) :
               inbox[v][a] = inbox[u][b] => v = u /\ a = b
        BY <1>u
      <4>3. inbox[v][k] = inbox[u][l] => v = u /\ k = l
        BY <4>2
      <4> QED BY <4>1, <4>3
    <3> QED BY <3>1, <3>2, <3>3
  <2>5. \A v \in Workers : running'[v] # NoRequest => stage'[running'[v]] = "running"
    BY <1>0, <1>a, <1>1, <1>t DEF MailOn
  <2>6. \A v, u \in Workers : running'[v] = running'[u] /\ running'[v] # NoRequest => v = u
    BY <1>0, <1>a, <1>1, <1>2, <1>t DEF MailOn
  <2> QED BY <2>3, <2>4, <2>5, <2>6 DEF MailOn
<1>7. CountsOn(queue', idle', metrics', stage', signals', wakeups')
  <2>1. Restaged(stage, stage', r, "running")
    BY <1>a DEF Restaged
  <2>a. /\ "running" \in OutStages /\ stage[r] \in OutStages
        /\ stage[r] # "rejected" /\ stage[r] # "done"
    BY <1>2 DEF OutStages
  <2>2. Outstanding(stage') = Outstanding(stage) /\ Rejected(stage') = Rejected(stage)
        /\ Done(stage') = Done(stage)
    <3>1. /\ Outstanding(stage) \in Nat /\ Rejected(stage) \in Nat /\ Done(stage) \in Nat
          /\ Outstanding(stage') = Outstanding(stage)
                + (IF "running" \in OutStages THEN 1 ELSE 0) - (IF stage[r] \in OutStages THEN 1 ELSE 0)
          /\ Rejected(stage') = Rejected(stage)
                + (IF "running" = "rejected" THEN 1 ELSE 0) - (IF stage[r] = "rejected" THEN 1 ELSE 0)
          /\ Done(stage') = Done(stage)
                + (IF "running" = "done" THEN 1 ELSE 0) - (IF stage[r] = "done" THEN 1 ELSE 0)
      <4>1. r \in Requests /\ stage \in [Requests -> Stages]
        BY <1>1, <1>t
      <4> QED BY <2>1, <4>1, StageCounts
    <3> QED BY <2>a, <3>1
  <2> QED BY <2>2, <1>0, <1>a DEF CountsOn
<1>8. WorkConserving'
  BY <1>0, <1>a DEF WorkConserving
<1> QED BY <1>0, <1>a, <1>4, <1>5, <1>6, <1>7, <1>8 DEF IInv

(* A worker signals idle.                                                  *)
LEMMA FinishInv == ASSUME IInv, NEW w \in Workers, Finish(w) PROVE IInv'
<1> DEFINE r == running[w]
<1>0. /\ TypeOn(queue, next_seq, idle, metrics, stage, inbox, running, signals, wakeups)
      /\ alive \in [Workers -> BOOLEAN]
      /\ QueueOn(queue, next_seq, stage)
      /\ MailOn(stage, inbox, running)
      /\ CountsOn(queue, idle, metrics, stage, signals, wakeups)
      /\ WorkConserving
  BY DEF IInv
<1>t. /\ stage \in [Requests -> Stages] /\ inbox \in [Workers -> Seq(Requests)]
      /\ running \in [Workers -> Requests \cup {NoRequest}]
      /\ queue \subseteq PriorityRequest /\ signals \in Nat /\ wakeups \in Nat
  BY <1>0 DEF TypeOn
<1>a. /\ running' = [running EXCEPT ![w] = NoRequest]
      /\ stage' = [stage EXCEPT ![r] = "done"]
      /\ inbox' = inbox /\ queue' = queue /\ next_seq' = next_seq /\ idle' = idle
      /\ metrics' = metrics /\ alive' = alive /\ signals' = signals + 1 /\ wakeups' = wakeups
      /\ r # NoRequest
  BY DEF Finish
<1>1. r \in Requests /\ stage[r] = "running"
  BY <1>0, <1>a, <1>t DEF MailOn
<1>2. \A v \in Workers : v # w => running[v] # r
  BY <1>0, <1>a DEF MailOn
<1> HIDE DEF r
<1>4. TypeOn(queue', next_seq', idle', metrics', stage', inbox', running', signals', wakeups')
  BY <1>0, <1>a, <1>1, <1>t DEF TypeOn, Stages
<1>5. QueueOn(queue', next_seq', stage')
  BY <1>0, <1>a, <1>1, <1>t DEF QueueOn, PriorityRequest
<1>6. MailOn(stage', inbox', running')
  <2>1. \A v \in Workers : \A i \in 1..Len(inbox'[v]) : stage'[inbox'[v][i]] = "dispatched"
    BY <1>0, <1>a, <1>1, <1>t DEF MailOn
  <2>2. \A v \in Workers : running'[v] # NoRequest => stage'[running'[v]] = "running"
    BY <1>0, <1>a, <1>1, <1>2, <1>t DEF MailOn
  <2>3. \A v, u \in Workers : running'[v] = running'[u] /\ running'[v] # NoRequest => v = u
    BY <1>0, <1>a, <1>t DEF MailOn
  <2> QED BY <1>0, <1>a, <2>1, <2>2, <2>3 DEF MailOn
<1>7. CountsOn(queue', idle', metrics', stage', signals', wakeups')
  <2>1. Restaged(stage, stage', r, "done")
    BY <1>a DEF Restaged
  <2>2. /\ "done" \notin OutStages /\ stage[r] \in OutStages
        /\ stage[r] # "rejected" /\ stage[r] # "done" /\ "done" # "rejected"
    BY <1>1 DEF OutStages
  <2>3. /\ Outstanding(stage) \in Nat /\ Rejected(stage) \in Nat /\ Done(stage) \in Nat
        /\ Outstanding(stage') = Outstanding(stage) - 1
        /\ Rejected(stage') = Rejected(stage)
        /\ Done(stage') = Done(stage) + 1
    <3>1. r \in Requests /\ stage \in [Requests -> Stages]
      BY <1>1, <1>t
    <3> QED BY <2>1, <2>2, <3>1, StageCounts
  <2>4. metrics.completed \in Nat
    BY <1>0 DEF TypeOn, EngineMetrics
  <2>5. /\ Cardinality(BusyOn(idle)) = Outstanding(stage) + signals + wakeups
        /\ metrics.completed + signals + wakeups = Done(stage)
        /\ metrics.queued = Cardinality(queue) /\ metrics.in_flight = Cardinality(BusyOn(idle))
        /\ metrics.rejected_backpressure = Rejected(stage)
    BY <1>0 DEF CountsOn
  <2>6. /\ Cardinality(BusyOn(idle)) = Outstanding(stage') + (signals + 1) + wakeups
        /\ metrics.completed + (signals + 1) + wakeups = Done(stage')
    <3>1. signals \in Nat /\ wakeups \in Nat
      BY <1>t
    <3>2. Outstanding(stage) + signals + wakeups = Outstanding(stage') + (signals + 1) + wakeups
      BY <2>3, <3>1
    <3>3. metrics.completed + (signals + 1) + wakeups = metrics.completed + signals + wakeups + 1
      BY <2>4, <3>1
    <3> QED BY <2>3, <2>5, <3>2, <3>3
  <2> QED BY <2>3, <2>5, <2>6, <1>a DEF CountsOn
<1>8. WorkConserving'
  BY <1>0, <1>a DEF WorkConserving
<1> QED BY <1>0, <1>a, <1>4, <1>5, <1>6, <1>7, <1>8 DEF IInv

(* A panic takes the request, the mailbox and the slot with it.            *)
LEMMA PanicInv == ASSUME IInv, NEW w \in Workers, Panic(w) PROVE IInv'
<1> DEFINE Gone(x) == x = running[w] \/ \E i \in DOMAIN inbox[w] : inbox[w][i] = x
<1>0. /\ TypeOn(queue, next_seq, idle, metrics, stage, inbox, running, signals, wakeups)
      /\ alive \in [Workers -> BOOLEAN]
      /\ QueueOn(queue, next_seq, stage)
      /\ MailOn(stage, inbox, running)
      /\ CountsOn(queue, idle, metrics, stage, signals, wakeups)
      /\ WorkConserving
  BY DEF IInv
<1>t. /\ stage \in [Requests -> Stages] /\ inbox \in [Workers -> Seq(Requests)]
      /\ running \in [Workers -> Requests \cup {NoRequest}]
      /\ queue \subseteq PriorityRequest
  BY <1>0 DEF TypeOn
<1>a. /\ running[w] # NoRequest
      /\ alive' = [alive EXCEPT ![w] = FALSE]
      /\ running' = [running EXCEPT ![w] = NoRequest]
      /\ inbox' = [inbox EXCEPT ![w] = <<>>]
      /\ stage' = [x \in Requests |-> IF Gone(x) THEN "lost" ELSE stage[x]]
      /\ queue' = queue /\ next_seq' = next_seq /\ idle' = idle
      /\ metrics' = metrics /\ signals' = signals /\ wakeups' = wakeups
  BY DEF Panic
<1>1. \A x \in Requests : Gone(x) => stage[x] \in {"dispatched", "running"}
  BY <1>0, <1>a, <1>t DEF MailOn
<1>2. \A v \in Workers \ {w} : \A i \in 1..Len(inbox[v]) :
         inbox[v][i] \in Requests /\ ~Gone(inbox[v][i])
  <2> SUFFICES ASSUME NEW v \in Workers \ {w}, NEW i \in 1..Len(inbox[v])
               PROVE  inbox[v][i] \in Requests /\ ~Gone(inbox[v][i])
    OBVIOUS
  <2>1. inbox[v][i] \in Requests /\ stage[inbox[v][i]] = "dispatched"
    BY <1>0, <1>t DEF MailOn
  <2>2. inbox[v][i] # running[w]
    BY <2>1, <1>0, <1>a DEF MailOn
  <2>3. \A j \in 1..Len(inbox[w]) : inbox[w][j] # inbox[v][i]
    BY <1>0 DEF MailOn
  <2>4. DOMAIN inbox[w] = 1..Len(inbox[w])
    BY <1>t
  <2> QED BY <2>1, <2>2, <2>3, <2>4
<1>3. \A v \in Workers \ {w} : running[v] # NoRequest =>
         running[v] \in Requests /\ stage[running[v]] = "running" /\ ~Gone(running[v])
  <2> SUFFICES ASSUME NEW v \in Workers \ {w}, running[v] # NoRequest
               PROVE  running[v] \in Requests /\ stage[running[v]] = "running" /\ ~Gone(running[v])
    OBVIOUS
  <2>1. running[v] \in Requests /\ stage[running[v]] = "running" /\ running[v] # running[w]
    BY <1>0, <1>t DEF MailOn
  <2>2. \A j \in 1..Len(inbox[w]) : stage[inbox[w][j]] = "dispatched"
    BY <1>0 DEF MailOn
  <2>3. DOMAIN inbox[w] = 1..Len(inbox[w])
    BY <1>t
  <2> QED BY <2>1, <2>2, <2>3
<1> HIDE DEF Gone
<1>4. TypeOn(queue', next_seq', idle', metrics', stage', inbox', running', signals', wakeups')
  BY <1>0, <1>a, <1>t DEF TypeOn, Stages
<1>5. QueueOn(queue', next_seq', stage')
  <2>1. \A e \in queue : stage'[e.req] = "queued"
    BY <1>0, <1>a, <1>1, <1>t DEF QueueOn, PriorityRequest
  <2> QED BY <1>0, <1>a, <2>1 DEF QueueOn
<1>6. MailOn(stage', inbox', running')
  <2>1. \A v \in Workers : \A i \in 1..Len(inbox'[v]) : v # w /\ inbox'[v] = inbox[v]
    BY <1>a, <1>t
  <2>2. \A v \in Workers : \A i \in 1..Len(inbox'[v]) : stage'[inbox'[v][i]] = "dispatched"
    BY <1>0, <1>a, <1>2, <1>t, <2>1 DEF MailOn
  <2>3. \A v, u \in Workers : \A i \in 1..Len(inbox'[v]), j \in 1..Len(inbox'[u]) :
           inbox'[v][i] = inbox'[u][j] => v = u /\ i = j
    BY <1>0, <2>1 DEF MailOn
  <2>4. \A v \in Workers : running'[v] # NoRequest => stage'[running'[v]] = "running"
    BY <1>a, <1>3, <1>t
  <2>5. \A v, u \in Workers : running'[v] = running'[u] /\ running'[v] # NoRequest => v = u
    BY <1>0, <1>a, <1>t DEF MailOn
  <2> QED BY <2>2, <2>3, <2>4, <2>5 DEF MailOn
<1>7. CountsOn(queue', idle', metrics', stage', signals', wakeups')
  <2>1. StageSet(stage', OutStages) = StageSet(stage, OutStages)
    BY <1>a, <1>1 DEF StageSet, OutStages
  <2>2. StageSet(stage', {"rejected"}) = StageSet(stage, {"rejected"})
    BY <1>a, <1>1 DEF StageSet
  <2>3. StageSet(stage', {"done"}) = StageSet(stage, {"done"})
    BY <1>a, <1>1 DEF StageSet
  <2> QED BY <2>1, <2>2, <2>3, <1>0, <1>a DEF CountsOn, Outstanding, Rejected, Done
<1>8. WorkConserving'
  BY <1>0, <1>a DEF WorkConserving
<1>9. alive' \in [Workers -> BOOLEAN]
  BY <1>0, <1>a
<1> QED BY <1>4, <1>5, <1>6, <1>7, <1>8, <1>9 DEF IInv

(* A stuttering step changes nothing the invariant reads.                  *)
LEMMA StutterInv == ASSUME IInv, UNCHANGED vars PROVE IInv'
<1>1. /\ queue' = queue /\ next_seq' = next_seq /\ idle' = idle /\ metrics' = metrics
      /\ inbox' = inbox /\ running' = running /\ alive' = alive /\ signals' = signals
      /\ wakeups' = wakeups /\ stage' = stage
  BY DEF vars
<1> QED BY <1>1 DEF IInv, WorkConserving

(* The inductive invariant holds in every reachable state.                 *)
THEOREM Invariance == Spec => []IInv
<1>1. Init => IInv
  BY InitInv
<1>2. IInv /\ [Next]_vars => IInv'
  <2> SUFFICES ASSUME IInv, [Next]_vars PROVE IInv'
    OBVIOUS
  <2>1. ASSUME NEW r \in Requests, NEW p \in Priorities, Add(r, p) PROVE IInv'
    BY <2>1, AddInv
  <2>2. CASE WorkerIdle
    BY <2>2, WorkerIdleInv
  <2>3. CASE Forward
    BY <2>3, ForwardInv
  <2>4. ASSUME NEW w \in Workers, Start(w) PROVE IInv'
    BY <2>4, StartInv
  <2>5. ASSUME NEW w \in Workers, Finish(w) PROVE IInv'
    BY <2>5, FinishInv
  <2>6. ASSUME NEW w \in Workers, Panic(w) PROVE IInv'
    BY <2>6, PanicInv
  <2>7. CASE Quiescent
    BY <2>7, StutterInv DEF Quiescent
  <2>8. CASE UNCHANGED vars
    BY <2>8, StutterInv
  <2> QED BY <2>1, <2>2, <2>3, <2>4, <2>5, <2>6, <2>7, <2>8 DEF Next
<1> QED BY <1>1, <1>2, PTL DEF Spec

(* Type correctness.                                                       *)
THEOREM TypeCorrect == Spec => []TypeOK
<1>1. IInv => TypeOK
  BY DEF IInv, TypeOn, TypeOK
<1> QED BY <1>1, Invariance, PTL

(* The aggregate count of engine.rs:200-205 is exact.                      *)
THEOREM CapacityExact == Spec => []CapacityAccounting
<1>1. IInv => CapacityAccounting
  BY DEF IInv, CountsOn, CapacityAccounting, Busy, BusyOn, InStage, Outstanding, StageSet, OutStages
<1> QED BY <1>1, Invariance, PTL

(* The engine never leaves a request queued beside an idle entry.          *)
THEOREM NeverIdleWithWork == Spec => []WorkConserving
<1>1. IInv => WorkConserving
  BY DEF IInv
<1> QED BY <1>1, Invariance, PTL

(* The metrics are exact, so saturating_sub never saturates.               *)
THEOREM MetricsExact == Spec => []MetricsAgree
<1>1. IInv => MetricsAgree
  BY DEF IInv, CountsOn, MetricsAgree, Busy, BusyOn, InStage, Rejected, Done, StageSet
<1> QED BY <1>1, Invariance, PTL

(* The queue is bounded.                                                   *)
THEOREM QueueWithinCapacity == Spec => []QueueBounded
<1>1. IInv => QueueBounded
  BY DEF IInv, QueueOn, QueueBounded
<1> QED BY <1>1, Invariance, PTL
-----------------------------------------------------------------------------
(***************************************************************************)
(* Where a request is.  IInv says that what is queued, mailed or executing *)
(* has the stage that goes with the place; the converse, that every such   *)
(* stage has its place, is a second inductive invariant on top of it.      *)
(***************************************************************************)
PlacedOn(q, st, inb, run) ==
    /\ \A r \in Requests : st[r] = "queued" => \E e \in q : e.req = r
    /\ \A r \in Requests : st[r] = "dispatched" =>
          \E w \in Workers : \E i \in 1..Len(inb[w]) : inb[w][i] = r
    /\ \A r \in Requests : st[r] = "running" => \E w \in Workers : run[w] = r

Placed == PlacedOn(queue, stage, inbox, running)

(* try_dispatch puts what it takes from the queue in a mailbox, or loses   *)
(* it with the dead worker it is told to.                                  *)
LEMMA DispatchPlaces ==
    ASSUME NEW q, NEW ns, NEW idl, NEW m, NEW st, NEW sg, NEW wk,
           Calls(q, ns, idl, m, st, sg, wk), PlacedOn(q, st, inbox, running)
    PROVE  Placed'
<1>r. /\ q \subseteq PriorityRequest /\ st \in [Requests -> Stages]
      /\ inbox \in [Workers -> Seq(Requests)] /\ QueueOn(q, ns, st) /\ running' = running
  BY DEF Calls, Ready, TypeOn
<1>1. CASE Keeps(q, idl, m, st)
  BY <1>1, <1>r DEF Keeps, Placed
<1>2. ASSUME NEW w \in IdleWorkers(idl), NEW e \in q, Moves(q, idl, m, st, w, e)
      PROVE  Placed'
  <2>1. w \in Workers /\ e.req \in Requests /\ inbox[w] \in Seq(Requests)
    BY <1>r DEF IdleWorkers, PriorityRequest
  <2>2. /\ queue' = q \ {e}
        /\ inbox' = IF alive[w] THEN [inbox EXCEPT ![w] = Append(@, e.req)] ELSE inbox
        /\ stage' = [st EXCEPT ![e.req] = IF alive[w] THEN "dispatched" ELSE "lost"]
    BY <1>2 DEF Moves
  <2>3. \A r \in Requests : r # e.req => stage'[r] = st[r]
    BY <2>2, <1>r
  <2>4. stage'[e.req] = (IF alive[w] THEN "dispatched" ELSE "lost")
    BY <2>1, <2>2, <1>r
  <2>5. \A v \in Workers : \A i \in 1..Len(inbox[v]) :
           i \in 1..Len(inbox'[v]) /\ inbox'[v][i] = inbox[v][i]
    BY <2>1, <2>2, <1>r
  <2>6. \A r \in Requests : stage'[r] = "queued" => \E f \in queue' : f.req = r
    BY <2>2, <2>3, <2>4, <1>r DEF PlacedOn
  <2>7. ASSUME alive[w]
        PROVE  \E i \in 1..Len(inbox'[w]) : inbox'[w][i] = e.req
    <3>1. inbox'[w] = Append(inbox[w], e.req)
      BY <2>1, <2>2, <2>7, <1>r
    <3>2. Len(inbox'[w]) \in 1..Len(inbox'[w]) /\ inbox'[w][Len(inbox'[w])] = e.req
      BY <3>1, <2>1
    <3> QED BY <3>2
  <2>8. \A r \in Requests : stage'[r] = "dispatched" =>
           \E v \in Workers : \E i \in 1..Len(inbox'[v]) : inbox'[v][i] = r
    BY <2>1, <2>3, <2>4, <2>5, <2>7 DEF PlacedOn
  <2>9. \A r \in Requests : stage'[r] = "running" => \E v \in Workers : running'[v] = r
    BY <2>3, <2>4, <1>r DEF PlacedOn
  <2> QED BY <2>6, <2>8, <2>9 DEF Placed, PlacedOn
<1> QED BY <1>1, <1>2, DispatchEffect

(* Every action keeps every request where its stage says.                  *)
LEMMA PlacedStep == ASSUME IInv, Placed, [Next]_vars PROVE Placed'
<1>t. /\ stage \in [Requests -> Stages] /\ inbox \in [Workers -> Seq(Requests)]
      /\ running \in [Workers -> Requests \cup {NoRequest}]
  BY DEF IInv, TypeOn
<1>p. PlacedOn(queue, stage, inbox, running)
  BY DEF Placed
<1>1. ASSUME NEW r \in Requests, NEW p \in Priorities, Add(r, p) PROVE Placed'
  <2>1. stage[r] = "new"
    BY <1>1 DEF Add
  <2>2. PlacedOn(Push(r, p), [stage EXCEPT ![r] = "queued"], inbox, running)
    <3> DEFINE x == [req |-> r, priority |-> p, arrival_seq |-> next_seq]
    <3>a. x \in Push(r, p) /\ x.req = r
      BY DEF Push
    <3>1. queue \subseteq Push(r, p) /\ \E e \in Push(r, p) : e.req = r
      BY <3>a DEF Push
    <3> QED BY <3>1, <1>p, <1>t DEF PlacedOn
  <2>3. PlacedOn(queue, [stage EXCEPT ![r] = "rejected"], inbox, running)
    BY <1>p, <1>t DEF PlacedOn
  <2> QED BY <1>1, <2>2, <2>3, AddCalls, DispatchPlaces
<1>2. CASE WorkerIdle
  BY <1>2, <1>p, WorkerIdleCalls, DispatchPlaces
<1>3. CASE Forward
  BY <1>3, <1>p DEF Forward, Placed
<1>4. ASSUME NEW w \in Workers, Start(w) PROVE Placed'
  <2> DEFINE x == Head(inbox[w])
  <2>1. /\ inbox[w] \in Seq(Requests) /\ inbox[w] # <<>> /\ running[w] = NoRequest
        /\ running' = [running EXCEPT ![w] = x] /\ inbox' = [inbox EXCEPT ![w] = Tail(inbox[w])]
        /\ stage' = [stage EXCEPT ![x] = "running"] /\ queue' = queue
    BY <1>4, <1>t DEF Start
  <2>2. x = inbox[w][1] /\ x \in Requests
    BY <2>1
  <2> HIDE DEF x
  <2>3. \A r \in Requests : stage'[r] = "dispatched" =>
           \E v \in Workers : \E i \in 1..Len(inbox'[v]) : inbox'[v][i] = r
    <3> SUFFICES ASSUME NEW r \in Requests, stage'[r] = "dispatched"
                 PROVE  \E v \in Workers : \E i \in 1..Len(inbox'[v]) : inbox'[v][i] = r
      OBVIOUS
    <3>1. r # x /\ stage[r] = "dispatched"
      BY <2>1, <2>2, <1>t
    <3>2. PICK v \in Workers : \E i \in 1..Len(inbox[v]) : inbox[v][i] = r
      BY <3>1, <1>p DEF PlacedOn
    <3>3. PICK i \in 1..Len(inbox[v]) : inbox[v][i] = r
      BY <3>2
    <3>4. CASE v # w
      BY <3>3, <3>4, <2>1, <1>t
    <3>5. CASE v = w
      <4>1. i # 1 /\ i \in Nat /\ i - 1 \in 1..Len(Tail(inbox[w]))
        BY <3>1, <3>3, <3>5, <2>1, <2>2
      <4>2. Tail(inbox[w])[i - 1] = inbox[w][i]
        BY <4>1, <2>1, <3>3, <3>5
      <4>3. inbox'[w] = Tail(inbox[w])
        BY <2>1, <1>t
      <4> QED BY <4>1, <4>2, <4>3, <3>3, <3>5
    <3> QED BY <3>4, <3>5
  <2>4. \A r \in Requests : stage'[r] = "running" => \E v \in Workers : running'[v] = r
    BY <2>1, <2>2, <1>p, <1>t DEF PlacedOn
  <2>5. \A r \in Requests : stage'[r] = "queued" => \E e \in queue' : e.req = r
    BY <2>1, <2>2, <1>p, <1>t DEF PlacedOn
  <2> QED BY <2>3, <2>4, <2>5 DEF Placed, PlacedOn
<1>5. ASSUME NEW w \in Workers, Finish(w) PROVE Placed'
  <2>1. /\ running[w] # NoRequest /\ running' = [running EXCEPT ![w] = NoRequest]
        /\ stage' = [stage EXCEPT ![running[w]] = "done"]
        /\ queue' = queue /\ inbox' = inbox
    BY <1>5 DEF Finish
  <2> QED BY <2>1, <1>p, <1>t DEF Placed, PlacedOn
<1>6. ASSUME NEW w \in Workers, Panic(w) PROVE Placed'
  <2>1. /\ running' = [running EXCEPT ![w] = NoRequest]
        /\ inbox' = [inbox EXCEPT ![w] = <<>>] /\ queue' = queue
        /\ DOMAIN inbox[w] = 1..Len(inbox[w])
        /\ stage' = [r \in Requests |->
              IF r = running[w] \/ \E i \in DOMAIN inbox[w] : inbox[w][i] = r
              THEN "lost" ELSE stage[r]]
    BY <1>6, <1>t DEF Panic
  <2>2. \A r \in Requests : stage'[r] # "lost" =>
           stage'[r] = stage[r] /\ r # running[w] /\ \A i \in 1..Len(inbox[w]) : inbox[w][i] # r
    BY <2>1
  <2>3. \A v \in Workers : v # w => running'[v] = running[v] /\ inbox'[v] = inbox[v]
    BY <2>1, <1>t
  <2>4. \A r \in Requests : stage'[r] = "queued" => \E e \in queue' : e.req = r
    BY <2>1, <2>2, <1>p DEF PlacedOn
  <2>5. \A r \in Requests : stage'[r] = "running" => \E v \in Workers : running'[v] = r
    BY <2>2, <2>3, <1>p DEF PlacedOn
  <2>6. \A r \in Requests : stage'[r] = "dispatched" =>
           \E v \in Workers : \E i \in 1..Len(inbox'[v]) : inbox'[v][i] = r
    BY <2>2, <2>3, <1>p DEF PlacedOn
  <2> QED BY <2>4, <2>5, <2>6 DEF Placed, PlacedOn
<1>7. CASE UNCHANGED vars
  BY <1>7, <1>p DEF vars, Placed
<1> QED BY <1>1, <1>2, <1>3, <1>4, <1>5, <1>6, <1>7 DEF Next, Quiescent

(* A mailbox holds distinct requests, so no position of it is beyond the   *)
(* number of requests.                                                     *)
LEMMA MailboxBound ==
    ASSUME IInv, NEW w \in Workers
    PROVE  Len(inbox[w]) \in Nat /\ Len(inbox[w]) <= Cardinality(Requests)
<1> DEFINE n == Len(inbox[w])
           b == inbox[w]
<1>1. b \in Seq(Requests) /\ n \in Nat /\ b \in [1..n -> Requests]
  BY DEF IInv, TypeOn
<1>2. \A i, j \in 1..n : b[i] = b[j] => i = j
  BY DEF IInv, MailOn
<1>4. Cardinality(Requests) \in Nat
  BY FS_CardinalityType
<1> HIDE DEF n, b
<1>3. IsFiniteSet(1..n) /\ Cardinality(1..n) = n
  <2>1. IsFiniteSet(1..n) /\ Cardinality(1..n) = IF 1 > n THEN 0 ELSE n - 1 + 1
    BY <1>1, FS_Interval
  <2> QED BY <1>1, <2>1
<1>5. ~(Cardinality(Requests) < Cardinality(1..n))
  BY <1>1, <1>2, <1>3, FS_PigeonHole
<1> QED BY <1>1, <1>3, <1>4, <1>5 DEF n

(* The two invariants together.                                            *)
THEOREM PlacedInvariance == Spec => [](IInv /\ Placed)
<1>1. Init => Placed
  BY DEF Init, Placed, PlacedOn
<1>2. IInv /\ Placed /\ [Next]_vars => Placed'
  BY PlacedStep
<1> QED BY <1>1, <1>2, Invariance, PTL DEF Spec

(* A request is in one place only, the one its stage names: it is executed *)
(* by one worker and once.                                                 *)
THEOREM OnePlaceOnly == Spec => []OnePlace
<1>1. IInv /\ Placed => OnePlace
  <2> SUFFICES ASSUME IInv, Placed, NEW r \in Requests
               PROVE  LET entries == {e \in queue : e.req = r}
                          places == {p \in Workers \X (1..Cardinality(Requests)) :
                                        p[2] \in DOMAIN inbox[p[1]] /\ inbox[p[1]][p[2]] = r}
                          runners == {w \in Workers : running[w] = r}
                      IN  /\ Cardinality(entries) = IF stage[r] = "queued" THEN 1 ELSE 0
                          /\ Cardinality(places) = IF stage[r] = "dispatched" THEN 1 ELSE 0
                          /\ Cardinality(runners) = IF stage[r] = "running" THEN 1 ELSE 0
    BY DEF OnePlace
  <2> DEFINE entries == {e \in queue : e.req = r}
             places == {p \in Workers \X (1..Cardinality(Requests)) :
                           p[2] \in DOMAIN inbox[p[1]] /\ inbox[p[1]][p[2]] = r}
             runners == {w \in Workers : running[w] = r}
  <2>c. Cardinality({}) = 0 /\ \A x : Cardinality({x}) = 1
    BY FS_EmptySet, FS_Singleton
  <2>i. QueueOn(queue, next_seq, stage) /\ MailOn(stage, inbox, running)
        /\ PlacedOn(queue, stage, inbox, running)
        /\ inbox \in [Workers -> Seq(Requests)]
    BY DEF IInv, Placed, TypeOn
  <2>n. r # NoRequest
    OBVIOUS
  <2>1. Cardinality(entries) = IF stage[r] = "queued" THEN 1 ELSE 0
    <3>1. CASE stage[r] = "queued"
      <4>1. PICK e \in queue : e.req = r
        BY <3>1, <2>i DEF PlacedOn
      <4>2. entries = {e}
        BY <4>1, <2>i DEF QueueOn
      <4> QED BY <4>2, <3>1, <2>c
    <3>2. CASE stage[r] # "queued"
      <4>1. entries = {}
        BY <3>2, <2>i DEF QueueOn
      <4> QED BY <4>1, <3>2, <2>c
    <3> QED BY <3>1, <3>2
  <2>2. Cardinality(places) = IF stage[r] = "dispatched" THEN 1 ELSE 0
    <3>0. \A w \in Workers : DOMAIN inbox[w] = 1..Len(inbox[w])
      BY <2>i
    <3>1. CASE stage[r] = "dispatched"
      <4>1. PICK w \in Workers : \E i \in 1..Len(inbox[w]) : inbox[w][i] = r
        BY <3>1, <2>i DEF PlacedOn
      <4>2. PICK i \in 1..Len(inbox[w]) : inbox[w][i] = r
        BY <4>1
      <4>3. i \in 1..Cardinality(Requests)
        <5>1. Cardinality(Requests) \in Nat
          BY FS_CardinalityType
        <5> QED BY <4>2, <5>1, MailboxBound
      <4>4. <<w, i>> \in places
        BY <4>2, <4>3, <3>0
      <4>5. ASSUME NEW p \in places PROVE p = <<w, i>>
        <5>1. p = <<p[1], p[2]>> /\ p[1] \in Workers /\ p[2] \in DOMAIN inbox[p[1]]
              /\ inbox[p[1]][p[2]] = r
          OBVIOUS
        <5>2. p[2] \in 1..Len(inbox[p[1]])
          BY <5>1, <3>0
        <5>3. p[1] = w /\ p[2] = i
          BY <5>1, <5>2, <4>2, <2>i DEF MailOn
        <5> QED BY <5>1, <5>3
      <4> HIDE DEF places
      <4>6. places = {<<w, i>>}
        BY <4>4, <4>5
      <4> QED BY <4>6, <3>1, <2>c
    <3>2. CASE stage[r] # "dispatched"
      <4>1. ASSUME NEW p \in places PROVE FALSE
        <5>1. p[1] \in Workers /\ p[2] \in 1..Len(inbox[p[1]]) /\ inbox[p[1]][p[2]] = r
          BY <3>0
        <5> QED BY <5>1, <3>2, <2>i DEF MailOn
      <4> HIDE DEF places
      <4>2. places = {}
        BY <4>1
      <4> QED BY <4>2, <3>2, <2>c
    <3> QED BY <3>1, <3>2
  <2>3. Cardinality(runners) = IF stage[r] = "running" THEN 1 ELSE 0
    <3>1. CASE stage[r] = "running"
      <4>1. PICK w \in Workers : running[w] = r
        BY <3>1, <2>i DEF PlacedOn
      <4>2. runners = {w}
        BY <4>1, <2>i, <2>n DEF MailOn
      <4> QED BY <4>2, <3>1, <2>c
    <3>2. CASE stage[r] # "running"
      <4>1. runners = {}
        BY <3>2, <2>i, <2>n DEF MailOn
      <4> QED BY <4>1, <3>2, <2>c
    <3> QED BY <3>1, <3>2
  <2> QED BY <2>1, <2>2, <2>3
<1> QED BY <1>1, PlacedInvariance, PTL

(* Only the head of the queue leaves it: when try_dispatch takes r while s *)
(* stays, r comes first in the heap's order.                               *)
LEMMA HeadLeaves ==
    ASSUME IInv, Placed, NEW r \in Requests, NEW s \in Requests, LeavesBehind(r, s),
           NEW q, NEW ns, NEW idl, NEW m, NEW st, NEW sg, NEW wk,
           Calls(q, ns, idl, m, st, sg, wk), queue \subseteq q,
           \A e \in q : e.req \in {r, s} => e \in queue,
           st[r] = "queued", st[s] = "queued"
    PROVE  Before(EntryOf(r), EntryOf(s))
<1>r. /\ q \subseteq PriorityRequest /\ st \in [Requests -> Stages] /\ QueueOn(q, ns, st)
  BY DEF Calls, Ready, TypeOn
<1>q. QueueOn(queue, next_seq, stage) /\ PlacedOn(queue, stage, inbox, running)
  BY DEF IInv, Placed
<1>l. /\ stage[r] = "queued" /\ stage'[r] \in {"dispatched", "lost"}
      /\ stage[s] = "queued" /\ stage'[s] = "queued"
  BY DEF LeavesBehind
<1>1. /\ EntryOf(r) \in queue /\ EntryOf(r).req = r
      /\ EntryOf(s) \in queue /\ EntryOf(s).req = s
  <2>1. (\E e \in queue : e.req = r) /\ (\E e \in queue : e.req = s)
    BY <1>q, <1>l DEF PlacedOn
  <2> QED BY <2>1 DEF EntryOf
<1>2. CASE Keeps(q, idl, m, st)
  BY <1>2, <1>l DEF Keeps
<1>3. ASSUME NEW w \in IdleWorkers(idl), NEW e \in q, Moves(q, idl, m, st, w, e),
             {f \in q : Before(f, e)} = {}
      PROVE  Before(EntryOf(r), EntryOf(s))
  <2>1. stage' = [st EXCEPT ![e.req] = IF alive[w] THEN "dispatched" ELSE "lost"]
    BY <1>3 DEF Moves
  <2>2. e.req = r /\ r # s
    BY <2>1, <1>r, <1>l DEF PriorityRequest
  <2>3. e = EntryOf(r)
    BY <2>2, <1>1, <1>q DEF QueueOn
  <2>4. EntryOf(s) \in q /\ EntryOf(s) # e /\ ~Before(EntryOf(s), e)
    BY <1>1, <1>3, <2>2
  <2>5. EntryOf(s).arrival_seq # e.arrival_seq
    BY <2>4, <1>r DEF QueueOn
  <2>6. Before(e, EntryOf(s))
    <3>1. /\ e.priority \in Nat /\ e.arrival_seq \in Nat
          /\ EntryOf(s).priority \in Nat /\ EntryOf(s).arrival_seq \in Nat
      BY <2>4, <1>r DEF PriorityRequest
    <3> QED BY <2>4, <2>5, <3>1 DEF Before
  <2> QED BY <2>3, <2>6
<1> QED BY <1>2, <1>3, DispatchEffect

(* No request overtakes one of its own class admitted earlier, nor one of  *)
(* a higher class.                                                         *)
THEOREM ServedInOrder == Spec => NoOvertaking
<1> DEFINE InOrder ==
      \A r, s \in Requests :
         LeavesBehind(r, s) =>
            \/ EntryOf(r).priority > EntryOf(s).priority
            \/ /\ EntryOf(r).priority = EntryOf(s).priority
               /\ EntryOf(r).arrival_seq < EntryOf(s).arrival_seq
<1>1. IInv /\ Placed /\ [Next]_vars => [InOrder]_vars
  <2> SUFFICES ASSUME IInv, Placed, Next, NEW r \in Requests, NEW s \in Requests,
                      LeavesBehind(r, s)
               PROVE  Before(EntryOf(r), EntryOf(s))
    BY DEF Before
  <2>t. /\ stage \in [Requests -> Stages] /\ MailOn(stage, inbox, running)
        /\ inbox \in [Workers -> Seq(Requests)]
        /\ running \in [Workers -> Requests \cup {NoRequest}]
    BY DEF IInv, TypeOn
  <2>l. stage[r] = "queued" /\ stage'[r] \in {"dispatched", "lost"} /\ stage[s] = "queued"
    BY DEF LeavesBehind
  <2>1. ASSUME NEW x \in Requests, NEW p \in Priorities, Add(x, p)
        PROVE  Before(EntryOf(r), EntryOf(s))
    <3>1. x # r /\ x # s
      BY <2>1, <2>l DEF Add
    <3>2. queue \subseteq Push(x, p) /\ \A e \in Push(x, p) : e.req \in {r, s} => e \in queue
      BY <3>1 DEF Push
    <3>3. \A y : [stage EXCEPT ![x] = y][r] = "queued" /\ [stage EXCEPT ![x] = y][s] = "queued"
      BY <3>1, <2>l, <2>t
    <3>4. \/ Calls(Push(x, p), next_seq + 1, idle, [metrics EXCEPT !.queued = @ + 1],
                   [stage EXCEPT ![x] = "queued"], signals, wakeups)
          \/ Calls(queue, next_seq, idle, [metrics EXCEPT !.rejected_backpressure = @ + 1],
                   [stage EXCEPT ![x] = "rejected"], signals, wakeups)
      BY <2>1, AddCalls
    <3> QED BY <3>2, <3>3, <3>4, HeadLeaves
  <2>2. CASE WorkerIdle
    BY <2>2, <2>l, WorkerIdleCalls, HeadLeaves
  <2>3. CASE Forward
    BY <2>3, <2>l DEF Forward
  <2>4. ASSUME NEW w \in Workers, Start(w) PROVE FALSE
    BY <2>4, <2>l, <2>t DEF Start
  <2>5. ASSUME NEW w \in Workers, Finish(w) PROVE FALSE
    BY <2>5, <2>l, <2>t DEF Finish
  <2>6. ASSUME NEW w \in Workers, Panic(w) PROVE FALSE
    <3>1. r # running[w] /\ \A i \in DOMAIN inbox[w] : inbox[w][i] # r
      BY <2>6, <2>l, <2>t DEF MailOn, Panic
    <3> QED BY <3>1, <2>6, <2>l DEF Panic
  <2>7. CASE Quiescent
    BY <2>7, <2>l DEF Quiescent, vars
  <2> QED BY <2>1, <2>2, <2>3, <2>4, <2>5, <2>6, <2>7 DEF Next
<1> QED BY <1>1, PlacedInvariance, PTL DEF Spec, NoOvertaking
=============================================================================
