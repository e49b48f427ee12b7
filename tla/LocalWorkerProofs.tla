------------------------- MODULE LocalWorkerProofs --------------------------
(***************************************************************************)
(* Proofs about the local worker for any number of batches, rebuilds and   *)
(* poisoned contexts, every runtime kind, every channel capacity and every *)
(* generation length: a batch sent after ContextPoisoned, or after an      *)
(* acknowledged rebuild, never runs on what was there before; every stream *)
(* that ends has said why, whoever ended it; and the text handed over is   *)
(* always a beginning of what the model generated, and all of it with the  *)
(* finish; and a runner's lock and an ONNX session's are held by exactly   *)
(* the task inside.                                                        *)
(***************************************************************************)
EXTENDS LocalWorker, SequenceTheorems, FiniteSetTheorems, WellFoundedInduction,
        TLAPS

-----------------------------------------------------------------------------
(* The shapes of the state.                                                *)

Locks == Batches \cup {Free}
Cell == [lock : Locks, engine : Nat]
Engine == [reqs : SUBSET Batches, session : Locks]
Message ==
    [tag : {"start", "ContextPoisoned"}]
        \cup [tag : {"Execute"}, batch : Batches]
        \cup [tag : {"RebuildSession"}, rebuild : Rebuilds]
Floor == [cell : Nat \ {0}, engine : Nat]

(* A batch's record has its nine fields; what the tokens and texts in it   *)
(* are does not matter here.                                               *)
Fields == {"st", "prod", "cell", "eng", "ids", "sent", "fin", "reader", "rx"}
Shaped(j) == j = [f \in Fields |-> j[f]]
Jobs == job = [b \in Batches |-> job[b]] /\ \A b \in Batches : Shaped(job[b])

Shapes ==
    /\ cells \in Seq(Cell) /\ engines \in Seq(Engine) /\ Jobs
    /\ inbox \in Seq(Message) /\ ctxbox \in Seq(Message)
    /\ poisons \in Nat /\ stale \in Nat
    /\ floor \in [Batches -> Floor]

(* A function on 1..n is a sequence of length n.                           *)
LEMMA FromFunction ==
    ASSUME NEW S, NEW n \in Nat, NEW f \in [1..n -> S]
    PROVE  f \in Seq(S) /\ Len(f) = n
OBVIOUS

(* The engine of a cell is a number.                                       *)
LEMMA CellType ==
    ASSUME NEW cs \in Seq(Cell), NEW i \in 1..Len(cs)
    PROVE  cs[i].engine \in Nat
<1>1. cs[i] \in Cell
  OBVIOUS
<1> QED BY <1>1 DEF Cell

(* ds is cs with other locks, with engine e in cell k.                     *)
Relocked(cs, ds) ==
    /\ ds \in Seq(Cell) /\ Len(ds) = Len(cs)
    /\ \A i \in 1..Len(cs) : ds[i].engine = cs[i].engine

Reengined(cs, ds, k, e) ==
    /\ ds \in Seq(Cell) /\ Len(ds) = Len(cs)
    /\ \A i \in 1..Len(cs) : ds[i].engine = IF i = k THEN e ELSE cs[i].engine

Resized(es, fs) == fs \in Seq(Engine) /\ Len(fs) = Len(es)

(* A cell's lock is taken or given back.                                   *)
LEMMA CellLock ==
    ASSUME NEW cs \in Seq(Cell), NEW k, NEW l \in Locks, NEW ds,
           ds = [cs EXCEPT ![k].lock = l]
    PROVE  Relocked(cs, ds)
<1>1. cs \in [1..Len(cs) -> Cell] /\ Len(cs) \in Nat
  OBVIOUS
<1>2. \A i \in 1..Len(cs) : ds[i] \in Cell /\ ds[i].engine = cs[i].engine
  BY <1>1 DEF Cell
<1>3. DOMAIN ds = 1..Len(cs) /\ ds = [i \in 1..Len(cs) |-> ds[i]]
  BY <1>1
<1>4. ds \in [1..Len(cs) -> Cell]
  BY <1>2, <1>3
<1>5. ds \in Seq(Cell) /\ Len(ds) = Len(cs)
  BY <1>1, <1>4, FromFunction
<1> QED BY <1>2, <1>5 DEF Relocked, Reengined

(* A cell's engine is set or forgotten.                                    *)
LEMMA CellEngine ==
    ASSUME NEW cs \in Seq(Cell), NEW k, NEW e \in Nat, NEW ds,
           ds = [cs EXCEPT ![k].engine = e]
    PROVE  Reengined(cs, ds, k, e)
<1>1. cs \in [1..Len(cs) -> Cell] /\ Len(cs) \in Nat
  OBVIOUS
<1>2. \A i \in 1..Len(cs) : ds[i] \in Cell /\ ds[i].engine = IF i = k THEN e ELSE cs[i].engine
  BY <1>1 DEF Cell
<1>3. DOMAIN ds = 1..Len(cs) /\ ds = [i \in 1..Len(cs) |-> ds[i]]
  BY <1>1
<1>4. ds \in [1..Len(cs) -> Cell]
  BY <1>2, <1>3
<1>5. ds \in Seq(Cell) /\ Len(ds) = Len(cs)
  BY <1>1, <1>4, FromFunction
<1> QED BY <1>2, <1>5 DEF Relocked, Reengined

(* The requests of an engine are batches.                                  *)
LEMMA EngineReqs ==
    ASSUME NEW es \in Seq(Engine), NEW k \in 1..Len(es)
    PROVE  es[k].reqs \subseteq Batches
<1>1. es[k] \in Engine
  OBVIOUS
<1>2. es[k].reqs \in SUBSET Batches
  BY <1>1 DEF Engine
<1> QED BY <1>2

(* An engine's requests or its session change; no engine comes or goes.    *)
LEMMA EngineChange ==
    ASSUME NEW es \in Seq(Engine), NEW k, NEW reqs, NEW l \in Locks, NEW fs,
           k \in 1..Len(es) => reqs \subseteq Batches,
           \/ fs = [es EXCEPT ![k].reqs = reqs]
           \/ fs = [es EXCEPT ![k].session = l]
    PROVE  Resized(es, fs)
<1>1. es \in [1..Len(es) -> Engine] /\ Len(es) \in Nat
  OBVIOUS
<1>2. \A i \in 1..Len(es) : fs[i] \in Engine
  BY <1>1 DEF Engine
<1>3. DOMAIN fs = 1..Len(es) /\ fs = [i \in 1..Len(es) |-> fs[i]]
  BY <1>1
<1> QED BY <1>1, <1>2, <1>3 DEF Resized

-----------------------------------------------------------------------------
(***************************************************************************)
(* The generations.  A child gets runner number Len(cells); each start or  *)
(* ContextPoisoned still in the WorkerActor's mailbox will make one more.  *)
(* A ledger numbers the mailbox: g[i] is the runner in charge once the     *)
(* first i messages are handled.  The last number is the runner of the     *)
(* last poisoning posted, and every batch waits behind all the messages    *)
(* that replace the runners it must not get.                               *)
(***************************************************************************)
Renews(m) == m.tag \in {"start", "ContextPoisoned"}

Ledger(g, box, now, last, floors) ==
    /\ g \in [0..Len(box) -> Nat]
    /\ g[0] = now /\ g[Len(box)] = last
    /\ \A i, j \in 0..Len(box) : i <= j => g[i] <= g[j]
    /\ \A i \in 1..Len(box) :
          /\ g[i] = g[i - 1] + (IF Renews(box[i]) THEN 1 ELSE 0)
          /\ box[i].tag = "Execute" => floors[box[i].batch].cell <= g[i]

(* A message joins the mailbox.                                            *)
LEMMA LedgerAppend ==
    ASSUME NEW box \in Seq(Message), NEW g, NEW now, NEW last, NEW floors, NEW more,
           NEW m \in Message, NEW after,
           Ledger(g, box, now, last, floors),
           after = last + (IF Renews(m) THEN 1 ELSE 0),
           \A i \in 1..Len(box) : box[i].tag = "Execute" =>
               more[box[i].batch].cell = floors[box[i].batch].cell,
           m.tag = "Execute" => more[m.batch].cell <= after
    PROVE  \E h : Ledger(h, Append(box, m), now, after, more)
<1> DEFINE n == Len(box)
           bag == Append(box, m)
           h == [i \in 0 .. n + 1 |-> IF i <= n THEN g[i] ELSE after]
<1>1. /\ n \in Nat /\ Len(bag) = n + 1 /\ bag[n + 1] = m
      /\ \A i \in 1..n : bag[i] = box[i]
  OBVIOUS
<1>2. /\ g \in [0..n -> Nat] /\ g[0] = now /\ g[n] = last
      /\ \A i, j \in 0..n : i <= j => g[i] <= g[j]
  BY DEF Ledger
<1>3. last \in Nat /\ after \in Nat /\ last <= after
  BY <1>1, <1>2
<1>4. /\ \A i \in 0..n : h[i] = g[i]
      /\ h[n + 1] = after /\ h[0] = now
      /\ h \in [0 .. n + 1 -> Nat]
  BY <1>1, <1>2, <1>3
<1>5. ASSUME NEW i \in 0 .. n + 1, NEW j \in 0 .. n + 1, i <= j PROVE h[i] <= h[j]
  <2>1. CASE j <= n
    BY <2>1, <1>1, <1>2, <1>4, <1>5
  <2>2. CASE j = n + 1 /\ i <= n
    <3>1. g[i] <= g[n] /\ g[i] \in Nat
      BY <2>2, <1>1, <1>2
    <3> QED BY <2>2, <3>1, <1>1, <1>2, <1>3, <1>4
  <2>3. CASE j = n + 1 /\ i = n + 1
    BY <2>3, <1>3, <1>4
  <2> QED BY <2>1, <2>2, <2>3, <1>1, <1>5
<1>6. ASSUME NEW i \in 1 .. n + 1
      PROVE  /\ h[i] = h[i - 1] + (IF Renews(bag[i]) THEN 1 ELSE 0)
             /\ bag[i].tag = "Execute" => more[bag[i].batch].cell <= h[i]
  <2>1. CASE i <= n
    <3>1. i \in 1..n /\ i \in 0..n /\ i - 1 \in 0..n
      BY <2>1, <1>1
    <3> QED BY <3>1, <1>1, <1>4 DEF Ledger
  <2>2. CASE i = n + 1
    BY <2>2, <1>1, <1>2, <1>3, <1>4
  <2> QED BY <2>1, <2>2, <1>1
<1> HIDE DEF h, bag, n
<1>7. Ledger(h, bag, now, after, more)
  BY <1>1, <1>4, <1>5, <1>6 DEF Ledger
<1> QED BY <1>7 DEF bag

(* The first message is handled.                                           *)
LEMMA LedgerTail ==
    ASSUME NEW box \in Seq(Message), box # <<>>, NEW g, NEW now, NEW last, NEW floors,
           Ledger(g, box, now, last, floors)
    PROVE  /\ \E h : Ledger(h, Tail(box), now + (IF Renews(Head(box)) THEN 1 ELSE 0), last, floors)
           /\ Head(box).tag = "Execute" => floors[Head(box).batch].cell <= now
           /\ now \in Nat /\ last \in Nat /\ now <= last
<1> DEFINE n == Len(box)
           bag == Tail(box)
           next == now + (IF Renews(Head(box)) THEN 1 ELSE 0)
           h == [i \in 0 .. n - 1 |-> g[i + 1]]
<1>1. /\ n \in Nat /\ n >= 1 /\ Len(bag) = n - 1 /\ Head(box) = box[1]
      /\ \A i \in 1 .. n - 1 : bag[i] = box[i + 1]
  OBVIOUS
<1>2. /\ g \in [0..n -> Nat] /\ g[0] = now /\ g[n] = last
      /\ \A i, j \in 0..n : i <= j => g[i] <= g[j]
      /\ \A i \in 1..n : /\ g[i] = g[i - 1] + (IF Renews(box[i]) THEN 1 ELSE 0)
                         /\ box[i].tag = "Execute" => floors[box[i].batch].cell <= g[i]
  BY DEF Ledger
<1>3. g[1] = next
  BY <1>1, <1>2
<1>4. /\ h \in [0 .. n - 1 -> Nat] /\ h[0] = next /\ h[n - 1] = last
      /\ \A i \in 0 .. n - 1 : h[i] = g[i + 1]
  BY <1>1, <1>2, <1>3
<1>5. ASSUME NEW i \in 0 .. n - 1, NEW j \in 0 .. n - 1, i <= j PROVE h[i] <= h[j]
  BY <1>1, <1>2, <1>4, <1>5
<1>6. ASSUME NEW i \in 1 .. n - 1
      PROVE  /\ h[i] = h[i - 1] + (IF Renews(bag[i]) THEN 1 ELSE 0)
             /\ bag[i].tag = "Execute" => floors[bag[i].batch].cell <= h[i]
  <2>1. i + 1 \in 1..n /\ i \in 0 .. n - 1 /\ i - 1 \in 0 .. n - 1
    BY <1>1
  <2>2. h[i] = g[i + 1] /\ h[i - 1] = g[i] /\ bag[i] = box[i + 1]
    BY <2>1, <1>1, <1>4
  <2> QED BY <2>1, <2>2, <1>2
<1>7. Head(box).tag = "Execute" => floors[Head(box).batch].cell <= now
  BY <1>1, <1>2 DEF Renews
<1>8. now \in Nat /\ last \in Nat /\ now <= last
  BY <1>1, <1>2
<1> HIDE DEF h, bag, n, next
<1>9. Ledger(h, bag, next, last, floors)
  BY <1>1, <1>4, <1>5, <1>6 DEF Ledger
<1> QED BY <1>7, <1>8, <1>9 DEF bag, next

-----------------------------------------------------------------------------
(***************************************************************************)
(* What a step of a batch's task, of its producer or of its consumer does  *)
(* to the runners and the batches: a batch moves on from a runner it was   *)
(* given, it takes the engine its runner has, and a runner gets only the   *)
(* engine that was launched last.                                          *)
(***************************************************************************)
Active == {"waiting", "locked", "stream"}

Tracks(c) ==
    /\ job'[c].cell = job[c].cell
    /\ \/ job'[c].st = job[c].st
       \/ job[c].st \in Active /\ job'[c].st \in {"locked", "stream", "closed"}
    /\ \/ job'[c].eng = job[c].eng
       \/ job'[c].eng = 0
       \/ job[c].st \in Active /\ job'[c].eng = cells[job[c].cell].engine

JobsTrack == Jobs' /\ \A c \in Batches : Tracks(c)

RunnersTrack ==
    /\ cells' \in Seq(Cell) /\ engines' \in Seq(Engine)
    /\ Len(cells') = Len(cells) /\ Len(engines) <= Len(engines')
    /\ \A i \in 1..Len(cells) : \/ cells'[i].engine = cells[i].engine
                                \/ cells'[i].engine > Len(engines)

(* One batch's record changes.                                             *)
LEMMA OneJob ==
    ASSUME Jobs, NEW b \in Batches, job' = [c \in Batches |-> job'[c]],
           \A c \in Batches \ {b} : job'[c] = job[c],
           Shaped(job'[b]), Tracks(b)
    PROVE  JobsTrack
BY DEF JobsTrack, Jobs, Tracks, Shaped

(* Nothing happens to the runners.                                         *)
LEMMA RunnersStay ==
    ASSUME Shapes, cells' = cells, engines' = engines
    PROVE  RunnersTrack
BY DEF Shapes, RunnersTrack

(* The task: AcquireRunner and Launch.                                     *)
LEMMA AcquireTracks ==
    ASSUME Shapes, NEW b \in Batches, AcquireRunner(b)
    PROVE  JobsTrack /\ RunnersTrack
<1>t. cells \in Seq(Cell) /\ engines \in Seq(Engine) /\ Jobs
  BY DEF Shapes
<1>l. Free \in Locks /\ b \in Locks
  BY DEF Locks
<1>1. /\ job' = [job EXCEPT ![b].st = "locked"] /\ job[b].st = "waiting" /\ engines' = engines
  BY DEF AcquireRunner
<1>c. cells' = [cells EXCEPT ![job[b].cell].lock = b]
  BY DEF AcquireRunner
<1>2. Shaped(job'[b]) /\ Tracks(b) /\ job' = [c \in Batches |-> job'[c]]
      /\ \A c \in Batches \ {b} : job'[c] = job[c]
  BY <1>t, <1>1 DEF Jobs, Shaped, Fields, Tracks, Active
<1>3. JobsTrack
  BY <1>2, OneJob, <1>t
<1>4. Relocked(cells, cells')
  BY <1>t, <1>l, <1>c, CellLock
<1>5. RunnersTrack
  BY <1>t, <1>1, <1>4 DEF RunnersTrack, Relocked, Reengined, Resized
<1> QED BY <1>3, <1>5

(* A batch is launched: its record and its runner move together.           *)
LEMMA LaunchTracks ==
    ASSUME Shapes, NEW b \in Batches, Launch(b)
    PROVE  JobsTrack /\ RunnersTrack
<1>t. cells \in Seq(Cell) /\ engines \in Seq(Engine) /\ Jobs
  BY DEF Shapes
<1>l. Free \in Locks /\ b \in Locks
  BY DEF Locks
<1>1. job' = job /\ engines' = Append(engines, [reqs |-> {}, session |-> Free])
  BY DEF Launch
<1>c. cells' = [cells EXCEPT ![job[b].cell].engine = Len(engines')]
  BY DEF Launch
<1>2. JobsTrack
  BY <1>t, <1>1 DEF JobsTrack, Jobs, Tracks, Shaped
<1>3. [reqs |-> {}, session |-> Free] \in Engine
  BY DEF Engine, Locks
<1>4. engines' \in Seq(Engine) /\ Len(engines') = Len(engines) + 1 /\ Len(engines') \in Nat
  BY <1>t, <1>1, <1>3
<1>5. Reengined(cells, cells', job[b].cell, Len(engines'))
  BY <1>t, <1>c, <1>4, CellEngine
<1>6. RunnersTrack
  BY <1>t, <1>4, <1>5 DEF RunnersTrack, Relocked, Reengined, Resized
<1> QED BY <1>2, <1>6

(* execute fails, before or after the engine was there.                    *)
LEMMA FailTracks ==
    ASSUME Shapes, NEW b \in Batches, Holds(b), NEW k, Fail(b, k)
    PROVE  JobsTrack /\ RunnersTrack
<1>t. cells \in Seq(Cell) /\ engines \in Seq(Engine) /\ Jobs
  BY DEF Shapes
<1>l. Free \in Locks /\ b \in Locks
  BY DEF Locks
<1>1. /\ job' = [job EXCEPT ![b].st = "closed", ![b].eng = cells[job[b].cell].engine, ![b].rx = FALSE]
      /\ engines' = engines /\ job[b].st = "locked"
  BY DEF Fail, Holds
<1>c. cells' = [cells EXCEPT ![job[b].cell].lock = Free]
  BY DEF Fail
<1>2. job' = [c \in Batches |-> job'[c]] /\ \A c \in Batches \ {b} : job'[c] = job[c]
  BY <1>t, <1>1 DEF Jobs
<1>3. /\ job'[b].st = "closed" /\ job'[b].cell = job[b].cell
      /\ job'[b].eng = cells[job[b].cell].engine
  BY <1>t, <1>1 DEF Jobs, Shaped, Fields
<1>4. Shaped(job'[b])
  BY <1>t, <1>1 DEF Jobs, Shaped, Fields
<1>5. JobsTrack
  BY <1>1, <1>2, <1>3, <1>4, OneJob, <1>t DEF Tracks, Active
<1>6. Relocked(cells, cells')
  BY <1>t, <1>l, <1>c, CellLock
<1>7. RunnersTrack
  BY <1>t, <1>1, <1>6 DEF RunnersTrack, Relocked, Reengined, Resized
<1> QED BY <1>5, <1>7

(* A batch is submitted to the thread of its runner.                       *)
LEMMA SubmitTracks ==
    ASSUME Shapes, NEW b \in Batches, Submit(b)
    PROVE  JobsTrack /\ RunnersTrack
<1>t. cells \in Seq(Cell) /\ engines \in Seq(Engine) /\ Jobs
  BY DEF Shapes
<1>l. Free \in Locks /\ b \in Locks
  BY DEF Locks
<1> DEFINE e == cells[job[b].cell].engine
<1>1. /\ job' = [job EXCEPT ![b].st = "stream", ![b].eng = e,
                            ![b].prod = IF kind = "ort" THEN "session" ELSE "run"]
      /\ engines' = engines \/ engines' = [engines EXCEPT ![e].reqs = @ \cup {b}]
      /\ job[b].st = "locked"
  BY DEF Submit, Holds
<1>c. cells' = [cells EXCEPT ![job[b].cell].lock = Free]
  BY DEF Submit
<1> HIDE DEF e
<1>2. job' = [c \in Batches |-> job'[c]] /\ \A c \in Batches \ {b} : job'[c] = job[c]
  BY <1>t, <1>1 DEF Jobs
<1>3. job'[b].st = "stream" /\ job'[b].cell = job[b].cell /\ job'[b].eng = e
  BY <1>t, <1>1 DEF Jobs, Shaped, Fields
<1>4. Shaped(job'[b])
  BY <1>t, <1>1 DEF Jobs, Shaped, Fields
<1>5. JobsTrack
  BY <1>1, <1>2, <1>3, <1>4, OneJob, <1>t DEF Tracks, Active, e
<1>6. Relocked(cells, cells')
  BY <1>t, <1>l, <1>c, CellLock
<1>7. Resized(engines, engines')
  <2>1. e \in 1..Len(engines) => engines[e].reqs \cup {b} \subseteq Batches
    BY <1>t, EngineReqs
  <2>2. CASE engines' = engines
    BY <2>2, <1>t DEF Resized
  <2>3. CASE engines' = [engines EXCEPT ![e].reqs = engines[e].reqs \cup {b}]
    BY <1>t, <1>l, <2>1, <2>3, EngineChange
  <2> QED BY <1>1, <2>2, <2>3
<1>8. RunnersTrack
  BY <1>t, <1>6, <1>7 DEF RunnersTrack, Relocked, Reengined, Resized
<1> QED BY <1>5, <1>8

(* The drain, its two ends, and the consumer that leaves.                  *)
LEMMA DrainTracks ==
    ASSUME Shapes, NEW b \in Batches, Drain(b) \/ DrainEnds(b) \/ ReaderDrops(b)
    PROVE  JobsTrack /\ RunnersTrack
<1>t. cells \in Seq(Cell) /\ engines \in Seq(Engine) /\ Jobs
  BY DEF Shapes
<1>l. Free \in Locks /\ b \in Locks
  BY DEF Locks
<1>0. RunnersTrack
  BY RunnersStay DEF Drain, DrainEnds, ReaderDrops
<1>1. CASE Drain(b) /\ job[b].reader
  BY <1>t, <1>0, <1>1 DEF Drain, JobsTrack, Jobs, Tracks, Shaped
<1>2. CASE Drain(b) /\ ~job[b].reader
  <2>1. /\ job[b].st = "stream"
        /\ job' = [job EXCEPT ![b].st = "closed", ![b].rx = FALSE,
                              ![b].prod = IF ~Unblocked(b) /\ @ \in {"run", "flush"}
                                          THEN "abort" ELSE @]
    BY <1>2 DEF Drain
  <2>2. job' = [c \in Batches |-> job'[c]] /\ \A c \in Batches \ {b} : job'[c] = job[c]
    BY <1>t, <2>1 DEF Jobs
  <2>3. job'[b].st = "closed" /\ job'[b].cell = job[b].cell /\ job'[b].eng = job[b].eng
    BY <1>t, <2>1 DEF Jobs, Shaped, Fields
  <2>4. Shaped(job'[b])
    BY <1>t, <2>1 DEF Jobs, Shaped, Fields
  <2> QED BY <1>0, <2>1, <2>2, <2>3, <2>4, OneJob, <1>t DEF Tracks, Active
<1>3. CASE DrainEnds(b)
  <2>1. PICK left : /\ job[b].st = "stream"
                    /\ job' = [job EXCEPT ![b].st = "closed", ![b].rx = FALSE,
                                          ![b].ids = IF left THEN <<>> ELSE @,
                                          ![b].sent = IF left THEN <<>> ELSE @,
                                          ![b].eng = IF left THEN 0 ELSE @,
                                          ![b].fin = IF left THEN None ELSE @]
    BY <1>3, Zenon DEF DrainEnds
  <2>2. job' = [c \in Batches |-> job'[c]] /\ \A c \in Batches \ {b} : job'[c] = job[c]
    BY <1>t, <2>1 DEF Jobs
  <2>r. PICK ids, sent, eng, fin :
           /\ eng = 0 \/ eng = job[b].eng
           /\ job'[b] = [job[b] EXCEPT !.st = "closed", !.rx = FALSE, !.ids = ids, !.sent = sent,
                                      !.eng = eng, !.fin = fin]
    BY <1>t, <2>1 DEF Jobs
  <2>s. Shaped(job[b])
    BY <1>t DEF Jobs
  <2>3. job'[b].st = "closed"
    BY <2>r, <2>s DEF Shaped, Fields
  <2>4. job'[b].cell = job[b].cell
    BY <2>r, <2>s DEF Shaped, Fields
  <2>5. job'[b].eng = 0 \/ job'[b].eng = job[b].eng
    BY <2>r, <2>s DEF Shaped, Fields
  <2>6. Shaped(job'[b])
    BY <2>r, <2>s DEF Shaped, Fields
  <2> QED BY <1>0, <2>1, <2>2, <2>3, <2>4, <2>5, <2>6, OneJob, <1>t DEF Tracks, Active
<1>4. CASE ReaderDrops(b)
  <2>1. job' = [job EXCEPT ![b].reader = FALSE]
    BY <1>4 DEF ReaderDrops
  <2>2. /\ job' = [c \in Batches |-> job'[c]] /\ \A c \in Batches \ {b} : job'[c] = job[c]
        /\ Shaped(job'[b]) /\ Tracks(b)
    BY <1>t, <2>1 DEF Jobs, Shaped, Fields, Tracks
  <2> QED BY <1>0, <2>2, OneJob, <1>t
<1> QED BY <1>1, <1>2, <1>3, <1>4

-----------------------------------------------------------------------------
(* The producers: they write in the records of the batches, but not where  *)
(* the batch is.                                                           *)
Stands(c) == job'[c].st = job[c].st /\ job'[c].cell = job[c].cell /\ job'[c].eng = job[c].eng

JobsStand == Jobs' /\ \A c \in Batches : Stands(c)

(* One batch is written to, and none has moved.                            *)
LEMMA OneStands ==
    ASSUME Jobs, NEW b \in Batches, job' = [c \in Batches |-> job'[c]],
           \A c \in Batches \ {b} : job'[c] = job[c],
           Shaped(job'[b]), Stands(b)
    PROVE  JobsStand
BY DEF JobsStand, Jobs, Stands, Shaped

(* prod, ids, sent and fin of one batch.                                   *)
LEMMA Produces ==
    ASSUME Jobs, NEW b \in Batches, NEW prod, NEW ids, NEW sent, NEW fin,
           \/ job' = [job EXCEPT ![b].prod = prod]
           \/ job' = [job EXCEPT ![b].prod = prod, ![b].fin = fin]
           \/ job' = [job EXCEPT ![b].ids = ids, ![b].fin = fin, ![b].prod = prod]
           \/ job' = [job EXCEPT ![b].ids = ids, ![b].sent = sent, ![b].fin = fin,
                                 ![b].prod = prod]
    PROVE  JobsStand
<1> USE DEF Jobs, Shaped, Fields
<1>1. CASE job' = [job EXCEPT ![b].prod = prod]
  BY <1>1, OneStands DEF Stands
<1>2. CASE job' = [job EXCEPT ![b].prod = prod, ![b].fin = fin]
  <2>1. job' = [c \in Batches |-> job'[c]] /\ \A c \in Batches \ {b} : job'[c] = job[c]
    BY <1>2
  <2>r. job'[b] = [job[b] EXCEPT !.prod = prod, !.fin = fin]
    BY <1>2
  <2>2. Stands(b)
    BY <2>r DEF Stands
  <2>3. Shaped(job'[b])
    BY <2>r
  <2> QED BY <2>1, <2>2, <2>3, OneStands
<1>3. CASE job' = [job EXCEPT ![b].ids = ids, ![b].fin = fin, ![b].prod = prod]
  <2>1. job' = [c \in Batches |-> job'[c]] /\ \A c \in Batches \ {b} : job'[c] = job[c]
    BY <1>3
  <2>r. job'[b] = [job[b] EXCEPT !.ids = ids, !.fin = fin, !.prod = prod]
    BY <1>3
  <2>2. Stands(b)
    BY <2>r DEF Stands
  <2>3. Shaped(job'[b])
    BY <2>r
  <2> QED BY <2>1, <2>2, <2>3, OneStands
<1>4. CASE job' = [job EXCEPT ![b].ids = ids, ![b].sent = sent, ![b].fin = fin, ![b].prod = prod]
  <2>1. job' = [c \in Batches |-> job'[c]] /\ \A c \in Batches \ {b} : job'[c] = job[c]
    BY <1>4
  <2>r. job'[b] = [job[b] EXCEPT !.ids = ids, !.sent = sent, !.fin = fin, !.prod = prod]
    BY <1>4
  <2>2. Stands(b)
    BY <2>r DEF Stands
  <2>3. Shaped(job'[b])
    BY <2>r
  <2> QED BY <2>1, <2>2, <2>3, OneStands
<1> QED BY <1>1, <1>2, <1>3, <1>4

(* What a step of engine e writes, taken by the poller of batch b.         *)
VllmWrites(b, e, done, left, full, prod) ==
    /\ LET next == AdvanceAll(engines[e].reqs, done)
       IN  \/ job' = [next EXCEPT ![b].sent = full, ![b].prod = prod]
           \/ job' = [next EXCEPT ![b].prod = prod]
    /\ left \subseteq engines[e].reqs
    /\ engines' = [engines EXCEPT ![e].reqs = left]
    /\ cells' = cells

(* drive_generation's step: every request of the engine gets a token.      *)
LEMMA VllmStands ==
    ASSUME Shapes, NEW b \in Batches, VllmStep(b)
    PROVE  JobsStand /\ RunnersTrack
<1>t. cells \in Seq(Cell) /\ engines \in Seq(Engine) /\ Jobs
  BY DEF Shapes
<1> DEFINE e == job[b].eng
           reqs == engines[e].reqs
<1>1. PICK done, left, full, prod : VllmWrites(b, e, done, left, full, prod)
  <2>1. PICK done \in SUBSET reqs :
          LET next  == AdvanceAll(reqs, done)
              full  == Decode(next[b].ids)
              alive == job[b].rx
              left  == {r \in reqs : next[r].fin = None}
          IN  /\ IF b \in reqs
                 THEN job' = [next EXCEPT
                          ![b].sent = full,
                          ![b].prod = IF next[b].fin # None \/ ~alive THEN "done" ELSE "run"]
                 ELSE job' = [next EXCEPT ![b].prod = "check"]
              /\ engines' = [engines EXCEPT
                  ![e].reqs = IF b \in reqs /\ ~alive THEN left \ {b} ELSE left]
    BY Zenon DEF VllmStep
  <2> DEFINE next == AdvanceAll(reqs, done)
             left == {r \in reqs : next[r].fin = None}
             kept == IF b \in reqs /\ ~job[b].rx THEN left \ {b} ELSE left
             prod == IF b \in reqs THEN IF next[b].fin # None \/ ~job[b].rx THEN "done" ELSE "run"
                     ELSE "check"
  <2>2. kept \subseteq reqs
    OBVIOUS
  <2>3. engines' = [engines EXCEPT ![e].reqs = kept] /\ cells' = cells
    BY <2>1 DEF VllmStep
  <2>4. \/ job' = [next EXCEPT ![b].sent = Decode(next[b].ids), ![b].prod = prod]
        \/ job' = [next EXCEPT ![b].prod = prod]
    <3>1. CASE b \in reqs
      <4>1. job' = [next EXCEPT ![b].sent = Decode(next[b].ids),
                                ![b].prod = IF next[b].fin # None \/ ~job[b].rx THEN "done" ELSE "run"]
        BY <2>1, <3>1, Zenon
      <4>2. prod = IF next[b].fin # None \/ ~job[b].rx THEN "done" ELSE "run"
        BY <3>1
      <4> QED BY <4>1, <4>2, Zenon
    <3>2. CASE b \notin reqs
      <4>1. job' = [next EXCEPT ![b].prod = "check"]
        BY <2>1, <3>2, Zenon
      <4>2. prod = "check"
        BY <3>2
      <4> QED BY <4>1, <4>2, Zenon
    <3> QED BY <3>1, <3>2, Zenon
  <2> DEFINE full == Decode(next[b].ids)
  <2>5. VllmWrites(b, e, done, kept, full, prod)
    BY <2>2, <2>3, <2>4, Zenon DEF VllmWrites
  <2> QED BY <2>5, Zenon
<1> DEFINE next == AdvanceAll(reqs, done)
<1>2. /\ next = [c \in Batches |-> next[c]]
      /\ \A c \in Batches : /\ Shaped(next[c]) /\ next[c].st = job[c].st
                            /\ next[c].cell = job[c].cell /\ next[c].eng = job[c].eng
  <2>1. next = [c \in Batches |-> next[c]]
    BY DEF AdvanceAll
  <2>2. ASSUME NEW c \in Batches
        PROVE  /\ Shaped(next[c]) /\ next[c].st = job[c].st
               /\ next[c].cell = job[c].cell /\ next[c].eng = job[c].eng
    <3>1. CASE c \notin reqs
      BY <3>1, <1>t DEF AdvanceAll, Jobs
    <3>2. CASE c \in reqs
      <4>1. PICK ids, fin : next[c] = [job[c] EXCEPT !.ids = ids, !.fin = fin]
        BY <3>2 DEF AdvanceAll
      <4>2. Shaped(job[c])
        BY <1>t DEF Jobs
      <4> HIDE DEF next
      <4> QED BY <4>1, <4>2 DEF Shaped, Fields
    <3> QED BY <3>1, <3>2
  <2> QED BY <2>1, <2>2
<1> HIDE DEF next
<1>3. /\ job' = [c \in Batches |-> job'[c]]
      /\ \A c \in Batches : Shaped(job'[c]) /\ Stands(c)
  <2>1. \/ job' = [next EXCEPT ![b].sent = full, ![b].prod = prod]
        \/ job' = [next EXCEPT ![b].prod = prod]
    BY <1>1, Zenon DEF next, VllmWrites
  <2>2. job' = [c \in Batches |-> job'[c]] /\ \A c \in Batches \ {b} : job'[c] = next[c]
    BY <2>1, <1>2
  <2>3. Shaped(job'[b])
    BY <2>1, <1>2 DEF Shaped, Fields
  <2>4. Stands(b)
    BY <2>1, <1>2 DEF Shaped, Fields, Stands
  <2> QED BY <1>2, <2>2, <2>3, <2>4 DEF Stands
<1>4. JobsStand
  BY <1>3 DEF JobsStand, Jobs
<1>5. Resized(engines, engines')
  <2>1. e \in 1..Len(engines) => left \subseteq Batches
    <3>1. left \subseteq reqs
      BY <1>1 DEF VllmWrites
    <3> QED BY <1>t, <3>1, EngineReqs
  <2>2. engines' = [engines EXCEPT ![e].reqs = left] /\ Free \in Locks
    BY <1>1 DEF Locks, VllmWrites
  <2> QED BY <1>t, <2>1, <2>2, EngineChange
<1>6. cells' = cells
  BY <1>1 DEF VllmWrites
<1>7. RunnersTrack
  BY <1>t, <1>5, <1>6 DEF RunnersTrack, Resized
<1> QED BY <1>4, <1>7

(* The other producers, one batch at a time.                               *)
LEMMA ProducerStands ==
    ASSUME Shapes, NEW b \in Batches, ProducerStep(b)
    PROVE  JobsStand /\ RunnersTrack
<1>t. cells \in Seq(Cell) /\ engines \in Seq(Engine) /\ Jobs /\ b \in Locks /\ Free \in Locks
  BY DEF Shapes, Locks
<1>1. CASE VllmStep(b)
  BY <1>1, VllmStands
<1>2. CASE VllmCheck(b) \/ VllmStepFails(b)
  <2>1. \E prod : job' = [job EXCEPT ![b].prod = prod]
    BY <1>2 DEF VllmCheck, VllmStepFails
  <2> QED BY <1>2, <2>1, <1>t, Produces, RunnersStay DEF VllmCheck, VllmStepFails
<1>3. CASE OrtStart(b)
  <2>1. \E prod : job' = [job EXCEPT ![b].prod = prod]
    BY <1>3 DEF OrtStart
  <2>2. engines' = [engines EXCEPT ![job[b].eng].session = b] /\ cells' = cells
    BY <1>3 DEF OrtStart
  <2>3. Resized(engines, engines')
    <3>1. job[b].eng \in 1..Len(engines) => {} \subseteq Batches
      OBVIOUS
    <3> QED BY <1>t, <2>2, <3>1, EngineChange
  <2>4. RunnersTrack
    BY <1>t, <2>2, <2>3 DEF RunnersTrack, Resized
  <2> QED BY <2>1, <2>4, <1>t, Produces
<1>4. CASE OrtToken(b)
  <2>1. PICK t \in Vocabulary :
          LET ids  == Append(job[b].ids, t)
              full == Decode(ids)
              d    == DecodeDelta(job[b].sent, full)
              stop == StopReason(ids, MaxNew)
              gone == d.delta # <<>> /\ ~job[b].rx
          IN  job' = [job EXCEPT
                  ![b].ids = ids,
                  ![b].sent = IF d.advance THEN full ELSE @,
                  ![b].fin = stop,
                  ![b].prod = IF gone THEN "release" ELSE IF stop = None THEN "run" ELSE "flush"]
    BY <1>4 DEF OrtToken
  <2> DEFINE ids  == Append(job[b].ids, t)
             full == Decode(ids)
             d    == DecodeDelta(job[b].sent, full)
             stop == StopReason(ids, MaxNew)
             gone == d.delta # <<>> /\ ~job[b].rx
             sent == IF d.advance THEN full ELSE job[b].sent
             prod == IF gone THEN "release" ELSE IF stop = None THEN "run" ELSE "flush"
  <2>2. job' = [job EXCEPT ![b].ids = ids, ![b].sent = sent, ![b].fin = stop, ![b].prod = prod]
    <3>1. [job EXCEPT ![b].ids = ids][b].sent = job[b].sent
      BY <1>t DEF Jobs, Shaped, Fields
    <3> HIDE DEF ids, full, d, stop, prod
    <3> QED BY <2>1, <3>1 DEF prod, gone, stop, d, full, ids
  <2> HIDE DEF ids, sent, stop, prod
  <2>3. cells' = cells /\ engines' = engines
    BY <1>4 DEF OrtToken
  <2>4. JobsStand
    BY <2>2, <1>t, Produces
  <2> QED BY <2>3, <2>4, RunnersStay
<1>5. CASE OrtRunFails(b) \/ OrtFlush(b)
  <2>1. \E prod : job' = [job EXCEPT ![b].prod = prod]
    BY <1>5 DEF OrtRunFails, OrtFlush
  <2> QED BY <1>5, <2>1, <1>t, Produces, RunnersStay DEF OrtRunFails, OrtFlush
<1>6. CASE OrtRelease(b)
  <2>1. job' = [job EXCEPT ![b].prod = "done"]
    BY <1>6 DEF OrtRelease
  <2>2. engines' = [engines EXCEPT ![job[b].eng].session = Free] /\ cells' = cells
    BY <1>6 DEF OrtRelease
  <2>3. Resized(engines, engines')
    <3>1. job[b].eng \in 1..Len(engines) => {} \subseteq Batches
      OBVIOUS
    <3> QED BY <1>t, <2>2, <3>1, EngineChange
  <2>4. RunnersTrack
    BY <1>t, <2>2, <2>3 DEF RunnersTrack, Resized
  <2> QED BY <2>1, <2>4, <1>t, Produces
<1>7. CASE MistralResponse(b)
  <2>0. cells' = cells /\ engines' = engines
    BY <1>7 DEF MistralResponse
  <2>1. ASSUME NEW says \in {None, "length"},
               LET fin == IF says = None THEN None ELSE MistralFinishReason(says)
               IN  job' = [job EXCEPT ![b].ids = Append(@, "w"), ![b].fin = fin,
                                      ![b].prod = IF job[b].rx THEN "run" ELSE "done"]
        PROVE  JobsStand
    BY <2>1, <1>t, Produces
  <2>2. CASE job' = [job EXCEPT ![b].prod = "done", ![b].fin = "Stop"]
    BY <2>0, <2>2, <1>t, Produces, RunnersStay
  <2>3. CASE job' = [job EXCEPT ![b].prod = "done"]
    BY <2>0, <2>3, <1>t, Produces, RunnersStay
  <2>4. JobsStand \/ job' = [job EXCEPT ![b].prod = "done", ![b].fin = "Stop"]
        \/ job' = [job EXCEPT ![b].prod = "done"]
    BY <1>7, <2>1 DEF MistralResponse
  <2> QED BY <2>0, <2>2, <2>3, <2>4, RunnersStay
<1>8. CASE MockChunk(b)
  <2>0. cells' = cells /\ engines' = engines
    BY <1>8 DEF MockChunk
  <2>1. CASE job' = [job EXCEPT ![b].prod = "done"]
    BY <2>0, <2>1, <1>t, Produces, RunnersStay
  <2>2. CASE LET n   == Len(job[b].ids) + 1
                 fin == IF n = MaxNew THEN "Stop" ELSE None
             IN  job' = [job EXCEPT ![b].ids = Append(@, "w"), ![b].fin = fin,
                                    ![b].prod = IF fin = None THEN "run" ELSE "done"]
    <3>1. \E ids, fin, prod : job' = [job EXCEPT ![b].ids = ids, ![b].fin = fin, ![b].prod = prod]
      BY <2>2, Zenon
    <3> QED BY <2>0, <3>1, <1>t, Produces, RunnersStay
  <2> QED BY <1>8, <2>1, <2>2 DEF MockChunk
<1>9. CASE ProducerAborts(b)
  <2>1. \E prod : job' = [job EXCEPT ![b].prod = prod]
    BY <1>9 DEF ProducerAborts
  <2>2. engines' = [engines EXCEPT ![job[b].eng].reqs = engines[job[b].eng].reqs \ {b}]
        /\ cells' = cells
    BY <1>9 DEF ProducerAborts
  <2>3. Resized(engines, engines')
    <3>1. job[b].eng \in 1..Len(engines) => engines[job[b].eng].reqs \ {b} \subseteq Batches
      BY <1>t, EngineReqs
    <3> QED BY <1>t, <2>2, <3>1, EngineChange
  <2>4. RunnersTrack
    BY <1>t, <2>2, <2>3 DEF RunnersTrack, Resized
  <2> QED BY <2>1, <2>4, <1>t, Produces
<1>10. CASE ProducerPanics(b)
  <2>1. \E prod : job' = [job EXCEPT ![b].prod = prod]
    BY <1>10 DEF ProducerPanics
  <2> QED BY <1>10, <2>1, <1>t, Produces, RunnersStay DEF ProducerPanics
<1> QED BY <1>1, <1>2, <1>3, <1>4, <1>5, <1>6, <1>7, <1>8, <1>9, <1>10 DEF ProducerStep

(* All that can happen to a batch outside the two actors.                  *)
LEMMA RunnerTracks ==
    ASSUME Shapes, NEW b \in Batches, TaskStep(b) \/ ProducerStep(b) \/ ReaderDrops(b)
    PROVE  JobsTrack /\ RunnersTrack
<1>1. CASE LaunchFails(b) \/ SubmitFails(b)
  <2>1. Holds(b) /\ \E k : Fail(b, k)
    BY <1>1, Zenon DEF LaunchFails, SubmitFails
  <2> QED BY <2>1, FailTracks
<1>2. CASE ProducerStep(b)
  BY <1>2, ProducerStands DEF JobsStand, JobsTrack, Stands, Tracks
<1> QED BY <1>1, <1>2, AcquireTracks, LaunchTracks, SubmitTracks, DrainTracks DEF TaskStep

-----------------------------------------------------------------------------
(***************************************************************************)
(* The mailboxes.  A batch is in at most one of them and once, and its     *)
(* status says in which: a runner is given to it only as it leaves the     *)
(* second.                                                                 *)
(***************************************************************************)
Holding(box, jobs, status) ==
    /\ \A i \in 1..Len(box) : box[i].tag = "Execute" => jobs[box[i].batch].st = status
    /\ \A i, j \in 1..Len(box) :
          /\ box[i].tag = "Execute" /\ box[j].tag = "Execute"
          /\ box[i].batch = box[j].batch
          => i = j

(* The batches of a mailbox are batches.                                   *)
LEMMA MessageBatch ==
    ASSUME NEW m \in Message
    PROVE  /\ m.tag = "Execute" => m.batch \in Batches
           /\ m.tag = "RebuildSession" => m.rebuild \in Rebuilds
           /\ m.tag \in {"start", "ContextPoisoned", "Execute", "RebuildSession"}
BY DEF Message

(* The batches in the box keep their status.                               *)
LEMMA HoldingKept ==
    ASSUME NEW box \in Seq(Message), NEW jobs, NEW more, NEW status,
           Holding(box, jobs, status),
           \A b \in Batches : jobs[b].st = status => more[b].st = status
    PROVE  Holding(box, more, status)
<1>1. \A i \in 1..Len(box) : box[i] \in Message
  OBVIOUS
<1> QED BY <1>1, MessageBatch DEF Holding

(* A message that is not a batch joins.                                    *)
LEMMA HoldingOther ==
    ASSUME NEW box \in Seq(Message), NEW m \in Message, m.tag # "Execute", NEW jobs, NEW status,
           Holding(box, jobs, status)
    PROVE  Holding(Append(box, m), jobs, status)
<1>1. /\ Len(Append(box, m)) = Len(box) + 1 /\ Append(box, m)[Len(box) + 1] = m
      /\ Len(box) \in Nat /\ \A i \in 1..Len(box) : Append(box, m)[i] = box[i]
  OBVIOUS
<1>2. \A i \in 1..Len(Append(box, m)) : Append(box, m)[i].tag = "Execute" =>
          i \in 1..Len(box) /\ Append(box, m)[i] = box[i]
  BY <1>1
<1> QED BY <1>2 DEF Holding

(* A batch that was elsewhere joins.                                       *)
LEMMA HoldingBatch ==
    ASSUME NEW box \in Seq(Message), NEW m \in Message, m.tag = "Execute",
           NEW jobs, NEW more, NEW status,
           Holding(box, jobs, status), jobs[m.batch].st # status, more[m.batch].st = status,
           \A b \in Batches \ {m.batch} : more[b] = jobs[b]
    PROVE  Holding(Append(box, m), more, status)
<1> DEFINE bag == Append(box, m)
<1>1. /\ Len(bag) = Len(box) + 1 /\ bag[Len(box) + 1] = m
      /\ Len(box) \in Nat /\ \A i \in 1..Len(box) : bag[i] = box[i] /\ box[i] \in Message
  OBVIOUS
<1> HIDE DEF bag
<1>2. \A i \in 1..Len(box) : box[i].tag = "Execute" =>
          box[i].batch # m.batch /\ box[i].batch \in Batches
  BY <1>1, MessageBatch DEF Holding
<1>3. \A i \in 1..Len(bag) : i \in 1..Len(box) \/ i = Len(box) + 1
  BY <1>1
<1>4. \A i \in 1..Len(bag) : bag[i].tag = "Execute" => more[bag[i].batch].st = status
  BY <1>1, <1>2, <1>3 DEF Holding
<1>5. ASSUME NEW i \in 1..Len(bag), NEW j \in 1..Len(bag),
             bag[i].tag = "Execute", bag[j].tag = "Execute", bag[i].batch = bag[j].batch
      PROVE  i = j
  BY <1>1, <1>2, <1>3, <1>5 DEF Holding
<1>6. Holding(bag, more, status)
  BY <1>4, <1>5 DEF Holding
<1> QED BY <1>6 DEF bag

(* The first message leaves; if it is a batch, its status may change.      *)
LEMMA HoldingTail ==
    ASSUME NEW box \in Seq(Message), box # <<>>, NEW jobs, NEW more, NEW status,
           Holding(box, jobs, status),
           \A b \in Batches : more[b] = jobs[b] \/ (Head(box).tag = "Execute" /\ b = Head(box).batch)
    PROVE  Holding(Tail(box), more, status)
<1> DEFINE bag == Tail(box)
<1>1. /\ Len(box) \in Nat /\ Len(box) >= 1 /\ Len(bag) = Len(box) - 1 /\ Head(box) = box[1]
      /\ \A i \in 1..Len(bag) : bag[i] = box[i + 1]
  OBVIOUS
<1> HIDE DEF bag
<1>2. \A i \in 1..Len(bag) : i + 1 \in 1..Len(box) /\ i + 1 # 1 /\ box[i + 1] \in Message
  BY <1>1
<1>3. 1 \in 1..Len(box)
  BY <1>1
<1>4. ASSUME NEW i \in 1..Len(bag), bag[i].tag = "Execute"
      PROVE  more[bag[i].batch].st = status
  <2>1. bag[i].batch \in Batches /\ jobs[bag[i].batch].st = status
    BY <1>1, <1>2, <1>4, MessageBatch DEF Holding
  <2>2. ~(Head(box).tag = "Execute" /\ bag[i].batch = Head(box).batch)
    BY <1>1, <1>2, <1>3, <1>4 DEF Holding
  <2> QED BY <2>1, <2>2
<1>5. ASSUME NEW i \in 1..Len(bag), NEW j \in 1..Len(bag),
             bag[i].tag = "Execute", bag[j].tag = "Execute", bag[i].batch = bag[j].batch
      PROVE  i = j
  <2>1. i + 1 = j + 1
    BY <1>1, <1>2, <1>5 DEF Holding
  <2> QED BY <2>1, <1>1
<1>6. Holding(bag, more, status)
  BY <1>4, <1>5 DEF Holding
<1> QED BY <1>6 DEF bag

-----------------------------------------------------------------------------
(***************************************************************************)
(* The invariant behind NoStaleEngine.  `stale' is the last engine the     *)
(* current runner has forgotten; a batch's floor is the runner and the     *)
(* stale engine as its sender knew them.  The engine of the current runner *)
(* is fresher than stale, and so is the engine of a batch's floor runner,  *)
(* once that runner exists, than the engine of its floor.                  *)
(***************************************************************************)
Fresher(e, old) == e = 0 \/ e > old

BatchFloor(b) ==
    /\ job[b].cell \in Nat /\ job[b].eng \in Nat
    /\ floor[b].engine <= stale
    /\ floor[b].cell <= Len(cells) => Fresher(cells[floor[b].cell].engine, floor[b].engine)
    /\ job[b].st \in Active => job[b].cell # 0
    /\ job[b].st \in {"idle", "posted", "mail"} => job[b].cell = 0
    /\ job[b].cell # 0 => job[b].cell <= Len(cells) /\ floor[b].cell <= job[b].cell
    /\ job[b].eng # 0 => /\ job[b].cell # 0
                         /\ job[b].cell = floor[b].cell => job[b].eng > floor[b].engine

Floors ==
    /\ \E g : Ledger(g, inbox, Len(cells), 1 + poisons, floor)
    /\ \A i \in 1..Len(ctxbox) :
          ctxbox[i].tag = "Execute" => floor[ctxbox[i].batch].cell <= Len(cells)
    /\ stale <= Len(engines)
    /\ Len(cells) > 0 => Fresher(cells[Len(cells)].engine, stale)
    /\ \A b \in Batches : BatchFloor(b)

Mail == Holding(inbox, job, "posted") /\ Holding(ctxbox, job, "mail")

WorkerInv == Shapes /\ Mail /\ Floors

(* A step outside the two actors.                                          *)
LEMMA RunnerStepKeeps ==
    ASSUME WorkerInv, JobsTrack, RunnersTrack, UNCHANGED workerVars
    PROVE  WorkerInv'
<1>t. /\ cells \in Seq(Cell) /\ engines \in Seq(Engine) /\ inbox \in Seq(Message)
      /\ ctxbox \in Seq(Message) /\ stale \in Nat /\ floor \in [Batches -> Floor]
  BY DEF WorkerInv, Shapes
<1>u. /\ inbox' = inbox /\ ctxbox' = ctxbox /\ poisons' = poisons /\ floor' = floor
      /\ stale' = stale
  BY DEF workerVars
<1>r. /\ Len(cells') = Len(cells) /\ Len(engines) <= Len(engines') /\ Len(engines) \in Nat
      /\ cells' \in Seq(Cell) /\ Len(cells) \in Nat /\ Len(engines') \in Nat
      /\ \A i \in 1..Len(cells) :
            /\ cells[i].engine \in Nat /\ cells'[i].engine \in Nat
            /\ cells'[i].engine = cells[i].engine \/ cells'[i].engine > Len(engines)
  <2>1. /\ Len(cells') = Len(cells) /\ Len(engines) <= Len(engines')
        /\ cells' \in Seq(Cell) /\ engines' \in Seq(Engine)
        /\ \A i \in 1..Len(cells) : \/ cells'[i].engine = cells[i].engine
                                    \/ cells'[i].engine > Len(engines)
    BY DEF RunnersTrack
  <2>2. \A i \in 1..Len(cells) : cells[i].engine \in Nat /\ cells'[i].engine \in Nat
    BY <1>t, <2>1, CellType
  <2>3. Len(engines) \in Nat /\ Len(cells) \in Nat /\ Len(engines') \in Nat
    BY <1>t, <2>1
  <2> QED BY <2>1, <2>2, <2>3
<1>s. stale <= Len(engines)
  BY DEF WorkerInv, Floors
<1>1. Shapes'
  BY <1>u DEF WorkerInv, Shapes, JobsTrack, RunnersTrack
<1>2. Mail'
  <2>1. \A b \in Batches : /\ job[b].st = "posted" => job'[b].st = "posted"
                           /\ job[b].st = "mail" => job'[b].st = "mail"
    BY DEF JobsTrack, Tracks, Active
  <2> QED BY <2>1, <1>t, <1>u, HoldingKept DEF WorkerInv, Mail
<1>3. ASSUME NEW i \in 1..Len(cells), NEW old \in Nat, old <= stale, Fresher(cells[i].engine, old)
      PROVE  Fresher(cells'[i].engine, old)
  <2>1. /\ cells[i].engine \in Nat /\ cells'[i].engine \in Nat /\ Len(engines) \in Nat
        /\ cells'[i].engine = cells[i].engine \/ cells'[i].engine > Len(engines)
    BY <1>r
  <2>2. old <= Len(engines)
    BY <1>3, <1>s, <1>t, <2>1
  <2> QED BY <1>3, <2>1, <2>2 DEF Fresher
<1>4. ASSUME NEW b \in Batches PROVE BatchFloor(b)'
  <2>1. BatchFloor(b) /\ Tracks(b)
    BY DEF WorkerInv, Floors, JobsTrack
  <2>2. floor[b].cell \in Nat /\ floor[b].cell >= 1 /\ floor[b].engine \in Nat
    BY <1>t DEF Floor
  <2>3. job[b].cell # 0 => job[b].cell \in 1..Len(cells)
    BY <2>1, <1>r DEF BatchFloor
  <2>4. job'[b].eng \in Nat
    BY <2>1, <2>3, <1>r DEF BatchFloor, Tracks
  <2>5. floor[b].cell <= Len(cells) => Fresher(cells'[floor[b].cell].engine, floor[b].engine)
    <3> SUFFICES ASSUME floor[b].cell <= Len(cells)
                 PROVE  Fresher(cells'[floor[b].cell].engine, floor[b].engine)
      OBVIOUS
    <3>1. floor[b].cell \in 1..Len(cells)
      BY <2>2, <1>r
    <3> QED BY <3>1, <2>1, <2>2, <1>3 DEF BatchFloor
  <2>6. /\ job'[b].st \in Active => job'[b].cell # 0
        /\ job'[b].st \in {"idle", "posted", "mail"} => job'[b].cell = 0
    BY <2>1 DEF BatchFloor, Tracks, Active
  <2>7. job'[b].eng # 0 => /\ job'[b].cell # 0
                           /\ job'[b].cell = floor[b].cell => job'[b].eng > floor[b].engine
    <3>1. CASE job'[b].eng = job[b].eng \/ job'[b].eng = 0
      BY <2>1, <3>1 DEF BatchFloor, Tracks
    <3>2. CASE job[b].st \in Active /\ job'[b].eng = cells[job[b].cell].engine
      BY <2>1, <2>2, <3>2, <1>r DEF BatchFloor, Tracks, Fresher
    <3> QED BY <2>1, <3>1, <3>2 DEF Tracks
  <2> QED BY <2>1, <2>4, <2>5, <2>6, <2>7, <1>u, <1>r DEF BatchFloor, Tracks
<1>5. \E g : Ledger(g, inbox', Len(cells'), 1 + poisons', floor')
  BY <1>u, <1>r DEF WorkerInv, Floors
<1>6. Len(cells') > 0 => Fresher(cells'[Len(cells')].engine, stale')
  <2> SUFFICES ASSUME Len(cells) > 0 PROVE Fresher(cells'[Len(cells)].engine, stale)
    BY <1>r, <1>u
  <2>1. Len(cells) \in 1..Len(cells) /\ Fresher(cells[Len(cells)].engine, stale)
    BY <1>r DEF WorkerInv, Floors
  <2>2. stale \in Nat /\ stale <= stale
    BY <1>t
  <2> QED BY <2>1, <2>2, <1>3
<1>7. Floors'
  BY <1>4, <1>5, <1>6, <1>u, <1>r, <1>s, <1>t DEF WorkerInv, Floors
<1> QED BY <1>1, <1>2, <1>7 DEF WorkerInv

(* The ledger's ends.                                                      *)
LEMMA LedgerSpan ==
    ASSUME NEW box \in Seq(Message), NEW g, NEW now, NEW last, NEW floors,
           Ledger(g, box, now, last, floors)
    PROVE  now \in Nat /\ last \in Nat /\ now <= last
<1>1. Len(box) \in Nat /\ 0 \in 0..Len(box) /\ Len(box) \in 0..Len(box)
  OBVIOUS
<1> QED BY <1>1 DEF Ledger

(* The status of one batch changes.                                        *)
LEMMA StatusMoves ==
    ASSUME Jobs, NEW b \in Batches, NEW status, job' = [job EXCEPT ![b].st = status]
    PROVE  /\ Jobs' /\ job'[b].st = status
           /\ \A c \in Batches : job'[c].cell = job[c].cell /\ job'[c].eng = job[c].eng
           /\ \A c \in Batches \ {b} : job'[c] = job[c]
BY DEF Jobs, Shaped, Fields

(* The actors give a batch's floor no reason to fail: runners forget their *)
(* engines or are new, and a batch without a runner changes its status.    *)
RunnersForget ==
    /\ Len(cells) <= Len(cells')
    /\ \A i \in 1..Len(cells) : cells'[i].engine = cells[i].engine \/ cells'[i].engine = 0
    /\ \A i \in 1..Len(cells') : i > Len(cells) => cells'[i].engine = 0

(* Engines are only forgotten, so what a batch may run on is still what    *)
(* it was promised.                                                        *)
LEMMA FloorKept ==
    ASSUME Shapes, NEW b \in Batches, BatchFloor(b), cells' \in Seq(Cell), RunnersForget,
           stale <= stale', stale' \in Nat, floor'[b] = floor[b],
           job'[b].cell = job[b].cell, job'[b].eng = job[b].eng,
           \/ job'[b].st = job[b].st
           \/ job'[b].st = "closed"
           \/ job'[b].st \notin Active /\ job[b].cell = 0
    PROVE  BatchFloor(b)'
<1>t. /\ cells \in Seq(Cell) /\ stale \in Nat /\ floor[b] \in Floor
  BY DEF Shapes
<1>1. /\ Len(cells) \in Nat /\ Len(cells') \in Nat /\ Len(cells) <= Len(cells')
      /\ floor[b].cell \in Nat /\ floor[b].cell >= 1 /\ floor[b].engine \in Nat
  BY <1>t DEF RunnersForget, Floor
<1>2. floor[b].engine <= stale'
  BY <1>t, <1>1 DEF BatchFloor
<1>3. floor[b].cell <= Len(cells') => Fresher(cells'[floor[b].cell].engine, floor[b].engine)
  <2> SUFFICES ASSUME floor[b].cell <= Len(cells')
               PROVE  Fresher(cells'[floor[b].cell].engine, floor[b].engine)
    OBVIOUS
  <2>1. CASE floor[b].cell <= Len(cells)
    <3>1. floor[b].cell \in 1..Len(cells) /\ Fresher(cells[floor[b].cell].engine, floor[b].engine)
      BY <1>1, <2>1 DEF BatchFloor
    <3> QED BY <3>1 DEF RunnersForget, Fresher
  <2>2. CASE floor[b].cell > Len(cells)
    <3>1. floor[b].cell \in 1..Len(cells')
      BY <1>1
    <3> QED BY <3>1, <2>2 DEF RunnersForget, Fresher
  <2> QED BY <1>1, <2>1, <2>2
<1>4. /\ job'[b].st \in Active => job'[b].cell # 0
      /\ job'[b].st \in {"idle", "posted", "mail"} => job'[b].cell = 0
  BY DEF BatchFloor, Active
<1>5. job'[b].cell # 0 => job'[b].cell <= Len(cells') /\ floor[b].cell <= job'[b].cell
  BY <1>1 DEF BatchFloor
<1> QED BY <1>2, <1>3, <1>4, <1>5 DEF BatchFloor

(* No runner changes.                                                      *)
LEMMA RunnersIdle ==
    ASSUME Shapes, cells' = cells
    PROVE  cells' \in Seq(Cell) /\ RunnersForget
BY DEF Shapes, RunnersForget

(* A batch is sent.                                                        *)
LEMMA PostExecuteKeeps ==
    ASSUME WorkerInv, NEW b \in Batches, PostExecute(b)
    PROVE  WorkerInv'
<1> DEFINE m == [tag |-> "Execute", batch |-> b]
           f == [cell |-> 1 + poisons, engine |-> stale]
<1>t. /\ cells \in Seq(Cell) /\ inbox \in Seq(Message) /\ ctxbox \in Seq(Message)
      /\ stale \in Nat /\ poisons \in Nat /\ floor \in [Batches -> Floor] /\ Shapes /\ Jobs
  BY DEF WorkerInv, Shapes
<1>e. /\ job[b].st = "idle" /\ job' = [job EXCEPT ![b].st = "posted"]
      /\ inbox' = Append(inbox, m) /\ floor' = [floor EXCEPT ![b] = f]
      /\ cells' = cells /\ engines' = engines /\ ctxbox' = ctxbox /\ poisons' = poisons
      /\ stale' = stale
  BY DEF PostExecute
<1>j. /\ Jobs' /\ job'[b].st = "posted"
      /\ \A c \in Batches : job'[c].cell = job[c].cell /\ job'[c].eng = job[c].eng
      /\ \A c \in Batches \ {b} : job'[c] = job[c]
  BY <1>t, <1>e, StatusMoves
<1>m. m \in Message /\ m.tag = "Execute" /\ m.batch = b /\ ~Renews(m)
  BY DEF Message, Renews
<1>f. /\ f \in Floor /\ f.cell = 1 + poisons /\ f.engine = stale
      /\ floor'[b] = f /\ \A c \in Batches \ {b} : floor'[c] = floor[c]
      /\ floor' \in [Batches -> Floor]
  <2>1. f \in Floor /\ f.cell = 1 + poisons /\ f.engine = stale
    BY <1>t DEF Floor
  <2> HIDE DEF f
  <2> QED BY <2>1, <1>t, <1>e
<1> HIDE DEF m, f
<1>b. \A c \in Batches : BatchFloor(c)
  BY DEF WorkerInv, Floors
<1>h. Holding(inbox, job, "posted") /\ Holding(ctxbox, job, "mail")
  BY DEF WorkerInv, Mail
<1>1. Shapes'
  <2>1. inbox' \in Seq(Message)
    BY <1>t, <1>e, <1>m
  <2> QED BY <2>1, <1>t, <1>e, <1>j, <1>f DEF Shapes
<1>2. Mail'
  <2>1. Holding(inbox', job', "posted")
    <3>1. job[m.batch].st # "posted" /\ job'[m.batch].st = "posted"
      BY <1>e, <1>j, <1>m
    <3>2. \A c \in Batches \ {m.batch} : job'[c] = job[c]
      BY <1>j, <1>m
    <3>3. Holding(Append(inbox, m), job', "posted")
      BY <1>t, <1>m, <1>h, <3>1, <3>2, HoldingBatch
    <3> QED BY <3>3, <1>e
  <2>2. Holding(ctxbox, job', "mail")
    <3>1. \A c \in Batches : job[c].st = "mail" => job'[c].st = "mail"
      BY <1>e, <1>j
    <3> QED BY <3>1, <1>t, <1>h, HoldingKept
  <2> QED BY <2>1, <2>2, <1>e DEF Mail
<1>3. PICK g : Ledger(g, inbox, Len(cells), 1 + poisons, floor)
  BY DEF WorkerInv, Floors
<1>4. \E h : Ledger(h, inbox', Len(cells), 1 + poisons, floor')
  <2>1. ASSUME NEW i \in 1..Len(inbox), inbox[i].tag = "Execute"
        PROVE  floor'[inbox[i].batch].cell = floor[inbox[i].batch].cell
    <3>1. inbox[i].batch \in Batches /\ job[inbox[i].batch].st = "posted"
      BY <2>1, <1>t, <1>h, MessageBatch DEF Holding
    <3> QED BY <3>1, <1>e, <1>f
  <2>2. 1 + poisons = 1 + poisons + (IF Renews(m) THEN 1 ELSE 0)
    BY <1>m, <1>t
  <2>3. floor'[m.batch].cell <= 1 + poisons
    BY <1>m, <1>f, <1>t
  <2>4. \E h : Ledger(h, Append(inbox, m), Len(cells), 1 + poisons, floor')
    BY <1>3, <2>1, <2>2, <2>3, <1>m, <1>t, LedgerAppend
  <2> QED BY <2>4, <1>e
<1>5. ASSUME NEW i \in 1..Len(ctxbox), ctxbox[i].tag = "Execute"
      PROVE  floor'[ctxbox[i].batch].cell <= Len(cells)
  <2>1. ctxbox[i].batch \in Batches /\ job[ctxbox[i].batch].st = "mail"
    BY <1>5, <1>t, <1>h, MessageBatch DEF Holding
  <2>2. floor[ctxbox[i].batch].cell <= Len(cells)
    BY <1>5 DEF WorkerInv, Floors
  <2> QED BY <2>1, <2>2, <1>e, <1>f
<1>6. ASSUME NEW c \in Batches PROVE BatchFloor(c)'
  <2>1. CASE c # b
    <3>1. floor'[c] = floor[c] /\ job'[c] = job[c]
      BY <2>1, <1>f, <1>j
    <3>2. cells' \in Seq(Cell) /\ RunnersForget /\ stale <= stale' /\ stale' \in Nat
      BY <1>t, <1>e, RunnersIdle
    <3> QED BY <3>1, <3>2, <1>t, <1>b, FloorKept
  <2>2. CASE c = b
    <3>1. job'[b].cell = 0 /\ job'[b].eng = 0 /\ job'[b].st = "posted"
      BY <1>b, <1>e, <1>j DEF BatchFloor
    <3>2. Len(cells) \in Nat /\ Len(cells) <= 1 + poisons
      BY <1>3, <1>t, LedgerSpan
    <3>3. f.cell <= Len(cells) => Fresher(cells[f.cell].engine, stale)
      <4> SUFFICES ASSUME f.cell <= Len(cells) PROVE Fresher(cells[f.cell].engine, stale)
        OBVIOUS
      <4>1. f.cell = Len(cells) /\ Len(cells) > 0
        BY <3>2, <1>f, <1>t
      <4> QED BY <4>1 DEF WorkerInv, Floors
    <3> QED BY <2>2, <3>1, <3>3, <1>e, <1>f, <1>t DEF BatchFloor, Active
  <2> QED BY <2>1, <2>2
<1>7. Floors'
  <2>1. stale' <= Len(engines') /\ (Len(cells') > 0 => Fresher(cells'[Len(cells')].engine, stale'))
    BY <1>e DEF WorkerInv, Floors
  <2>2. \E h : Ledger(h, inbox', Len(cells'), 1 + poisons', floor')
    BY <1>4, <1>e
  <2>3. \A i \in 1..Len(ctxbox') :
            ctxbox'[i].tag = "Execute" => floor'[ctxbox'[i].batch].cell <= Len(cells')
    BY <1>5, <1>e
  <2> QED BY <2>1, <2>2, <2>3, <1>6 DEF Floors
<1> QED BY <1>1, <1>2, <1>7 DEF WorkerInv

(* What a step of the actors has to leave in order.                        *)
LEMMA ActorStep ==
    ASSUME WorkerInv, Jobs', Mail', cells' \in Seq(Cell), engines' = engines, floor' = floor,
           inbox' \in Seq(Message), ctxbox' \in Seq(Message), poisons' \in Nat, stale' \in Nat,
           stale' <= Len(engines),
           Len(cells') > 0 => Fresher(cells'[Len(cells')].engine, stale'),
           \E h : Ledger(h, inbox', Len(cells'), 1 + poisons', floor),
           \A i \in 1..Len(ctxbox') :
               ctxbox'[i].tag = "Execute" => floor[ctxbox'[i].batch].cell <= Len(cells'),
           \A b \in Batches : BatchFloor(b)'
    PROVE  WorkerInv'
<1>1. Shapes'
  BY DEF WorkerInv, Shapes
<1>2. Floors'
  BY DEF Floors
<1> QED BY <1>1, <1>2 DEF WorkerInv

(* ContextPoisoned is sent: one more runner will come.                     *)
LEMMA PostContextPoisonedKeeps ==
    ASSUME WorkerInv, PostContextPoisoned
    PROVE  WorkerInv'
<1> DEFINE m == [tag |-> "ContextPoisoned"]
<1>t. /\ cells \in Seq(Cell) /\ inbox \in Seq(Message) /\ ctxbox \in Seq(Message)
      /\ stale \in Nat /\ poisons \in Nat /\ Shapes /\ Jobs
  BY DEF WorkerInv, Shapes
<1>e. /\ inbox' = Append(inbox, m) /\ poisons' = poisons + 1 /\ job' = job /\ cells' = cells
      /\ engines' = engines /\ ctxbox' = ctxbox /\ floor' = floor /\ stale' = stale
  BY DEF PostContextPoisoned, runnerVars
<1>m. m \in Message /\ m.tag # "Execute" /\ Renews(m)
  BY DEF Message, Renews
<1> HIDE DEF m
<1>1. Mail'
  <2>1. Holding(Append(inbox, m), job, "posted")
    BY <1>t, <1>m, HoldingOther DEF WorkerInv, Mail
  <2> QED BY <2>1, <1>e DEF WorkerInv, Mail
<1>2. PICK g : Ledger(g, inbox, Len(cells), 1 + poisons, floor)
  BY DEF WorkerInv, Floors
<1>3. \E h : Ledger(h, inbox', Len(cells'), 1 + poisons', floor)
  <2>1. 1 + (poisons + 1) = 1 + poisons + (IF Renews(m) THEN 1 ELSE 0)
    BY <1>m, <1>t
  <2>2. \E h : Ledger(h, Append(inbox, m), Len(cells), 1 + (poisons + 1), floor)
    BY <1>2, <1>m, <1>t, <2>1, LedgerAppend
  <2> QED BY <2>2, <1>e
<1>4. \A b \in Batches : BatchFloor(b)'
  BY <1>e DEF WorkerInv, Floors, BatchFloor
<1>5. /\ inbox' \in Seq(Message) /\ poisons' \in Nat /\ Jobs'
  BY <1>e, <1>t, <1>m DEF Jobs, Shaped
<1>6. /\ stale' <= Len(engines)
      /\ Len(cells') > 0 => Fresher(cells'[Len(cells')].engine, stale')
      /\ \A i \in 1..Len(ctxbox') :
               ctxbox'[i].tag = "Execute" => floor[ctxbox'[i].batch].cell <= Len(cells')
  BY <1>e DEF WorkerInv, Floors
<1> QED BY <1>1, <1>3, <1>4, <1>5, <1>6, <1>e, <1>t, ActorStep

(* A rebuild is sent.                                                      *)
LEMMA PostRebuildKeeps ==
    ASSUME WorkerInv, NEW r \in Rebuilds, PostRebuild(r)
    PROVE  WorkerInv'
<1> DEFINE m == [tag |-> "RebuildSession", rebuild |-> r]
<1>t. /\ cells \in Seq(Cell) /\ inbox \in Seq(Message) /\ ctxbox \in Seq(Message)
      /\ stale \in Nat /\ poisons \in Nat /\ Shapes /\ Jobs
  BY DEF WorkerInv, Shapes
<1>e. /\ inbox' = Append(inbox, m) /\ poisons' = poisons /\ job' = job /\ cells' = cells
      /\ engines' = engines /\ ctxbox' = ctxbox /\ floor' = floor /\ stale' = stale
  BY DEF PostRebuild, runnerVars
<1>m. m \in Message /\ m.tag # "Execute" /\ ~Renews(m)
  BY DEF Message, Renews
<1> HIDE DEF m
<1>1. Mail'
  <2>1. Holding(Append(inbox, m), job, "posted")
    BY <1>t, <1>m, HoldingOther DEF WorkerInv, Mail
  <2> QED BY <2>1, <1>e DEF WorkerInv, Mail
<1>2. PICK g : Ledger(g, inbox, Len(cells), 1 + poisons, floor)
  BY DEF WorkerInv, Floors
<1>3. \E h : Ledger(h, inbox', Len(cells'), 1 + poisons', floor)
  <2>1. 1 + poisons = 1 + poisons + (IF Renews(m) THEN 1 ELSE 0)
    BY <1>m, <1>t
  <2>2. \E h : Ledger(h, Append(inbox, m), Len(cells), 1 + poisons, floor)
    BY <1>2, <1>m, <1>t, <2>1, LedgerAppend
  <2> QED BY <2>2, <1>e
<1>4. \A b \in Batches : BatchFloor(b)'
  BY <1>e DEF WorkerInv, Floors, BatchFloor
<1>5. /\ inbox' \in Seq(Message) /\ poisons' \in Nat /\ Jobs'
  BY <1>e, <1>t, <1>m DEF Jobs, Shaped
<1>6. /\ stale' <= Len(engines)
      /\ Len(cells') > 0 => Fresher(cells'[Len(cells')].engine, stale')
      /\ \A i \in 1..Len(ctxbox') :
               ctxbox'[i].tag = "Execute" => floor[ctxbox'[i].batch].cell <= Len(cells')
  BY <1>e DEF WorkerInv, Floors
<1> QED BY <1>1, <1>3, <1>4, <1>5, <1>6, <1>e, <1>t, ActorStep

(* A new runner, without an engine, comes after the old ones.              *)
LEMMA RunnerComes ==
    ASSUME Shapes, cells' = Append(cells, [lock |-> Free, engine |-> 0]), stale' \in Nat
    PROVE  /\ cells' \in Seq(Cell) /\ RunnersForget /\ Len(cells') = Len(cells) + 1
           /\ Fresher(cells'[Len(cells')].engine, stale')
<1> DEFINE new == [lock |-> Free, engine |-> 0]
<1>t. cells \in Seq(Cell) /\ Len(cells) \in Nat
  BY DEF Shapes
<1>1. new \in Cell /\ new.engine = 0
  BY DEF Cell, Locks
<1>e. cells' = Append(cells, new)
  OBVIOUS
<1> HIDE DEF new
<1>2. /\ cells' \in Seq(Cell) /\ Len(cells') = Len(cells) + 1 /\ cells'[Len(cells) + 1] = new
      /\ \A i \in 1..Len(cells) : cells'[i] = cells[i]
  BY <1>t, <1>1, <1>e
<1>3. \A i \in 1..Len(cells') : i > Len(cells) => cells'[i].engine = 0
  BY <1>t, <1>1, <1>2
<1> QED BY <1>t, <1>1, <1>2, <1>3 DEF RunnersForget, Fresher

(* The first runner.                                                       *)
LEMMA PreStartKeeps ==
    ASSUME WorkerInv, inbox # <<>>, PreStart
    PROVE  WorkerInv'
<1>t. /\ cells \in Seq(Cell) /\ inbox \in Seq(Message) /\ ctxbox \in Seq(Message)
      /\ stale \in Nat /\ poisons \in Nat /\ Shapes /\ Jobs /\ floor \in [Batches -> Floor]
  BY DEF WorkerInv, Shapes
<1>e. /\ inbox' = Tail(inbox) /\ poisons' = poisons /\ job' = job
      /\ engines' = engines /\ ctxbox' = ctxbox /\ floor' = floor /\ stale' = stale
      /\ cells' = Append(cells, [lock |-> Free, engine |-> 0]) /\ Head(inbox).tag = "start"
  BY DEF PreStart, SpawnChild
<1>r. /\ cells' \in Seq(Cell) /\ RunnersForget /\ Len(cells') = Len(cells) + 1
      /\ Fresher(cells'[Len(cells')].engine, stale')
  BY <1>t, <1>e, RunnerComes
<1>1. Mail'
  <2>1. Holding(Tail(inbox), job, "posted")
    BY <1>t, HoldingTail DEF WorkerInv, Mail
  <2> QED BY <2>1, <1>e DEF WorkerInv, Mail
<1>2. PICK g : Ledger(g, inbox, Len(cells), 1 + poisons, floor)
  BY DEF WorkerInv, Floors
<1>3. \E h : Ledger(h, inbox', Len(cells'), 1 + poisons', floor)
  <2>1. Len(cells) + (IF Renews(Head(inbox)) THEN 1 ELSE 0) = Len(cells')
    BY <1>e, <1>r DEF Renews
  <2>2. \E h : Ledger(h, Tail(inbox), Len(cells) + (IF Renews(Head(inbox)) THEN 1 ELSE 0),
                      1 + poisons, floor)
    BY <1>2, <1>t, LedgerTail
  <2> QED BY <2>1, <2>2, <1>e
<1>4. ASSUME NEW b \in Batches PROVE BatchFloor(b)'
  <2>1. BatchFloor(b) /\ stale <= stale' /\ stale' \in Nat /\ floor'[b] = floor[b]
        /\ job'[b] = job[b]
    BY <1>e, <1>t DEF WorkerInv, Floors
  <2> QED BY <2>1, <1>r, <1>t, FloorKept
<1>5. /\ inbox' \in Seq(Message) /\ Jobs'
  BY <1>e, <1>t DEF Jobs, Shaped
<1>6. stale' <= Len(engines)
  BY <1>e DEF WorkerInv, Floors
<1>7. ASSUME NEW i \in 1..Len(ctxbox), ctxbox[i].tag = "Execute"
      PROVE  floor[ctxbox[i].batch].cell <= Len(cells')
  <2>0. ctxbox[i] \in Message
    BY <1>t
  <2>1. ctxbox[i].batch \in Batches /\ floor[ctxbox[i].batch].cell <= Len(cells)
    BY <2>0, <1>7, MessageBatch DEF WorkerInv, Floors
  <2>2. floor[ctxbox[i].batch].cell \in Nat /\ Len(cells) \in Nat
    BY <2>1, <1>t DEF Floor
  <2> QED BY <2>1, <2>2, <1>r
<1> QED BY <1>1, <1>3, <1>4, <1>5, <1>6, <1>7, <1>e, <1>r, <1>t, ActorStep

(* A batch is forwarded to the child, or dropped without one.              *)
LEMMA HandleExecuteKeeps ==
    ASSUME WorkerInv, inbox # <<>>, HandleExecute
    PROVE  WorkerInv'
<1> DEFINE m == Head(inbox)
           b == m.batch
<1>t. /\ cells \in Seq(Cell) /\ inbox \in Seq(Message) /\ ctxbox \in Seq(Message)
      /\ stale \in Nat /\ poisons \in Nat /\ Shapes /\ Jobs /\ floor \in [Batches -> Floor]
  BY DEF WorkerInv, Shapes
<1>e. /\ inbox' = Tail(inbox) /\ poisons' = poisons /\ cells' = cells
      /\ engines' = engines /\ floor' = floor /\ stale' = stale /\ m.tag = "Execute"
  BY DEF HandleExecute
<1>f. \/ ctxbox' = Append(ctxbox, m) /\ job' = [job EXCEPT ![b].st = "mail"]
      \/ ctxbox' = ctxbox /\ job' = [job EXCEPT ![b].st = "closed"]
  BY DEF HandleExecute
<1>h. Holding(inbox, job, "posted") /\ Holding(ctxbox, job, "mail")
  BY DEF WorkerInv, Mail
<1>m. m \in Message /\ b \in Batches /\ job[b].st = "posted" /\ ~Renews(m)
  <2>1. Len(inbox) \in Nat /\ 1 \in 1..Len(inbox) /\ m = inbox[1] /\ m \in Message
    BY <1>t
  <2>2. job[b].st = "posted"
    BY <2>1, <1>e, <1>h DEF Holding
  <2> QED BY <2>1, <2>2, <1>e, MessageBatch DEF Renews
<1>n. inbox' \in Seq(Message)
  BY <1>e, <1>t
<1> HIDE DEF m, b
<1>j. /\ Jobs' /\ job'[b].st = (IF ctxbox' = ctxbox THEN "closed" ELSE "mail")
      /\ \A c \in Batches : job'[c].cell = job[c].cell /\ job'[c].eng = job[c].eng
      /\ \A c \in Batches \ {b} : job'[c] = job[c]
      /\ ctxbox' = Append(ctxbox, m) \/ ctxbox' = ctxbox
  <2>1. CASE ctxbox' = Append(ctxbox, m) /\ job' = [job EXCEPT ![b].st = "mail"]
    <3>1. ctxbox' # ctxbox
      BY <2>1, <1>t, <1>m
    <3> QED BY <2>1, <3>1, <1>m, <1>t, StatusMoves
  <2>2. CASE ctxbox' = ctxbox /\ job' = [job EXCEPT ![b].st = "closed"]
    BY <2>2, <1>m, <1>t, StatusMoves
  <2> QED BY <2>1, <2>2, <1>f
<1>1. Mail' /\ ctxbox' \in Seq(Message)
  <2>1. Holding(Tail(inbox), job', "posted")
    <3>1. \A c \in Batches : job'[c] = job[c] \/ (Head(inbox).tag = "Execute" /\ c = Head(inbox).batch)
      BY <1>j, <1>e DEF m, b
    <3> QED BY <3>1, <1>t, <1>h, HoldingTail
  <2>2. CASE ctxbox' = ctxbox
    <3>1. \A c \in Batches : job[c].st = "mail" => job'[c].st = "mail"
      BY <1>j, <1>m
    <3>2. Holding(ctxbox, job', "mail")
      BY <3>1, <1>t, <1>h, HoldingKept
    <3> QED BY <2>1, <2>2, <3>2, <1>e, <1>t DEF Mail
  <2>3. CASE ctxbox' # ctxbox
    <3>1. ctxbox' = Append(ctxbox, m) /\ m.tag = "Execute" /\ job'[m.batch].st = "mail"
          /\ job[m.batch].st # "mail"
      BY <2>3, <1>j, <1>e, <1>m DEF b
    <3>2. \A c \in Batches \ {m.batch} : job'[c] = job[c]
      BY <1>j DEF b
    <3>3. Holding(Append(ctxbox, m), job', "mail")
      BY <3>1, <3>2, <1>t, <1>h, <1>m, HoldingBatch
    <3>4. ctxbox' \in Seq(Message)
      BY <3>1, <1>t, <1>m
    <3> QED BY <2>1, <3>1, <3>3, <3>4, <1>e DEF Mail
  <2> QED BY <2>2, <2>3
<1>2. PICK g : Ledger(g, inbox, Len(cells), 1 + poisons, floor)
  BY DEF WorkerInv, Floors
<1>3. \E h : Ledger(h, inbox', Len(cells'), 1 + poisons', floor)
  <2>1. Len(cells) + (IF Renews(Head(inbox)) THEN 1 ELSE 0) = Len(cells')
    BY <1>e, <1>m, <1>t DEF m
  <2>2. \E h : Ledger(h, Tail(inbox), Len(cells) + (IF Renews(Head(inbox)) THEN 1 ELSE 0),
                      1 + poisons, floor)
    BY <1>2, <1>t, LedgerTail
  <2> QED BY <2>1, <2>2, <1>e
<1>4. ASSUME NEW c \in Batches PROVE BatchFloor(c)'
  <2>1. BatchFloor(c) /\ stale <= stale' /\ stale' \in Nat /\ floor'[c] = floor[c]
        /\ job'[c].cell = job[c].cell /\ job'[c].eng = job[c].eng
    BY <1>e, <1>t, <1>j DEF WorkerInv, Floors
  <2>2. job'[c].st = job[c].st \/ job'[c].st = "closed"
        \/ (job'[c].st \notin Active /\ job[c].cell = 0)
    BY <2>1, <1>j, <1>m DEF BatchFloor, Active
  <2>3. cells' \in Seq(Cell) /\ RunnersForget
    BY <1>t, <1>e, RunnersIdle
  <2> QED BY <2>1, <2>2, <2>3, <1>t, FloorKept
<1>5. floor[b].cell <= Len(cells)
  <2>1. Head(inbox).tag = "Execute" => floor[Head(inbox).batch].cell <= Len(cells)
    BY <1>2, <1>t, LedgerTail
  <2> QED BY <2>1, <1>e DEF m, b
<1>6. ASSUME NEW i \in 1..Len(ctxbox'), ctxbox'[i].tag = "Execute"
      PROVE  floor[ctxbox'[i].batch].cell <= Len(cells')
  <2>1. CASE i \in 1..Len(ctxbox) /\ ctxbox'[i] = ctxbox[i]
    BY <2>1, <1>6, <1>e DEF WorkerInv, Floors
  <2>2. CASE ctxbox'[i] = m
    BY <2>2, <1>5, <1>e DEF b
  <2>3. (i \in 1..Len(ctxbox) /\ ctxbox'[i] = ctxbox[i]) \/ ctxbox'[i] = m
    <3>1. CASE ctxbox' = Append(ctxbox, m)
      BY <3>1, <1>t, <1>m
    <3>2. CASE ctxbox' = ctxbox
      BY <3>2
    <3> QED BY <3>1, <3>2, <1>j
  <2> QED BY <2>1, <2>2, <2>3
<1>7. /\ stale' <= Len(engines)
      /\ Len(cells') > 0 => Fresher(cells'[Len(cells')].engine, stale')
  BY <1>e DEF WorkerInv, Floors
<1> QED BY <1>1, <1>3, <1>4, <1>6, <1>7, <1>j, <1>n, <1>e, <1>t, ActorStep

(* A poisoned context: the child's mailbox goes with it, a new runner      *)
(* comes.                                                                  *)
LEMMA HandlePoisonedKeeps ==
    ASSUME WorkerInv, inbox # <<>>, HandlePoisoned
    PROVE  WorkerInv'
<1>t. /\ cells \in Seq(Cell) /\ inbox \in Seq(Message) /\ ctxbox \in Seq(Message)
      /\ stale \in Nat /\ poisons \in Nat /\ Shapes /\ Jobs /\ floor \in [Batches -> Floor]
  BY DEF WorkerInv, Shapes
<1>e. /\ inbox' = Tail(inbox) /\ poisons' = poisons /\ ctxbox' = <<>>
      /\ engines' = engines /\ floor' = floor /\ stale' = stale
      /\ cells' = Append(cells, [lock |-> Free, engine |-> 0])
      /\ Head(inbox).tag = "ContextPoisoned"
      /\ job' = [b \in Batches |-> IF b \in MailedBatches(ctxbox)
                                   THEN [job[b] EXCEPT !.st = "closed"] ELSE job[b]]
  BY DEF HandlePoisoned, SpawnChild
<1>h. Holding(inbox, job, "posted") /\ Holding(ctxbox, job, "mail")
  BY DEF WorkerInv, Mail
<1>m. ASSUME NEW b \in MailedBatches(ctxbox) PROVE b \in Batches /\ job[b].st = "mail"
  <2>1. PICK i \in 1..Len(ctxbox) : ctxbox[i].tag = "Execute" /\ b = ctxbox[i].batch
    BY DEF MailedBatches, Mailed
  <2>2. ctxbox[i] \in Message
    BY <1>t
  <2> QED BY <2>1, <2>2, <1>h, MessageBatch DEF Holding
<1>j. /\ Jobs'
      /\ \A c \in Batches : /\ job'[c].cell = job[c].cell /\ job'[c].eng = job[c].eng
                            /\ job'[c] = job[c] \/ (job[c].st = "mail" /\ job'[c].st = "closed")
  <2>1. job' = [c \in Batches |-> job'[c]]
    BY <1>e
  <2>2. ASSUME NEW c \in Batches
        PROVE  /\ Shaped(job'[c])
               /\ job'[c].cell = job[c].cell /\ job'[c].eng = job[c].eng
               /\ job'[c] = job[c] \/ (job[c].st = "mail" /\ job'[c].st = "closed")
    <3>0. Shaped(job[c])
      BY <1>t DEF Jobs
    <3>1. CASE c \in MailedBatches(ctxbox)
      <4>1. job'[c] = [job[c] EXCEPT !.st = "closed"] /\ job[c].st = "mail"
        BY <3>1, <1>e, <1>m
      <4> QED BY <4>1, <3>0 DEF Shaped, Fields
    <3>2. CASE c \notin MailedBatches(ctxbox)
      BY <3>0, <3>2, <1>e
    <3> QED BY <3>1, <3>2
  <2> QED BY <2>1, <2>2 DEF Jobs
<1>r. /\ cells' \in Seq(Cell) /\ RunnersForget /\ Len(cells') = Len(cells) + 1
      /\ Fresher(cells'[Len(cells')].engine, stale')
  BY <1>t, <1>e, RunnerComes
<1>1. Mail'
  <2>1. Holding(Tail(inbox), job, "posted")
    BY <1>t, <1>h, HoldingTail
  <2>2. Holding(Tail(inbox), job', "posted")
    <3>1. Tail(inbox) \in Seq(Message)
      BY <1>t
    <3>2. \A c \in Batches : job[c].st = "posted" => job'[c].st = "posted"
      BY <1>j
    <3> QED BY <2>1, <3>1, <3>2, HoldingKept
  <2>3. Holding(<<>>, job', "mail")
    BY DEF Holding
  <2> QED BY <2>2, <2>3, <1>e DEF Mail
<1>2. PICK g : Ledger(g, inbox, Len(cells), 1 + poisons, floor)
  BY DEF WorkerInv, Floors
<1>3. \E h : Ledger(h, inbox', Len(cells'), 1 + poisons', floor)
  <2>1. Len(cells) + (IF Renews(Head(inbox)) THEN 1 ELSE 0) = Len(cells')
    BY <1>e, <1>r DEF Renews
  <2>2. \E h : Ledger(h, Tail(inbox), Len(cells) + (IF Renews(Head(inbox)) THEN 1 ELSE 0),
                      1 + poisons, floor)
    BY <1>2, <1>t, LedgerTail
  <2> QED BY <2>1, <2>2, <1>e
<1>4. ASSUME NEW b \in Batches PROVE BatchFloor(b)'
  <2>1. BatchFloor(b) /\ stale <= stale' /\ stale' \in Nat /\ floor'[b] = floor[b]
    BY <1>e, <1>t DEF WorkerInv, Floors
  <2>2. /\ job'[b].cell = job[b].cell /\ job'[b].eng = job[b].eng
        /\ job'[b].st = job[b].st \/ job'[b].st = "closed"
    BY <1>j
  <2> QED BY <2>1, <2>2, <1>r, <1>t, FloorKept
<1>5. inbox' \in Seq(Message) /\ ctxbox' \in Seq(Message) /\ Len(ctxbox') = 0
  BY <1>e, <1>t
<1>6. stale' <= Len(engines)
  BY <1>e DEF WorkerInv, Floors
<1>7. \A i \in 1..Len(ctxbox') :
          ctxbox'[i].tag = "Execute" => floor[ctxbox'[i].batch].cell <= Len(cells')
  BY <1>5
<1> QED BY <1>1, <1>3, <1>4, <1>5, <1>6, <1>7, <1>j, <1>e, <1>r, <1>t, ActorStep

(* A rebuild is forwarded to the child, or refused without one.            *)
LEMMA HandleRebuildKeeps ==
    ASSUME WorkerInv, inbox # <<>>, HandleRebuild
    PROVE  WorkerInv'
<1> DEFINE m == Head(inbox)
<1>t. /\ cells \in Seq(Cell) /\ inbox \in Seq(Message) /\ ctxbox \in Seq(Message)
      /\ stale \in Nat /\ poisons \in Nat /\ Shapes /\ Jobs /\ floor \in [Batches -> Floor]
  BY DEF WorkerInv, Shapes
<1>e. /\ inbox' = Tail(inbox) /\ poisons' = poisons /\ cells' = cells /\ job' = job
      /\ engines' = engines /\ floor' = floor /\ stale' = stale /\ m.tag = "RebuildSession"
      /\ ctxbox' = Append(ctxbox, m) \/ ctxbox' = ctxbox
  BY DEF HandleRebuild, runnerVars
<1>h. Holding(inbox, job, "posted") /\ Holding(ctxbox, job, "mail")
  BY DEF WorkerInv, Mail
<1>m. m \in Message /\ ~Renews(m) /\ m.tag # "Execute"
  BY <1>e, <1>t DEF Renews
<1>n. inbox' \in Seq(Message)
  BY <1>e, <1>t
<1> HIDE DEF m
<1>1. Mail'
  <2>1. Holding(Tail(inbox), job, "posted")
    BY <1>t, <1>h, HoldingTail
  <2>2. Holding(Append(ctxbox, m), job, "mail")
    BY <1>t, <1>h, <1>m, HoldingOther
  <2> QED BY <2>1, <2>2, <1>h, <1>e DEF Mail
<1>2. PICK g : Ledger(g, inbox, Len(cells), 1 + poisons, floor)
  BY DEF WorkerInv, Floors
<1>3. \E h : Ledger(h, inbox', Len(cells'), 1 + poisons', floor)
  <2>1. Len(cells) + (IF Renews(Head(inbox)) THEN 1 ELSE 0) = Len(cells')
    BY <1>e, <1>m, <1>t DEF m
  <2>2. \E h : Ledger(h, Tail(inbox), Len(cells) + (IF Renews(Head(inbox)) THEN 1 ELSE 0),
                      1 + poisons, floor)
    BY <1>2, <1>t, LedgerTail
  <2> QED BY <2>1, <2>2, <1>e
<1>4. \A b \in Batches : BatchFloor(b)'
  BY <1>e DEF WorkerInv, Floors, BatchFloor
<1>a. /\ Append(ctxbox, m) \in Seq(Message) /\ Len(Append(ctxbox, m)) = Len(ctxbox) + 1
      /\ Append(ctxbox, m)[Len(ctxbox) + 1] = m /\ Len(ctxbox) \in Nat
      /\ \A i \in 1..Len(ctxbox) : Append(ctxbox, m)[i] = ctxbox[i]
  BY <1>m, <1>t
<1>5. ctxbox' \in Seq(Message) /\ Jobs'
  <2>1. ctxbox' \in Seq(Message)
    BY <1>a, <1>e, <1>t
  <2>2. Jobs'
    BY <1>e, <1>t DEF Jobs, Shaped
  <2> QED BY <2>1, <2>2
<1>6. ASSUME NEW i \in 1..Len(ctxbox'), ctxbox'[i].tag = "Execute"
      PROVE  floor[ctxbox'[i].batch].cell <= Len(cells')
  <2>1. i \in 1..Len(ctxbox) /\ ctxbox'[i] = ctxbox[i]
    <3>1. CASE ctxbox' = ctxbox
      BY <3>1
    <3>2. CASE ctxbox' = Append(ctxbox, m)
      <4>1. i # Len(ctxbox) + 1
        BY <3>2, <1>6, <1>a, <1>m
      <4>2. i \in 1..Len(ctxbox)
        BY <3>2, <4>1, <1>a
      <4> QED BY <3>2, <4>2, <1>a
    <3> QED BY <3>1, <3>2, <1>e
  <2> QED BY <2>1, <1>6, <1>e DEF WorkerInv, Floors
<1>7. /\ stale' <= Len(engines)
      /\ Len(cells') > 0 => Fresher(cells'[Len(cells')].engine, stale')
  BY <1>e DEF WorkerInv, Floors
<1> QED BY <1>1, <1>3, <1>4, <1>5, <1>6, <1>7, <1>n, <1>e, <1>t, ActorStep

(* The child starts a task for a batch: it gets the runner of its turn.    *)
LEMMA ContextExecuteKeeps ==
    ASSUME WorkerInv, ContextStep, ContextExecute
    PROVE  WorkerInv'
<1> DEFINE m == Head(ctxbox)
           b == m.batch
<1>t. /\ cells \in Seq(Cell) /\ inbox \in Seq(Message) /\ ctxbox \in Seq(Message)
      /\ stale \in Nat /\ poisons \in Nat /\ Shapes /\ Jobs /\ floor \in [Batches -> Floor]
  BY DEF WorkerInv, Shapes
<1>e. /\ ctxbox # <<>> /\ ctxbox' = Tail(ctxbox) /\ inbox' = inbox /\ poisons' = poisons
      /\ cells' = cells /\ engines' = engines /\ floor' = floor /\ stale' = stale
      /\ m.tag = "Execute"
  BY DEF ContextStep, ContextExecute
<1>f. job' = [job EXCEPT ![b].st = "waiting", ![b].cell = Len(cells)]
  BY DEF ContextExecute
<1>h. Holding(inbox, job, "posted") /\ Holding(ctxbox, job, "mail")
  BY DEF WorkerInv, Mail
<1>m. /\ m \in Message /\ b \in Batches /\ job[b].st = "mail" /\ floor[b].cell <= Len(cells)
      /\ ctxbox' \in Seq(Message) /\ Len(ctxbox') = Len(ctxbox) - 1 /\ Len(ctxbox) \in Nat
      /\ \A i \in 1..Len(ctxbox') : ctxbox'[i] = ctxbox[i + 1]
  <2>1. /\ Len(ctxbox) \in Nat /\ 1 \in 1..Len(ctxbox) /\ m = ctxbox[1] /\ m \in Message
        /\ ctxbox' \in Seq(Message) /\ Len(ctxbox') = Len(ctxbox) - 1
        /\ \A i \in 1..Len(ctxbox') : ctxbox'[i] = ctxbox[i + 1]
    BY <1>t, <1>e
  <2>2. job[b].st = "mail" /\ floor[b].cell <= Len(cells)
    BY <2>1, <1>e, <1>h DEF Holding, WorkerInv, Floors
  <2> QED BY <2>1, <2>2, <1>e, MessageBatch
<1> HIDE DEF m, b
<1>j. /\ job' = [c \in Batches |-> job'[c]] /\ \A c \in Batches \ {b} : job'[c] = job[c]
      /\ job'[b].st = "waiting" /\ job'[b].cell = Len(cells) /\ job'[b].eng = job[b].eng
  <2>1. job' = [c \in Batches |-> job'[c]] /\ \A c \in Batches \ {b} : job'[c] = job[c]
    BY <1>t, <1>f DEF Jobs
  <2>r. job'[b] = [job[b] EXCEPT !.st = "waiting", !.cell = Len(cells)] /\ Shaped(job[b])
    BY <1>t, <1>f, <1>m DEF Jobs
  <2>2. job'[b].st = "waiting" /\ job'[b].cell = Len(cells) /\ job'[b].eng = job[b].eng
    BY <2>r DEF Shaped, Fields
  <2> QED BY <2>1, <2>2
<1>k. Jobs'
  <2>1. Shaped(job'[b])
    BY <1>t, <1>f, <1>m DEF Jobs, Shaped, Fields
  <2> QED BY <2>1, <1>j, <1>t DEF Jobs, Shaped
<1>1. Mail'
  <2>1. Holding(Tail(ctxbox), job', "mail")
    <3>1. \A c \in Batches : job'[c] = job[c] \/ (Head(ctxbox).tag = "Execute" /\ c = Head(ctxbox).batch)
      BY <1>j, <1>e DEF m, b
    <3> QED BY <3>1, <1>e, <1>t, <1>h, HoldingTail
  <2>2. Holding(inbox, job', "posted")
    <3>1. \A c \in Batches : job[c].st = "posted" => job'[c].st = "posted"
      BY <1>j, <1>m
    <3> QED BY <3>1, <1>t, <1>h, HoldingKept
  <2> QED BY <2>1, <2>2, <1>e DEF Mail
<1>2. ASSUME NEW c \in Batches PROVE BatchFloor(c)'
  <2>0. BatchFloor(c)
    BY DEF WorkerInv, Floors
  <2>1. CASE c # b
    <3>1. job'[c] = job[c]
      BY <2>1, <1>j
    <3> QED BY <2>0, <3>1, <1>e DEF BatchFloor
  <2>2. CASE c = b
    <3>1. job[b].cell = 0 /\ job[b].eng = 0
      BY <2>0, <2>2, <1>m DEF BatchFloor
    <3>2. floor[b].cell \in Nat /\ floor[b].cell >= 1 /\ Len(cells) \in Nat
      BY <1>t, <1>m DEF Floor
    <3> QED BY <2>0, <2>2, <3>1, <3>2, <1>e, <1>j, <1>m DEF BatchFloor, Active
  <2> QED BY <2>1, <2>2
<1>3. ASSUME NEW i \in 1..Len(ctxbox'), ctxbox'[i].tag = "Execute"
      PROVE  floor[ctxbox'[i].batch].cell <= Len(cells')
  <2>1. i + 1 \in 1..Len(ctxbox) /\ ctxbox'[i] = ctxbox[i + 1]
    BY <1>m
  <2> QED BY <2>1, <1>3, <1>e DEF WorkerInv, Floors
<1>4. /\ stale' <= Len(engines)
      /\ Len(cells') > 0 => Fresher(cells'[Len(cells')].engine, stale')
      /\ \E h : Ledger(h, inbox', Len(cells'), 1 + poisons', floor)
  BY <1>e DEF WorkerInv, Floors
<1> QED BY <1>1, <1>2, <1>3, <1>4, <1>k, <1>m, <1>e, <1>t, ActorStep

(* The child starts a task for a rebuild.                                  *)
LEMMA ContextRebuildKeeps ==
    ASSUME WorkerInv, ContextStep, ContextRebuild
    PROVE  WorkerInv'
<1>t. /\ cells \in Seq(Cell) /\ inbox \in Seq(Message) /\ ctxbox \in Seq(Message)
      /\ stale \in Nat /\ poisons \in Nat /\ Shapes /\ Jobs
  BY DEF WorkerInv, Shapes
<1>e. /\ ctxbox # <<>> /\ ctxbox' = Tail(ctxbox) /\ inbox' = inbox /\ poisons' = poisons
      /\ cells' = cells /\ engines' = engines /\ floor' = floor /\ stale' = stale /\ job' = job
  BY DEF ContextStep, ContextRebuild
<1>m. /\ ctxbox' \in Seq(Message) /\ Len(ctxbox') = Len(ctxbox) - 1 /\ Len(ctxbox) \in Nat
      /\ \A i \in 1..Len(ctxbox') : ctxbox'[i] = ctxbox[i + 1]
  BY <1>t, <1>e
<1>1. Mail'
  <2>1. Holding(Tail(ctxbox), job, "mail")
    BY <1>e, <1>t, HoldingTail DEF WorkerInv, Mail
  <2> QED BY <2>1, <1>e DEF WorkerInv, Mail
<1>2. \A b \in Batches : BatchFloor(b)'
  BY <1>e DEF WorkerInv, Floors, BatchFloor
<1>3. ASSUME NEW i \in 1..Len(ctxbox'), ctxbox'[i].tag = "Execute"
      PROVE  floor[ctxbox'[i].batch].cell <= Len(cells')
  <2>1. i + 1 \in 1..Len(ctxbox) /\ ctxbox'[i] = ctxbox[i + 1]
    BY <1>m
  <2> QED BY <2>1, <1>3, <1>e DEF WorkerInv, Floors
<1>4. /\ stale' <= Len(engines)
      /\ Len(cells') > 0 => Fresher(cells'[Len(cells')].engine, stale')
      /\ \E h : Ledger(h, inbox', Len(cells'), 1 + poisons', floor)
  BY <1>e DEF WorkerInv, Floors
<1>5. Jobs'
  BY <1>e, <1>t DEF Jobs, Shaped
<1> QED BY <1>1, <1>2, <1>3, <1>4, <1>5, <1>m, <1>e, <1>t, ActorStep

(* A rebuild is done: the runner has forgotten its engine, if the runtime  *)
(* does so for this cause, and its sender is told only then.               *)
LEMMA RebuildDoneKeeps ==
    ASSUME WorkerInv, NEW r \in Rebuilds, RebuildTask(r)
    PROVE  WorkerInv'
<1> DEFINE c == rebuild[r].cell
<1>p. PICK cause \in Causes :
        LET clears == RebuildClears(kind, cause)
        IN  /\ cells' = IF clears THEN [cells EXCEPT ![c].engine = 0] ELSE cells
            /\ stale' = IF clears /\ c = Len(cells) THEN Len(engines) ELSE stale
  BY DEF RebuildTask
<1> DEFINE clears == RebuildClears(kind, cause)
<1>t. /\ cells \in Seq(Cell) /\ inbox \in Seq(Message) /\ ctxbox \in Seq(Message)
      /\ engines \in Seq(Engine) /\ stale \in Nat /\ poisons \in Nat /\ Shapes /\ Jobs
  BY DEF WorkerInv, Shapes
<1>e. /\ ctxbox' = ctxbox /\ inbox' = inbox /\ poisons' = poisons
      /\ engines' = engines /\ floor' = floor /\ job' = job
      /\ stale' = IF clears /\ c = Len(cells) THEN Len(engines) ELSE stale
  BY <1>p DEF RebuildTask
<1>f. cells' = IF clears THEN [cells EXCEPT ![c].engine = 0] ELSE cells
  BY <1>p
<1> HIDE DEF c, clears
<1>g. clears => Reengined(cells, cells', c, 0)
  <2>1. clears => cells' = [cells EXCEPT ![c].engine = 0]
    BY <1>f
  <2> QED BY <2>1, <1>t, CellEngine
<1>r. /\ cells' \in Seq(Cell) /\ Len(cells') = Len(cells) /\ Len(cells) \in Nat
      /\ \A i \in 1..Len(cells) :
            cells'[i].engine = IF clears /\ i = c THEN 0 ELSE cells[i].engine
  <2>1. CASE clears
    BY <2>1, <1>g, <1>t DEF Reengined
  <2>2. CASE ~clears
    BY <2>2, <1>f, <1>t
  <2> QED BY <2>1, <2>2
<1>s. stale <= Len(engines) /\ Len(engines) \in Nat
  BY <1>t DEF WorkerInv, Floors
<1>n. stale' \in Nat /\ stale <= stale' /\ stale' <= Len(engines)
  BY <1>e, <1>s, <1>t
<1>1. Mail'
  BY <1>e DEF WorkerInv, Mail
<1>2. ASSUME NEW b \in Batches PROVE BatchFloor(b)'
  <2>1. RunnersForget
    BY <1>r DEF RunnersForget
  <2>2. BatchFloor(b) /\ floor'[b] = floor[b] /\ job'[b] = job[b]
    BY <1>e DEF WorkerInv, Floors
  <2> QED BY <2>1, <2>2, <1>r, <1>n, <1>t, FloorKept
<1>3. Len(cells') > 0 => Fresher(cells'[Len(cells')].engine, stale')
  <2> SUFFICES ASSUME Len(cells) > 0 PROVE Fresher(cells'[Len(cells)].engine, stale')
    BY <1>r
  <2>1. Len(cells) \in 1..Len(cells) /\ Fresher(cells[Len(cells)].engine, stale)
    BY <1>r DEF WorkerInv, Floors
  <2>2. CASE clears /\ c = Len(cells)
    BY <2>1, <2>2, <1>r DEF Fresher
  <2>3. CASE ~(clears /\ c = Len(cells))
    BY <2>1, <2>3, <1>r, <1>e
  <2> QED BY <2>2, <2>3
<1>4. /\ \E h : Ledger(h, inbox', Len(cells'), 1 + poisons', floor)
      /\ \A i \in 1..Len(ctxbox') :
               ctxbox'[i].tag = "Execute" => floor[ctxbox'[i].batch].cell <= Len(cells')
  BY <1>e, <1>r DEF WorkerInv, Floors
<1>5. Jobs'
  BY <1>e, <1>t DEF Jobs, Shaped
<1> QED BY <1>1, <1>2, <1>3, <1>4, <1>5, <1>n, <1>r, <1>e, <1>t, ActorStep

(* A step that touches none of what the invariant is about.                *)
LEMMA NothingMoves ==
    ASSUME WorkerInv,
           UNCHANGED <<cells, engines, job, inbox, ctxbox, poisons, floor, stale>>
    PROVE  WorkerInv'
<1>1. Shapes'
  BY DEF WorkerInv, Shapes, Jobs, Shaped
<1>2. Mail'
  BY DEF WorkerInv, Mail
<1>3. Floors'
  BY DEF WorkerInv, Floors, BatchFloor
<1> QED BY <1>1, <1>2, <1>3 DEF WorkerInv

(* The first state: the worker has yet to make its first runner.           *)
LEMMA WorkerInitInv ==
    ASSUME WorkerInit
    PROVE  WorkerInv
<1> DEFINE m == [tag |-> "start"]
           g == [i \in 0..1 |-> i]
           f == [cell |-> 1, engine |-> 0]
<1>e. /\ cells = <<>> /\ engines = <<>> /\ ctxbox = <<>> /\ poisons = 0 /\ stale = 0
      /\ inbox = <<m>> /\ floor = [b \in Batches |-> f] /\ job = [b \in Batches |-> NoJob]
  BY DEF WorkerInit, RunnerInit
<1>m. m \in Message /\ m.tag # "Execute" /\ Renews(m)
  BY DEF Message, Renews
<1>f. f \in Floor /\ f.cell = 1 /\ f.engine = 0
  BY DEF Floor
<1>j. NoJob.st = "idle" /\ NoJob.cell = 0 /\ NoJob.eng = 0 /\ Shaped(NoJob)
  BY DEF NoJob, Shaped, Fields
<1> HIDE DEF m, f
<1>i. /\ inbox \in Seq(Message) /\ Len(inbox) = 1 /\ inbox[1] = m
      /\ Len(cells) = 0 /\ Len(ctxbox) = 0 /\ Len(engines) = 0
  BY <1>e, <1>m
<1>1. Shapes
  <2>1. Jobs
    BY <1>e, <1>j DEF Jobs
  <2>2. cells \in Seq(Cell) /\ engines \in Seq(Engine) /\ ctxbox \in Seq(Message)
    BY <1>e
  <2> QED BY <2>1, <2>2, <1>e, <1>f, <1>i DEF Shapes
<1>2. Mail
  BY <1>i, <1>m DEF Mail, Holding
<1>3. Ledger(g, inbox, Len(cells), 1 + poisons, floor)
  <2>1. /\ g \in [0..1 -> Nat] /\ g[0] = 0 /\ g[1] = 1
        /\ \A i, j \in 0..1 : i <= j => g[i] <= g[j]
        /\ \A i \in 1..1 : i = 1 /\ g[i] = g[i - 1] + 1
    OBVIOUS
  <2> HIDE DEF g
  <2> QED BY <2>1, <1>e, <1>i, <1>m DEF Ledger
<1>4. \A b \in Batches : BatchFloor(b)
  BY <1>e, <1>f, <1>i, <1>j DEF BatchFloor, Active
<1>5. Floors
  BY <1>3, <1>4, <1>e, <1>i DEF Floors
<1> QED BY <1>1, <1>2, <1>5 DEF WorkerInv

(* Every step keeps the invariant.                                         *)
LEMMA WorkerNextInv ==
    ASSUME WorkerInv, [WorkerNext]_vars
    PROVE  WorkerInv'
<1>s. Shapes
  BY DEF WorkerInv
<1>1. CASE WorkerStep
  BY <1>1, PreStartKeeps, HandleExecuteKeeps, HandlePoisonedKeeps, HandleRebuildKeeps DEF WorkerStep
<1>2. CASE ContextStep
  <2>1. ContextExecute \/ ContextRebuild
    BY <1>2 DEF ContextStep
  <2> QED BY <1>2, <2>1, ContextExecuteKeeps, ContextRebuildKeeps
<1>3. CASE PostContextPoisoned
  BY <1>3, PostContextPoisonedKeeps
<1>4. ASSUME NEW r \in Rebuilds, PostRebuild(r) \/ RebuildTask(r) \/ RebuildTaskFails(r)
      PROVE  WorkerInv'
  <2>1. CASE RebuildTaskFails(r)
    BY <2>1, NothingMoves DEF RebuildTaskFails, runnerVars
  <2> QED BY <1>4, <2>1, PostRebuildKeeps, RebuildDoneKeeps
<1>5. ASSUME NEW b \in Batches,
             PostExecute(b) \/ RunnerStep(b) \/ (ReaderDrops(b) /\ UNCHANGED workerVars)
      PROVE  WorkerInv'
  <2>1. CASE RunnerStep(b) \/ (ReaderDrops(b) /\ UNCHANGED workerVars)
    <3>1. (TaskStep(b) \/ ProducerStep(b) \/ ReaderDrops(b)) /\ UNCHANGED workerVars
      BY <2>1 DEF RunnerStep
    <3>2. JobsTrack /\ RunnersTrack
      BY <3>1, <1>s, RunnerTracks
    <3> QED BY <3>1, <3>2, RunnerStepKeeps
  <2> QED BY <1>5, <2>1, PostExecuteKeeps
<1>6. CASE UNCHANGED vars
  BY <1>6, NothingMoves DEF vars, runnerVars, workerVars
<1> QED BY <1>1, <1>2, <1>3, <1>4, <1>5, <1>6 DEF WorkerNext

-----------------------------------------------------------------------------
(* The invariant holds in every reachable state.                           *)
THEOREM WorkerInvariance == WorkerSpec => []WorkerInv
<1>1. WorkerInit => WorkerInv
  BY WorkerInitInv
<1>2. WorkerInv /\ [WorkerNext]_vars => WorkerInv'
  BY WorkerNextInv
<1> QED BY <1>1, <1>2, PTL DEF WorkerSpec

(***************************************************************************)
(* worker.rs: a batch sent after ContextPoisoned, or after a rebuild was   *)
(* acknowledged that makes the runner forget its engine, never runs on the *)
(* runner or the engine from before, whatever is still queued in the two   *)
(* mailboxes or running on the old runner.                                 *)
(***************************************************************************)
THEOREM NeverStale == WorkerSpec => []NoStaleEngine
<1>1. WorkerInv => NoStaleEngine
  <2> SUFFICES ASSUME WorkerInv, NEW b \in Batches, job[b].eng # 0
               PROVE  /\ job[b].cell >= floor[b].cell
                      /\ (job[b].cell = floor[b].cell => job[b].eng > floor[b].engine)
    BY DEF NoStaleEngine
  <2>1. BatchFloor(b) /\ floor[b].cell \in Nat
    BY DEF WorkerInv, Floors, Shapes, Floor
  <2> QED BY <2>1 DEF BatchFloor
<1> QED BY <1>1, WorkerInvariance, PTL

-----------------------------------------------------------------------------
(***************************************************************************)
(* The endings.  A consumer was told when it was handed a finish or an     *)
(* error, or one is on its way to it in the channel.  The runners with one *)
(* producer per batch stop producing only after they told, unless they are *)
(* cut off; as long as the task drains, nothing sent is lost, and it       *)
(* closes only an empty channel.                                           *)
(***************************************************************************)
Tells(item) == item.fin # None \/ item.err # None
Told(b) == Delivered(b) \/ \E i \in 1..Len(chan[b]) : Tells(chan[b][i])

Written(o) == o = [f \in {"text", "fin", "err"} |-> o[f]] /\ o.fin \in Nat
Outs == out = [b \in Batches |-> out[b]] /\ \A b \in Batches : Written(out[b])
Queued(q) == \E S : q \in Seq(S)
Chans == chan = [b \in Batches |-> chan[b]] /\ \A b \in Batches : Queued(chan[b])

Ends(b) ==
    /\ job[b].st # "closed" => job[b].rx
    /\ job[b].st \notin {"stream", "closed"} => job[b].prod = "none" /\ job[b].fin = None
    /\ job[b].prod = "abort" => job[b].st = "closed"
    /\ job[b].st = "stream" /\ job[b].prod \in {"done", "release"} => Told(b) \/ b \in cutoff
    /\ job[b].st = "stream" /\ kind = "mistralrs" /\ job[b].fin # None => Told(b)
    /\ job[b].prod = "flush" => job[b].fin # None
    /\ Explained(b)

EndInv == kind # "vllm" => Outs /\ Chans /\ \A b \in Batches : Ends(b)

(* A producer that was cut off stays so.                                   *)
CutOn == cutoff \subseteq cutoff'

(* An item behind a queue.                                                 *)
LEMMA Behind ==
    ASSUME NEW q, Queued(q), NEW x
    PROVE  /\ Queued(q \o <<x>>) /\ Len(q) \in Nat /\ Len(q \o <<x>>) = Len(q) + 1
           /\ (q \o <<x>>)[Len(q) + 1] = x /\ \A i \in 1..Len(q) : (q \o <<x>>)[i] = q[i]
<1>1. PICK S : q \in Seq(S)
  BY DEF Queued
<1> DEFINE T == S \cup {x}
<1>2. q \in Seq(T) /\ <<x>> \in Seq(T)
  BY <1>1
<1>3. q \o <<x>> \in Seq(T)
  BY <1>2
<1> HIDE DEF T
<1>4. Queued(q \o <<x>>)
  BY <1>3 DEF Queued
<1> QED BY <1>2, <1>4

(* A send, of an item or of nothing, loses no ending; to a task that is    *)
(* there it brings the one it carries.                                     *)
LEMMA SendTells ==
    ASSUME Chans, NEW b \in Batches, NEW x, NEW items, items = <<x>> \/ items = <<>>,
           Send(b, items), out' = out
    PROVE  /\ Chans' /\ \A c \in Batches \ {b} : chan'[c] = chan[c]
           /\ Told(b) => Told(b)'
           /\ job[b].rx /\ items = <<x>> /\ Tells(x) => Told(b)'
<1>1. chan' = [chan EXCEPT ![b] = IF job[b].rx THEN chan[b] \o items ELSE chan[b]]
  BY DEF Send
<1>2. Queued(chan[b]) /\ chan = [c \in Batches |-> chan[c]]
  BY DEF Chans
<1>3. /\ chan' = [c \in Batches |-> chan'[c]] /\ \A c \in Batches \ {b} : chan'[c] = chan[c]
      /\ chan'[b] = IF job[b].rx THEN chan[b] \o items ELSE chan[b]
  BY <1>1, <1>2
<1>4. CASE chan'[b] = chan[b]
  <2>1. Chans'
    BY <1>3, <1>4 DEF Chans
  <2>2. Told(b) => Told(b)'
    BY <1>4 DEF Told, Delivered
  <2>3. ~(job[b].rx /\ items = <<x>> /\ Tells(x)) \/ chan[b] = chan[b] \o <<x>>
    BY <1>3, <1>4
  <2>4. chan[b] # chan[b] \o <<x>>
    <3>1. Len(chan[b]) \in Nat /\ Len(chan[b] \o <<x>>) = Len(chan[b]) + 1
      BY <1>2, Behind
    <3> QED BY <3>1
  <2> QED BY <2>1, <2>2, <2>3, <2>4, <1>3
<1>5. CASE job[b].rx /\ items = <<x>>
  <2>1. chan'[b] = chan[b] \o <<x>>
    BY <1>3, <1>5
  <2>2. /\ Queued(chan'[b]) /\ Len(chan[b]) \in Nat /\ Len(chan'[b]) = Len(chan[b]) + 1
        /\ chan'[b][Len(chan[b]) + 1] = x /\ \A i \in 1..Len(chan[b]) : chan'[b][i] = chan[b][i]
    BY <2>1, <1>2, Behind
  <2>3. Chans'
    BY <1>3, <2>2 DEF Chans
  <2>4. Told(b) => Told(b)'
    <3>1. CASE Delivered(b)
      BY <3>1 DEF Told, Delivered
    <3>2. ASSUME NEW i \in 1..Len(chan[b]), Tells(chan[b][i]) PROVE Told(b)'
      <4>1. i \in 1..Len(chan'[b]) /\ Tells(chan'[b][i])
        BY <2>2, <3>2
      <4> QED BY <4>1 DEF Told
    <3> QED BY <3>1, <3>2 DEF Told
  <2>5. Tells(x) => Told(b)'
    <3>1. Len(chan[b]) + 1 \in 1..Len(chan'[b])
      BY <2>2
    <3> QED BY <2>2, <3>1 DEF Told
  <2> QED BY <2>3, <2>4, <2>5, <1>3
<1>6. CASE job[b].rx /\ items = <<>>
  <2>1. chan[b] \o <<>> = chan[b]
    <3>1. PICK S : chan[b] \in Seq(S)
      BY <1>2 DEF Queued
    <3> QED BY <3>1
  <2>2. chan'[b] = chan[b]
    BY <2>1, <1>3, <1>6
  <2> QED BY <2>2, <1>4
<1> QED BY <1>3, <1>4, <1>5, <1>6

(* What a producer writes in its batch's record.                           *)
Writes(b, prod, ids, sent, fin) ==
    \/ job' = [job EXCEPT ![b].prod = prod] /\ fin = job[b].fin
    \/ job' = [job EXCEPT ![b].prod = prod, ![b].fin = fin]
    \/ job' = [job EXCEPT ![b].ids = ids, ![b].fin = fin, ![b].prod = prod]
    \/ job' = [job EXCEPT ![b].ids = ids, ![b].sent = sent, ![b].fin = fin, ![b].prod = prod]

(* It leaves the batch's status, runner and consumer alone.                *)
LEMMA ProducerFields ==
    ASSUME Jobs, NEW b \in Batches, NEW prod, NEW ids, NEW sent, NEW fin,
           Writes(b, prod, ids, sent, fin)
    PROVE  /\ \A c \in Batches \ {b} : job'[c] = job[c]
           /\ job'[b].st = job[b].st /\ job'[b].cell = job[b].cell
           /\ job'[b].reader = job[b].reader /\ job'[b].rx = job[b].rx
           /\ job'[b].prod = prod /\ job'[b].fin = fin
<1> USE DEF Jobs, Shaped, Fields
<1>1. CASE job' = [job EXCEPT ![b].prod = prod] /\ fin = job[b].fin
  BY <1>1
<1>2. CASE job' = [job EXCEPT ![b].prod = prod, ![b].fin = fin]
  <2>1. \A c \in Batches \ {b} : job'[c] = job[c]
    BY <1>2
  <2>2. job'[b].prod = prod
    BY <1>2
  <2>3. job'[b].fin = fin
    BY <1>2
  <2>4. job'[b].st = job[b].st /\ job'[b].cell = job[b].cell
    BY <1>2
  <2>5. job'[b].reader = job[b].reader /\ job'[b].rx = job[b].rx
    BY <1>2
  <2> QED BY <2>1, <2>2, <2>3, <2>4, <2>5
<1>3. CASE job' = [job EXCEPT ![b].ids = ids, ![b].fin = fin, ![b].prod = prod]
  <2>1. \A c \in Batches \ {b} : job'[c] = job[c]
    BY <1>3
  <2>2. job'[b].prod = prod
    BY <1>3
  <2>3. job'[b].fin = fin
    BY <1>3
  <2>4. job'[b].st = job[b].st /\ job'[b].cell = job[b].cell
    BY <1>3
  <2>5. job'[b].reader = job[b].reader /\ job'[b].rx = job[b].rx
    BY <1>3
  <2> QED BY <2>1, <2>2, <2>3, <2>4, <2>5
<1>4. CASE job' = [job EXCEPT ![b].ids = ids, ![b].sent = sent, ![b].fin = fin, ![b].prod = prod]
  <2>1. \A c \in Batches \ {b} : job'[c] = job[c]
    BY <1>4
  <2>2. job'[b].prod = prod
    BY <1>4
  <2>3. job'[b].fin = fin
    BY <1>4
  <2>4. job'[b].st = job[b].st /\ job'[b].cell = job[b].cell
    BY <1>4
  <2>5. job'[b].reader = job[b].reader /\ job'[b].rx = job[b].rx
    BY <1>4
  <2> QED BY <2>1, <2>2, <2>3, <2>4, <2>5
<1> QED BY <1>1, <1>2, <1>3, <1>4 DEF Writes

(* One batch moves, the others keep what they have.                        *)
LEMMA OneEnds ==
    ASSUME EndInv, CutOn, kind # "vllm", kind' = kind, NEW b \in Batches, Outs', Chans', Ends(b)',
           \A c \in Batches \ {b} : job'[c] = job[c] /\ chan'[c] = chan[c] /\ out'[c] = out[c]
    PROVE  EndInv'
<1>1. ASSUME NEW c \in Batches \ {b} PROVE Ends(c)'
  <2>1. Ends(c) /\ job'[c] = job[c] /\ chan'[c] = chan[c] /\ out'[c] = out[c]
    BY DEF EndInv
  <2> QED BY <2>1 DEF Ends, Explained, Executed, Told, Delivered, CutOn
<1> QED BY <1>1 DEF EndInv

(* A producer's step: it stops only when it has told, or when the task is  *)
(* not there any more.                                                     *)
LEMMA ProducerEnds ==
    ASSUME EndInv, CutOn, kind # "vllm", kind' = kind, Jobs, NEW b \in Batches,
           NEW prod, NEW ids, NEW sent, NEW fin, NEW x, NEW items,
           Writes(b, prod, ids, sent, fin),
           job[b].prod # "none", prod \notin {"none", "abort"},
           items = <<x>> \/ items = <<>>,
           Send(b, items), out' = out,
           job[b].st = "stream" /\ prod \in {"done", "release"} =>
               Told(b) \/ (items = <<x>> /\ Tells(x)) \/ b \in cutoff',
           job[b].st = "stream" /\ kind = "mistralrs" /\ fin # None =>
               Told(b) \/ (items = <<x>> /\ Tells(x)),
           prod = "flush" => fin # None
    PROVE  EndInv'
<1>1. Outs /\ Chans /\ Ends(b)
  BY DEF EndInv
<1>2. /\ \A c \in Batches \ {b} : job'[c] = job[c]
      /\ job'[b].st = job[b].st /\ job'[b].cell = job[b].cell
      /\ job'[b].reader = job[b].reader /\ job'[b].rx = job[b].rx
      /\ job'[b].prod = prod /\ job'[b].fin = fin
  BY ProducerFields
<1>3. /\ Chans' /\ \A c \in Batches \ {b} : chan'[c] = chan[c]
      /\ Told(b) => Told(b)'
      /\ job[b].rx /\ items = <<x>> /\ Tells(x) => Told(b)'
  BY <1>1, SendTells
<1>4. Ends(b)'
  <2>1. job[b].st = "stream" => job[b].rx
    BY <1>1 DEF Ends
  <2>2. job[b].st \in {"stream", "closed"}
    BY <1>1 DEF Ends
  <2>3. Explained(b)'
    BY <1>1, <1>2 DEF Ends, Explained, Executed, Delivered, CutOn
  <2> QED BY <1>1, <1>2, <1>3, <2>1, <2>2, <2>3 DEF Ends
<1>5. Outs'
  BY <1>1 DEF Outs
<1> QED BY <1>2, <1>3, <1>4, <1>5, OneEnds

(* Nothing is sent.                                                        *)
LEMMA SendsNothing ==
    ASSUME Chans, NEW b \in Batches, chan' = chan
    PROVE  Send(b, <<>>)
<1>1. PICK S : chan[b] \in Seq(S)
  BY DEF Chans, Queued
<1>2. chan[b] \o <<>> = chan[b]
  BY <1>1
<1>3. chan = [chan EXCEPT ![b] = chan[b]]
  BY DEF Chans
<1> QED BY <1>2, <1>3 DEF Send

(* A producer's step without a send.                                       *)
LEMMA ProducerSilent ==
    ASSUME EndInv, CutOn, kind # "vllm", kind' = kind, Jobs, NEW b \in Batches,
           NEW prod, NEW ids, NEW sent, NEW fin, Writes(b, prod, ids, sent, fin),
           job[b].prod # "none", prod \notin {"none", "abort"},
           chan' = chan, out' = out,
           job[b].st = "stream" /\ prod \in {"done", "release"} => Told(b) \/ b \in cutoff',
           job[b].st = "stream" /\ kind = "mistralrs" /\ fin # None => Told(b),
           prod = "flush" => fin # None
    PROVE  EndInv'
<1> DEFINE items == <<>>
           x == None
<1>1. Send(b, items)
  BY SendsNothing DEF EndInv
<1>2. items = <<x>> \/ items = <<>>
  OBVIOUS
<1> HIDE DEF items, x
<1> QED BY <1>1, <1>2, ProducerEnds

(* The items the runners send.                                             *)
LEMMA ItemTells ==
    ASSUME NEW text, NEW fin, NEW k
    PROVE  /\ fin # None => Tells(Item(text, fin))
           /\ k # None => Tells(Error(k))
BY DEF Item, Error, Tells

(* The ONNX runner: the finish or the error comes before the lock of the   *)
(* session is given back.                                                  *)
LEMMA OrtEnds ==
    ASSUME EndInv, CutOn, kind # "vllm", Jobs, NEW b \in Batches,
           OrtStart(b) \/ OrtToken(b) \/ OrtRunFails(b) \/ OrtFlush(b) \/ OrtRelease(b)
    PROVE  EndInv'
<1>k. kind = "ort" /\ kind' = kind /\ out' = out
  BY DEF OrtStart, OrtToken, OrtRunFails, OrtFlush, OrtRelease
<1>i. Chans /\ Ends(b)
  BY DEF EndInv
<1>1. CASE OrtStart(b)
  <2>1. job[b].prod = "session"
    BY <1>1 DEF OrtStart
  <2>2. CASE job' = [job EXCEPT ![b].prod = "release"] /\ Send(b, << Error("BadRequest") >>)
    <3>1. Tells(Error("BadRequest"))
      BY DEF Tells, Error, None
    <3>2. Writes(b, "release", <<>>, <<>>, job[b].fin)
      BY <2>2 DEF Writes
    <3> QED BY <2>1, <2>2, <3>1, <3>2, <1>k, ProducerEnds
  <2>3. CASE job' = [job EXCEPT ![b].prod = "run"] /\ chan' = chan
    <3>1. Writes(b, "run", <<>>, <<>>, job[b].fin)
      BY <2>3 DEF Writes
    <3> QED BY <2>1, <2>3, <3>1, <1>k, ProducerSilent
  <2> QED BY <1>1, <2>2, <2>3 DEF OrtStart
<1>2. CASE OrtToken(b)
  <2>1. PICK t \in Vocabulary :
          LET ids  == Append(job[b].ids, t)
              full == Decode(ids)
              d    == DecodeDelta(job[b].sent, full)
              stop == StopReason(ids, MaxNew)
              gone == d.delta # <<>> /\ ~job[b].rx
          IN  /\ job' = [job EXCEPT
                  ![b].ids = ids,
                  ![b].sent = IF d.advance THEN full ELSE @,
                  ![b].fin = stop,
                  ![b].prod = IF gone THEN "release" ELSE IF stop = None THEN "run" ELSE "flush"]
              /\ Send(b, IF d.delta = <<>> THEN <<>> ELSE << Item(d.delta, None) >>)
    BY <1>2, Zenon DEF OrtToken
  <2> DEFINE ids  == Append(job[b].ids, t)
             full == Decode(ids)
             d    == DecodeDelta(job[b].sent, full)
             stop == StopReason(ids, MaxNew)
             prod == IF d.delta # <<>> /\ ~job[b].rx THEN "release"
                     ELSE IF stop = None THEN "run" ELSE "flush"
             sent == IF d.advance THEN full ELSE job[b].sent
             x == Item(d.delta, None)
             items == IF d.delta = <<>> THEN <<>> ELSE <<x>>
  <2>2. Writes(b, prod, ids, sent, stop) /\ Send(b, items)
    BY <2>1 DEF Writes
  <2>3. items = <<x>> \/ items = <<>>
    OBVIOUS
  <2>4. job[b].prod = "run"
    BY <1>2 DEF OrtToken, Producing
  <2>5. job[b].st = "stream" => job[b].rx
    BY <1>i DEF Ends
  <2>6. /\ prod \in {"release", "run", "flush"}
        /\ prod = "flush" => stop # None
        /\ job[b].rx => prod # "release"
    OBVIOUS
  <2> HIDE DEF prod, sent, items, x, ids, stop, d, full
  <2> QED BY <2>2, <2>3, <2>4, <2>5, <2>6, <1>k, ProducerEnds
<1>3. CASE OrtRunFails(b)
  <2>1. PICK says \in {"shape", "other"} : Send(b, << Error(MapOrtErr(says)) >>)
    BY <1>3 DEF OrtRunFails
  <2>2. Tells(Error(MapOrtErr(says)))
    <3>1. MapOrtErr(says) # None
      BY DEF MapOrtErr, None
    <3> QED BY <3>1, ItemTells
  <2>3. job[b].prod = "run" /\ Writes(b, "release", <<>>, <<>>, job[b].fin)
    BY <1>3 DEF OrtRunFails, Producing, Writes
  <2> QED BY <2>1, <2>2, <2>3, <1>k, ProducerEnds
<1>4. CASE OrtFlush(b)
  <2> DEFINE x == Item(FinalTail(job[b].sent, Decode(job[b].ids)), job[b].fin)
  <2>1. /\ job[b].prod = "flush" /\ Send(b, <<x>>)
        /\ Writes(b, "release", <<>>, <<>>, job[b].fin)
    BY <1>4 DEF OrtFlush, Producing, Writes
  <2>2. Tells(x)
    BY <2>1, <1>i, ItemTells DEF Ends
  <2> HIDE DEF x
  <2> QED BY <2>1, <2>2, <1>k, ProducerEnds
<1>5. CASE OrtRelease(b)
  <2>1. job[b].prod = "release" /\ chan' = chan /\ Writes(b, "done", <<>>, <<>>, job[b].fin)
    BY <1>5 DEF OrtRelease, Producing, Writes
  <2>2. job[b].st = "stream" => Told(b) \/ b \in cutoff'
    BY <2>1, <1>i DEF Ends, CutOn
  <2> QED BY <2>1, <2>2, <1>k, ProducerSilent
<1> QED BY <1>1, <1>2, <1>3, <1>4, <1>5

(* mistral.rs: its stream ends after a finish was forwarded, or cut off.   *)
LEMMA MistralEnds ==
    ASSUME EndInv, CutOn, kind # "vllm", Jobs, NEW b \in Batches, MistralResponse(b)
    PROVE  EndInv'
<1>k. kind = "mistralrs" /\ kind' = kind /\ out' = out /\ job[b].prod = "run"
  BY DEF MistralResponse, Producing
<1>i. Chans /\ Ends(b)
  BY DEF EndInv
<1>1. ASSUME NEW says \in {None, "length"},
             LET fin == IF says = None THEN None ELSE MistralFinishReason(says)
             IN  /\ job' = [job EXCEPT ![b].ids = Append(@, "w"), ![b].fin = fin,
                                       ![b].prod = IF job[b].rx THEN "run" ELSE "done"]
                 /\ Send(b, << Item(<<"w">>, fin) >>)
      PROVE  EndInv'
  <2> DEFINE fin == IF says = None THEN None ELSE MistralFinishReason(says)
             prod == IF job[b].rx THEN "run" ELSE "done"
             x == Item(<<"w">>, fin)
  <2>1. Writes(b, prod, Append(job[b].ids, "w"), <<>>, fin) /\ Send(b, <<x>>)
    BY <1>1 DEF Writes
  <2>2. fin # None => Tells(x)
    BY ItemTells
  <2>3. prod \in {"run", "done"} /\ (job[b].st = "stream" => prod = "run")
    BY <1>i DEF Ends
  <2> HIDE DEF fin, prod, x
  <2> QED BY <2>1, <2>2, <2>3, <1>k, ProducerEnds
<1>2. CASE job' = [job EXCEPT ![b].prod = "done", ![b].fin = "Stop"]
           /\ Send(b, << Item(<<>>, "Stop") >>)
  <2>1. Tells(Item(<<>>, "Stop"))
    BY ItemTells DEF None
  <2>2. Writes(b, "done", <<>>, <<>>, "Stop")
    BY <1>2 DEF Writes
  <2> QED BY <1>2, <2>1, <2>2, <1>k, ProducerEnds
<1>3. CASE job' = [job EXCEPT ![b].prod = "done"] /\ Send(b, << Error("Internal") >>)
  <2>1. Tells(Error("Internal"))
    BY ItemTells DEF None
  <2>2. Writes(b, "done", <<>>, <<>>, job[b].fin)
    BY <1>3 DEF Writes
  <2> QED BY <1>3, <2>1, <2>2, <1>k, ProducerEnds
<1>4. CASE /\ job' = [job EXCEPT ![b].prod = "done"] /\ chan' = chan
           /\ cutoff' = IF job[b].fin = None THEN cutoff \cup {b} ELSE cutoff
  <2>1. Writes(b, "done", <<>>, <<>>, job[b].fin)
    BY <1>4 DEF Writes
  <2>2. job[b].st = "stream" /\ job[b].fin # None => Told(b)
    BY <1>4, <1>i, <1>k DEF Ends
  <2>3. job[b].fin = None => b \in cutoff'
    BY <1>4
  <2> QED BY <1>4, <2>1, <2>2, <2>3, <1>k, ProducerSilent
<1>5. \/ \E says \in {None, "length"} :
             LET fin == IF says = None THEN None ELSE MistralFinishReason(says)
             IN  /\ job' = [job EXCEPT ![b].ids = Append(@, "w"), ![b].fin = fin,
                                       ![b].prod = IF job[b].rx THEN "run" ELSE "done"]
                 /\ Send(b, << Item(<<"w">>, fin) >>)
      \/ job' = [job EXCEPT ![b].prod = "done", ![b].fin = "Stop"] /\ Send(b, << Item(<<>>, "Stop") >>)
      \/ job' = [job EXCEPT ![b].prod = "done"] /\ Send(b, << Error("Internal") >>)
      \/ /\ job' = [job EXCEPT ![b].prod = "done"] /\ chan' = chan
         /\ cutoff' = IF job[b].fin = None THEN cutoff \cup {b} ELSE cutoff
  BY Zenon DEF MistralResponse
<1> QED BY <1>1, <1>2, <1>3, <1>4, <1>5

(* The scripted runner, a producer whose send failed, and one that panics. *)
LEMMA OtherEnds ==
    ASSUME EndInv, CutOn, kind # "vllm", Jobs, NEW b \in Batches,
           MockChunk(b) \/ ProducerAborts(b) \/ ProducerPanics(b)
    PROVE  EndInv'
<1>i. Chans /\ Ends(b)
  BY DEF EndInv
<1>0. CASE /\ job' = [job EXCEPT ![b].prod = "done"] /\ chan' = chan /\ cutoff' = cutoff \cup {b}
           /\ MockChunk(b)
  <2>1. /\ Writes(b, "done", <<>>, <<>>, job[b].fin) /\ kind' = kind /\ out' = out
        /\ kind = "mock" /\ job[b].prod = "run" /\ b \in cutoff'
    BY <1>0 DEF MockChunk, Producing, Writes
  <2> QED BY <1>0, <2>1, ProducerSilent
<1>1. CASE /\ ~(job' = [job EXCEPT ![b].prod = "done"] /\ chan' = chan /\ cutoff' = cutoff \cup {b})
           /\ MockChunk(b)
  <2> DEFINE fin == IF Len(job[b].ids) + 1 = MaxNew THEN "Stop" ELSE None
             prod == IF fin = None THEN "run" ELSE "done"
             x == Item(<<"w">>, fin)
  <2>1. /\ Writes(b, prod, Append(job[b].ids, "w"), <<>>, fin) /\ Send(b, <<x>>)
        /\ kind = "mock" /\ job[b].prod = "run" /\ kind' = kind /\ out' = out
    BY <1>1 DEF Writes, MockChunk, Producing
  <2>2. fin # None => Tells(x)
    BY ItemTells
  <2>3. prod \in {"run", "done"} /\ (prod = "done" => fin # None)
    OBVIOUS
  <2> HIDE DEF fin, prod, x
  <2> QED BY <2>1, <2>2, <2>3, ProducerEnds
<1>2. CASE ProducerAborts(b)
  <2> DEFINE prod == IF kind = "ort" THEN "release" ELSE "done"
  <2>1. /\ chan' = chan /\ Writes(b, prod, <<>>, <<>>, job[b].fin)
        /\ kind' = kind /\ out' = out /\ job[b].prod = "abort"
    BY <1>2 DEF ProducerAborts, Writes
  <2>2. job[b].st = "closed"
    BY <2>1, <1>i DEF Ends
  <2>3. prod \in {"release", "done"}
    OBVIOUS
  <2> HIDE DEF prod
  <2> QED BY <2>1, <2>2, <2>3, ProducerSilent
<1>3. CASE ProducerPanics(b)
  <2> DEFINE prod == IF kind = "ort" THEN "release" ELSE "done"
  <2>1. /\ chan' = chan /\ Writes(b, prod, <<>>, <<>>, job[b].fin)
        /\ kind' = kind /\ out' = out /\ job[b].prod = "run" /\ b \in cutoff' /\ kind = "ort"
    BY <1>3 DEF ProducerPanics, Producing, Writes
  <2>2. prod \in {"release", "done"}
    OBVIOUS
  <2> HIDE DEF prod
  <2> QED BY <2>1, <2>2, ProducerSilent
<1> QED BY <1>0, <1>1, <1>2, <1>3

(* A batch that has no stream yet moves on, or is dropped before a runner  *)
(* was given to it.                                                        *)
Parks(c) ==
    /\ job[c].st \notin {"stream", "closed"} /\ job'[c].st # "stream"
    /\ job'[c].prod = job[c].prod /\ job'[c].fin = job[c].fin
    /\ job'[c].rx = job[c].rx /\ job'[c].reader = job[c].reader
    /\ job'[c].st = "closed" => job'[c].cell = 0

(* Such a step explains no more and no fewer endings than before.          *)
LEMMA ParksEnds ==
    ASSUME EndInv, CutOn, kind' = kind, chan' = chan, out' = out,
           \A c \in Batches : job'[c] = job[c] \/ Parks(c)
    PROVE  EndInv'
<1> SUFFICES ASSUME kind # "vllm" PROVE Outs' /\ Chans' /\ \A c \in Batches : Ends(c)'
  BY DEF EndInv
<1>1. Outs' /\ Chans'
  BY DEF EndInv, Outs, Chans
<1>2. ASSUME NEW c \in Batches PROVE Ends(c)'
  <2>0. Ends(c)
    BY DEF EndInv
  <2>1. CASE job'[c] = job[c]
    BY <2>0, <2>1 DEF Ends, Explained, Executed, Told, Delivered, CutOn
  <2>2. CASE Parks(c)
    <3>1. /\ job'[c].rx /\ job'[c].prod = "none" /\ job'[c].fin = None
          /\ job'[c].st # "stream"
      BY <2>0, <2>2 DEF Ends, Parks
    <3>2. Explained(c)'
      BY <2>2 DEF Parks, Explained, Executed
    <3> QED BY <3>1, <3>2 DEF Ends
  <2> QED BY <2>1, <2>2
<1> QED BY <1>1, <1>2

(* Its status is all that changes.                                         *)
LEMMA StatusParks ==
    ASSUME Jobs, NEW b \in Batches, NEW status, job' = [job EXCEPT ![b].st = status],
           job[b].st \notin {"stream", "closed"}, status # "stream",
           status = "closed" => job[b].cell = 0
    PROVE  \A c \in Batches : job'[c] = job[c] \/ Parks(c)
<1>1. \A c \in Batches \ {b} : job'[c] = job[c]
  BY DEF Jobs
<1>2. /\ job'[b].st = status /\ job'[b].cell = job[b].cell /\ job'[b].prod = job[b].prod
      /\ job'[b].rx = job[b].rx /\ job'[b].reader = job[b].reader /\ job'[b].fin = job[b].fin
  BY DEF Jobs, Shaped, Fields
<1> QED BY <1>1, <1>2 DEF Parks

(* execute fails: the error is handed over before the output is closed.    *)
LEMMA FailEnds ==
    ASSUME EndInv, CutOn, kind # "vllm", Jobs, NEW b \in Batches, Holds(b), NEW k, k # None, Fail(b, k)
    PROVE  EndInv'
<1>1. Outs /\ Chans /\ Ends(b)
  BY DEF EndInv
<1>e. /\ job' = [job EXCEPT ![b].st = "closed", ![b].eng = cells[job[b].cell].engine, ![b].rx = FALSE]
      /\ kind' = kind /\ chan' = chan /\ job[b].st = "locked"
  BY DEF Fail, Holds
<1>o. out' = [out EXCEPT ![b].err = IF job[b].reader THEN k ELSE out[b].err]
  BY DEF Fail
<1>2. \A c \in Batches \ {b} : job'[c] = job[c]
  BY <1>e DEF Jobs
<1>3. job'[b].st = "closed" /\ job'[b].reader = job[b].reader
  BY <1>e DEF Jobs, Shaped, Fields
<1>4. job'[b].prod = job[b].prod
  BY <1>e DEF Jobs, Shaped, Fields
<1>5. /\ out' = [c \in Batches |-> out'[c]] /\ \A c \in Batches \ {b} : out'[c] = out[c]
      /\ out'[b] = [out[b] EXCEPT !.err = IF job[b].reader THEN k ELSE out[b].err]
  BY <1>1, <1>o DEF Outs
<1>6. Written(out[b])
  BY <1>1 DEF Outs
<1>7. Written(out'[b]) /\ out'[b].err = IF job[b].reader THEN k ELSE out[b].err
  BY <1>5, <1>6 DEF Written
<1>8. Outs'
  BY <1>1, <1>5, <1>7 DEF Outs
<1>9. Chans'
  BY <1>1, <1>e DEF Chans
<1>10. Ends(b)'
  <2>1. job[b].prod = "none"
    BY <1>1, <1>e DEF Ends
  <2>2. Explained(b)'
    BY <1>3, <1>7 DEF Explained, Delivered
  <2> QED BY <2>1, <2>2, <1>3, <1>4 DEF Ends
<1> QED BY <1>2, <1>5, <1>8, <1>9, <1>10, <1>e, OneEnds

(* A stream is opened.                                                     *)
LEMMA SubmitEnds ==
    ASSUME EndInv, CutOn, kind # "vllm", Jobs, NEW b \in Batches, Submit(b)
    PROVE  EndInv'
<1> DEFINE e == cells[job[b].cell].engine
           prod == IF kind = "ort" THEN "session" ELSE "run"
<1>1. Outs /\ Chans /\ Ends(b)
  BY DEF EndInv
<1>e. /\ job' = [job EXCEPT ![b].st = "stream", ![b].eng = e, ![b].prod = prod]
      /\ kind' = kind /\ chan' = chan /\ out' = out /\ job[b].st = "locked"
  BY DEF Submit, Holds
<1>p. prod \in {"session", "run"}
  OBVIOUS
<1> HIDE DEF e, prod
<1>2. \A c \in Batches \ {b} : job'[c] = job[c]
  BY <1>e DEF Jobs
<1>3. job'[b].st = "stream" /\ job'[b].prod = prod
  BY <1>e DEF Jobs, Shaped, Fields
<1>4. job'[b].rx = job[b].rx /\ job'[b].fin = job[b].fin
  BY <1>e DEF Jobs, Shaped, Fields
<1>5. Outs' /\ Chans'
  BY <1>1, <1>e DEF Outs, Chans
<1>6. Ends(b)'
  BY <1>1, <1>e, <1>p, <1>3, <1>4 DEF Ends, Explained
<1> QED BY <1>2, <1>5, <1>6, <1>e, OneEnds

(* The drain hands on what is first in the channel.                        *)
LEMMA DrainEndsWell ==
    ASSUME EndInv, CutOn, kind # "vllm", Jobs, NEW b \in Batches, Drain(b), job[b].reader
    PROVE  EndInv'
<1> DEFINE x == Head(chan[b])
           text == out[b].text \o x.text
           fin == out[b].fin + (IF x.fin = None THEN 0 ELSE 1)
           err == IF x.err = None THEN out[b].err ELSE x.err
<1>1. Outs /\ Chans /\ Ends(b)
  BY DEF EndInv
<1>e. /\ kind' = kind /\ job' = job /\ job[b].st = "stream" /\ chan[b] # <<>>
      /\ chan' = [chan EXCEPT ![b] = Tail(chan[b])]
  BY DEF Drain
<1>o. out' = [out EXCEPT ![b].text = text, ![b].fin = fin, ![b].err = err]
  BY DEF Drain
<1>2. PICK S : chan[b] \in Seq(S)
  BY <1>1 DEF Chans, Queued
<1>3. /\ chan' = [c \in Batches |-> chan'[c]] /\ \A c \in Batches \ {b} : chan'[c] = chan[c]
      /\ chan'[b] = Tail(chan[b])
  BY <1>1, <1>e DEF Chans
<1>4. /\ chan'[b] \in Seq(S) /\ Len(chan'[b]) = Len(chan[b]) - 1 /\ x = chan[b][1]
      /\ Len(chan[b]) \in Nat /\ \A i \in 1..Len(chan'[b]) : chan'[b][i] = chan[b][i + 1]
  BY <1>2, <1>3, <1>e
<1>5. Written(out[b])
  BY <1>1 DEF Outs
<1>6. fin \in Nat /\ (x.fin # None => fin > 0) /\ (out[b].fin > 0 => fin > 0)
  BY <1>5 DEF Written
<1>7. (x.err # None => err # None) /\ (out[b].err # None => err # None)
  OBVIOUS
<1>t. Tells(x) <=> x.fin # None \/ x.err # None
  BY DEF Tells
<1> HIDE DEF x, text, fin, err
<1>8. /\ out' = [c \in Batches |-> out'[c]] /\ \A c \in Batches \ {b} : out'[c] = out[c]
  BY <1>1, <1>o DEF Outs
<1>9. out'[b].fin = fin /\ out'[b].err = err
  BY <1>1, <1>o, <1>5 DEF Outs, Written
<1>10. Written(out'[b])
  <2>1. out'[b] = [f \in {"text", "fin", "err"} |-> out'[b][f]]
    BY <1>1, <1>o, <1>5 DEF Outs, Written
  <2> QED BY <2>1, <1>6, <1>9 DEF Written
<1>11. Outs' /\ Chans'
  BY <1>1, <1>3, <1>4, <1>8, <1>10 DEF Outs, Chans, Queued
<1>12. Told(b) => Told(b)'
  <2>1. Delivered(b) => Delivered(b)'
    BY <1>6, <1>7, <1>9 DEF Delivered
  <2>2. ASSUME NEW i \in 1..Len(chan[b]), Tells(chan[b][i]) PROVE Told(b)'
    <3>1. CASE i = 1
      <4>1. x.fin # None \/ x.err # None
        BY <2>2, <3>1, <1>4, <1>t
      <4> QED BY <4>1, <1>6, <1>7, <1>9 DEF Told, Delivered
    <3>2. CASE i # 1
      <4>1. i - 1 \in 1..Len(chan'[b]) /\ i - 1 + 1 = i
        BY <3>2, <1>4
      <4>2. Tells(chan'[b][i - 1])
        BY <4>1, <2>2, <1>4
      <4> QED BY <4>1, <4>2 DEF Told
    <3> QED BY <3>1, <3>2
  <2> QED BY <2>1, <2>2 DEF Told
<1>13. Ends(b)'
  BY <1>1, <1>12, <1>e DEF Ends, Explained, CutOn
<1> QED BY <1>3, <1>8, <1>11, <1>13, <1>e, OneEnds

(* The consumer is gone: the drain stops.                                  *)
LEMMA DrainStops ==
    ASSUME EndInv, CutOn, kind # "vllm", Jobs, NEW b \in Batches, Drain(b), ~job[b].reader
    PROVE  EndInv'
<1> DEFINE prod == IF ~Unblocked(b) /\ job[b].prod \in {"run", "flush"} THEN "abort" ELSE job[b].prod
<1>1. Outs /\ Chans /\ Ends(b)
  BY DEF EndInv
<1>e. /\ kind' = kind /\ job[b].st = "stream"
      /\ chan' = [chan EXCEPT ![b] = <<>>] /\ out' = [out EXCEPT ![b] = NoOut]
      /\ job' = [job EXCEPT ![b].st = "closed", ![b].rx = FALSE, ![b].prod = prod]
  BY DEF Drain
<1>p. prod = job[b].prod \/ prod = "abort"
  OBVIOUS
<1> HIDE DEF prod
<1>2. \A c \in Batches \ {b} : job'[c] = job[c]
  BY <1>e DEF Jobs
<1>3. job'[b].st = "closed" /\ job'[b].prod = prod
  BY <1>e DEF Jobs, Shaped, Fields
<1>4. job'[b].reader = job[b].reader /\ job'[b].fin = job[b].fin
  BY <1>e DEF Jobs, Shaped, Fields
<1>5. Written(NoOut)
  BY DEF Written, NoOut
<1>6. Outs' /\ \A c \in Batches \ {b} : out'[c] = out[c]
  BY <1>1, <1>e, <1>5 DEF Outs
<1>7. Chans' /\ \A c \in Batches \ {b} : chan'[c] = chan[c]
  <2>1. <<>> \in Seq({})
    OBVIOUS
  <2>2. Queued(<<>>)
    BY <2>1 DEF Queued
  <2> QED BY <1>1, <1>e, <2>2 DEF Chans
<1>8. Ends(b)'
  BY <1>1, <1>e, <1>p, <1>3, <1>4 DEF Ends, Explained
<1> QED BY <1>2, <1>6, <1>7, <1>8, <1>e, OneEnds

(* The stream is over: the channel is empty, so what was told was handed   *)
(* over.                                                                   *)
LEMMA StreamEnds ==
    ASSUME EndInv, CutOn, kind # "vllm", Jobs, NEW b \in Batches, DrainEnds(b)
    PROVE  EndInv'
<1>1. Outs /\ Chans /\ Ends(b)
  BY DEF EndInv
<1>e. PICK left : /\ job[b].st = "stream" /\ job[b].prod = "done" /\ chan[b] = <<>>
                  /\ job' = [job EXCEPT ![b].st = "closed", ![b].rx = FALSE,
                                        ![b].ids = IF left THEN <<>> ELSE @,
                                        ![b].sent = IF left THEN <<>> ELSE @,
                                        ![b].eng = IF left THEN 0 ELSE @,
                                        ![b].fin = IF left THEN None ELSE @]
                  /\ out' = [out EXCEPT ![b].text = IF left THEN <<>> ELSE @]
                  /\ chan' = chan /\ kind' = kind
  BY Zenon DEF DrainEnds
<1>2. \A c \in Batches \ {b} : job'[c] = job[c]
  BY <1>e DEF Jobs
<1>3. job'[b].st = "closed"
  BY <1>e DEF Jobs, Shaped, Fields
<1>4. job'[b].prod = job[b].prod
  BY <1>e DEF Jobs, Shaped, Fields
<1>5. Written(out[b])
  BY <1>1 DEF Outs
<1>6. /\ out' = [c \in Batches |-> out'[c]] /\ \A c \in Batches \ {b} : out'[c] = out[c]
      /\ out'[b].fin = out[b].fin /\ out'[b].err = out[b].err /\ Written(out'[b])
  <2>1. /\ out' = [c \in Batches |-> out'[c]] /\ \A c \in Batches \ {b} : out'[c] = out[c]
        /\ out'[b] = [out[b] EXCEPT !.text = IF left THEN <<>> ELSE @]
    BY <1>1, <1>e DEF Outs
  <2> QED BY <2>1, <1>5 DEF Written
<1>7. Outs' /\ Chans'
  BY <1>1, <1>e, <1>6 DEF Outs, Chans
<1>8. Delivered(b) \/ b \in cutoff'
  <2>1. (Told(b) \/ b \in cutoff) /\ Len(chan[b]) = 0
    BY <1>1, <1>e DEF Ends
  <2> QED BY <2>1 DEF Told, CutOn
<1>9. Ends(b)'
  BY <1>e, <1>3, <1>4, <1>6, <1>8 DEF Ends, Explained, Delivered
<1> QED BY <1>2, <1>6, <1>7, <1>9, <1>e, OneEnds

(* No step takes a cut back.                                               *)
LEMMA CutStays ==
    ASSUME [WorkerNext]_vars
    PROVE  CutOn
<1> USE DEF CutOn
<1>1. ASSUME NEW b \in Batches, TaskStep(b) \/ ReaderDrops(b) PROVE CutOn
  <2>1. CASE LaunchFails(b) \/ SubmitFails(b)
    <3>1. \E k : Fail(b, k)
      BY <2>1, Zenon DEF LaunchFails, SubmitFails
    <3> QED BY <3>1 DEF Fail
  <2> QED BY <1>1, <2>1 DEF TaskStep, ReaderDrops, AcquireRunner, Launch, Submit, Drain, DrainEnds
<1>2. ASSUME NEW b \in Batches, ProducerStep(b) PROVE CutOn
  <2>1. CASE MistralResponse(b)
    <3>1. cutoff' = cutoff \/ cutoff' = cutoff \cup {b}
      BY <2>1 DEF MistralResponse
    <3> QED BY <3>1
  <2>2. CASE MockChunk(b) \/ ProducerPanics(b)
    <3>1. cutoff' = cutoff \/ cutoff' = cutoff \cup {b}
      BY <2>2 DEF MockChunk, ProducerPanics
    <3> QED BY <3>1
  <2> QED BY <1>2, <2>1, <2>2 DEF ProducerStep, VllmStep, VllmCheck, VllmStepFails, OrtStart,
             OrtToken, OrtRunFails, OrtFlush, OrtRelease, ProducerAborts
<1>3. CASE WorkerStep \/ ContextStep \/ PostContextPoisoned \/ UNCHANGED vars
  BY <1>3 DEF WorkerStep, PreStart, HandleExecute, HandlePoisoned, HandleRebuild, ContextStep,
         PostContextPoisoned, vars, runnerVars
<1>4. ASSUME NEW r \in Rebuilds, PostRebuild(r) \/ RebuildTask(r) \/ RebuildTaskFails(r)
      PROVE  CutOn
  BY <1>4 DEF PostRebuild, RebuildTask, RebuildTaskFails, runnerVars
<1>5. ASSUME NEW b \in Batches, PostExecute(b) PROVE CutOn
  BY <1>5 DEF PostExecute
<1> QED BY <1>1, <1>2, <1>3, <1>4, <1>5 DEF WorkerNext, RunnerStep

(* What the tasks, the producers and the consumers do.                     *)
LEMMA RunnerEnds ==
    ASSUME EndInv, CutOn, Jobs, NEW b \in Batches, TaskStep(b) \/ ProducerStep(b) \/ ReaderDrops(b)
    PROVE  EndInv'
<1>k. kind' = kind
  BY DEF TaskStep, ProducerStep, ReaderDrops, AcquireRunner, Launch, LaunchFails, SubmitFails,
         Fail, Submit, Drain, DrainEnds, VllmStep, VllmCheck, VllmStepFails, OrtStart, OrtToken,
         OrtRunFails, OrtFlush, OrtRelease, MistralResponse, MockChunk, ProducerAborts,
         ProducerPanics
<1> SUFFICES ASSUME kind # "vllm" PROVE EndInv'
  BY <1>k DEF EndInv
<1>1. CASE AcquireRunner(b)
  <2>1. /\ job[b].st = "waiting" /\ job' = [job EXCEPT ![b].st = "locked"]
        /\ chan' = chan /\ out' = out
    BY <1>1 DEF AcquireRunner
  <2>2. \A c \in Batches : job'[c] = job[c] \/ Parks(c)
    BY <2>1, StatusParks
  <2> QED BY <2>1, <2>2, <1>k, ParksEnds
<1>2. CASE Launch(b)
  <2>1. job' = job /\ chan' = chan /\ out' = out
    BY <1>2 DEF Launch
  <2> QED BY <2>1, <1>k, ParksEnds
<1>3. CASE LaunchFails(b)
  <2>1. Holds(b) /\ (Fail(b, "BadRequest") \/ Fail(b, "Internal"))
    BY <1>3 DEF LaunchFails, LaunchErrors
  <2>2. "Internal" # None /\ "BadRequest" # None
    BY DEF None
  <2> QED BY <2>1, <2>2, FailEnds
<1>4. CASE SubmitFails(b)
  <2>0. EncodeErrors = {"Internal", "BadRequest"}
    BY DEF EncodeErrors
  <2>1. Holds(b) /\ (Fail(b, "CudaContextPoisoned") \/ Fail(b, "Internal") \/ Fail(b, "BadRequest"))
    BY <1>4, <2>0 DEF SubmitFails
  <2>2. "CudaContextPoisoned" # None /\ "Internal" # None /\ "BadRequest" # None
    BY DEF None
  <2> QED BY <2>1, <2>2, FailEnds
<1>5. CASE ReaderDrops(b)
  <2>1. /\ job' = [job EXCEPT ![b].reader = FALSE] /\ chan' = chan /\ out' = out
        /\ job[b].st \in {"locked", "stream"}
    BY <1>5 DEF ReaderDrops
  <2>2. \A c \in Batches \ {b} : job'[c] = job[c]
    BY <2>1 DEF Jobs
  <2>3. /\ job'[b].st = job[b].st /\ job'[b].prod = job[b].prod /\ job'[b].fin = job[b].fin
        /\ job'[b].rx = job[b].rx
    BY <2>1 DEF Jobs, Shaped, Fields
  <2>4. Outs /\ Chans /\ Ends(b)
    BY DEF EndInv
  <2>5. Outs' /\ Chans'
    BY <2>1, <2>4 DEF Outs, Chans
  <2>6. Ends(b)'
    BY <2>1, <2>3, <2>4, <1>k DEF Ends, Explained, Told, Delivered, CutOn
  <2> QED BY <2>1, <2>2, <2>5, <2>6, <1>k, OneEnds
<1>6. CASE Drain(b)
  BY <1>6, DrainEndsWell, DrainStops
<1>7. CASE VllmStep(b) \/ VllmCheck(b) \/ VllmStepFails(b)
  BY <1>7 DEF VllmStep, VllmCheck, VllmStepFails
<1> QED BY <1>1, <1>2, <1>3, <1>4, <1>5, <1>6, <1>7, SubmitEnds, StreamEnds, OrtEnds,
           MistralEnds, OtherEnds DEF TaskStep, ProducerStep

(* What the two actors do: a batch that has a runner is never dropped by   *)
(* them.                                                                   *)
LEMMA WorkerEnds ==
    ASSUME WorkerInv, EndInv, [WorkerNext]_vars
    PROVE  EndInv'
<1>c. CutOn
  BY CutStays
<1>j. Jobs /\ inbox \in Seq(Message) /\ ctxbox \in Seq(Message)
  BY DEF WorkerInv, Shapes
<1>h. Holding(inbox, job, "posted") /\ Holding(ctxbox, job, "mail")
  BY DEF WorkerInv, Mail
<1>b. \A b \in Batches : job[b].st \in {"idle", "posted", "mail"} => job[b].cell = 0
  BY DEF WorkerInv, Floors, BatchFloor
<1>0. ASSUME UNCHANGED <<kind, job, chan, out>> PROVE EndInv'
  BY <1>0, <1>c, ParksEnds
<1>1. CASE WorkerStep /\ HandleExecute
  <2> DEFINE m == Head(inbox)
             b == m.batch
  <2>1. /\ m.tag = "Execute" /\ kind' = kind /\ chan' = chan /\ out' = out /\ inbox # <<>>
        /\ \/ job' = [job EXCEPT ![b].st = "mail"]
           \/ job' = [job EXCEPT ![b].st = "closed"]
    BY <1>1 DEF WorkerStep, HandleExecute
  <2>2. 1 \in 1..Len(inbox) /\ m = inbox[1] /\ m \in Message
    BY <2>1, <1>j
  <2>3. b \in Batches /\ job[b].st = "posted"
    BY <2>1, <2>2, <1>h, MessageBatch DEF Holding
  <2> HIDE DEF m, b
  <2>4. job[b].cell = 0
    BY <2>3, <1>b
  <2>5. \A c \in Batches : job'[c] = job[c] \/ Parks(c)
    BY <2>1, <2>3, <2>4, <1>j, StatusParks
  <2> QED BY <2>1, <2>5, <1>c, ParksEnds
<1>2. CASE WorkerStep /\ HandlePoisoned
  <2>1. /\ kind' = kind /\ chan' = chan /\ out' = out
        /\ job' = [b \in Batches |-> IF b \in MailedBatches(ctxbox)
                                     THEN [job[b] EXCEPT !.st = "closed"] ELSE job[b]]
    BY <1>2 DEF HandlePoisoned
  <2>2. ASSUME NEW c \in Batches PROVE job'[c] = job[c] \/ Parks(c)
    <3>1. CASE c \in MailedBatches(ctxbox)
      <4>1. PICK i \in 1..Len(ctxbox) : ctxbox[i].tag = "Execute" /\ c = ctxbox[i].batch
        BY <3>1 DEF MailedBatches, Mailed
      <4>2. job[c].st = "mail" /\ job[c].cell = 0
        BY <4>1, <1>h, <1>b DEF Holding
      <4>3. job'[c] = [job[c] EXCEPT !.st = "closed"] /\ Shaped(job[c])
        BY <2>1, <3>1, <1>j DEF Jobs
      <4>4. /\ job'[c].st = "closed" /\ job'[c].cell = job[c].cell /\ job'[c].prod = job[c].prod
            /\ job'[c].fin = job[c].fin
        BY <4>3 DEF Shaped, Fields
      <4>5. job'[c].rx = job[c].rx /\ job'[c].reader = job[c].reader
        BY <4>3 DEF Shaped, Fields
      <4> QED BY <4>2, <4>4, <4>5 DEF Parks
    <3>2. CASE c \notin MailedBatches(ctxbox)
      BY <2>1, <3>2
    <3> QED BY <3>1, <3>2
  <2> QED BY <2>1, <2>2, <1>c, ParksEnds
<1>3. CASE WorkerStep /\ (PreStart \/ HandleRebuild)
  BY <1>0, <1>3 DEF PreStart, HandleRebuild, runnerVars
<1>4. CASE ContextStep
  <2>0. kind' = kind /\ chan' = chan /\ out' = out /\ ctxbox # <<>>
    BY <1>4 DEF ContextStep
  <2>1. CASE ContextRebuild
    BY <1>0, <2>0, <2>1 DEF ContextRebuild
  <2>2. CASE ContextExecute
    <3> DEFINE m == Head(ctxbox)
               b == m.batch
    <3>1. m.tag = "Execute" /\ job' = [job EXCEPT ![b].st = "waiting", ![b].cell = Len(cells)]
      BY <2>2 DEF ContextExecute
    <3>2. 1 \in 1..Len(ctxbox) /\ m = ctxbox[1] /\ m \in Message
      BY <2>0, <1>j
    <3>3. b \in Batches /\ job[b].st = "mail"
      BY <3>1, <3>2, <1>h, MessageBatch DEF Holding
    <3> HIDE DEF m, b
    <3>4. \A c \in Batches \ {b} : job'[c] = job[c]
      BY <3>1, <1>j DEF Jobs
    <3>5. job'[b].st = "waiting" /\ job'[b].prod = job[b].prod /\ job'[b].fin = job[b].fin
      BY <3>1, <3>3, <1>j DEF Jobs, Shaped, Fields
    <3>6. job'[b].rx = job[b].rx /\ job'[b].reader = job[b].reader
      BY <3>1, <3>3, <1>j DEF Jobs, Shaped, Fields
    <3>7. Parks(b)
      BY <3>3, <3>5, <3>6 DEF Parks
    <3> QED BY <2>0, <3>4, <3>7, <1>c, ParksEnds
  <2> QED BY <1>4, <2>1, <2>2 DEF ContextStep
<1>5. CASE PostContextPoisoned
  BY <1>0, <1>5 DEF PostContextPoisoned, runnerVars
<1>6. ASSUME NEW r \in Rebuilds, PostRebuild(r) \/ RebuildTask(r) \/ RebuildTaskFails(r)
      PROVE  EndInv'
  BY <1>0, <1>6 DEF PostRebuild, RebuildTask, RebuildTaskFails, runnerVars
<1>7. ASSUME NEW b \in Batches,
             PostExecute(b) \/ RunnerStep(b) \/ (ReaderDrops(b) /\ UNCHANGED workerVars)
      PROVE  EndInv'
  <2>1. CASE PostExecute(b)
    <3>1. /\ job[b].st = "idle" /\ job' = [job EXCEPT ![b].st = "posted"]
          /\ kind' = kind /\ chan' = chan /\ out' = out
      BY <2>1 DEF PostExecute
    <3>2. \A c \in Batches : job'[c] = job[c] \/ Parks(c)
      BY <3>1, <1>j, StatusParks
    <3> QED BY <3>1, <3>2, <1>c, ParksEnds
  <2>2. CASE TaskStep(b) \/ ProducerStep(b) \/ ReaderDrops(b)
    BY <2>2, <1>j, <1>c, RunnerEnds
  <2> QED BY <1>7, <2>1, <2>2 DEF RunnerStep
<1>8. CASE UNCHANGED vars
  BY <1>0, <1>8 DEF vars, runnerVars
<1> QED BY <1>1, <1>2, <1>3, <1>4, <1>5, <1>6, <1>7, <1>8 DEF WorkerNext, WorkerStep

(***************************************************************************)
(* worker.rs and the runners: a consumer that stayed, and whose batch was  *)
(* executed by any runner with one producer per batch, is handed a finish  *)
(* or an error before its stream closes - whatever fails to launch, submit *)
(* or run, and however often the context is replaced meanwhile.  Excepted  *)
(* are the producers that stop in silence: a panic of the task, mistral.rs *)
(* when the library ends its stream, and a script without chunks.          *)
(***************************************************************************)
THEOREM EndsExplained == WorkerSpec => []EndIsExplained
<1>1. WorkerInit => EndInv
  <2> SUFFICES ASSUME WorkerInit PROVE EndInv
    OBVIOUS
  <2>1. /\ job = [b \in Batches |-> NoJob] /\ chan = [b \in Batches |-> <<>>]
        /\ out = [b \in Batches |-> NoOut]
    BY DEF WorkerInit, RunnerInit
  <2>2. /\ NoJob.st = "idle" /\ NoJob.prod = "none" /\ NoJob.fin = None /\ NoJob.rx = TRUE
    BY DEF NoJob
  <2>3. Written(NoOut)
    BY DEF Written, NoOut
  <2>4. Queued(<<>>)
    <3>1. <<>> \in Seq({})
      OBVIOUS
    <3> QED BY <3>1 DEF Queued
  <2>5. Outs /\ Chans
    BY <2>1, <2>3, <2>4 DEF Outs, Chans
  <2>6. \A b \in Batches : Ends(b)
    BY <2>1, <2>2 DEF Ends, Explained
  <2> QED BY <2>5, <2>6 DEF EndInv
<1>2. WorkerInv /\ EndInv /\ [WorkerNext]_vars => EndInv'
  BY WorkerEnds
<1>3. EndInv => EndIsExplained
  BY DEF EndInv, EndIsExplained, Ends
<1> QED BY <1>1, <1>2, <1>3, WorkerInvariance, PTL DEF WorkerSpec

-----------------------------------------------------------------------------
(* A set of natural numbers has a least one.                               *)
LEMMA LeastNat ==
    ASSUME NEW S, S \subseteq Nat, S # {}
    PROVE  \E m \in S : \A x \in S : m <= x
<1> DEFINE R == OpToRel(<, Nat)
<1>1. IsWellFoundedOn(R, Nat)
  BY NatLessThanWellFounded
<1>2. \A x, y \in Nat : <<y, x>> \in R <=> y < x
  BY DEF OpToRel
<1> HIDE DEF R
<1>3. PICK m \in S : \A y \in S : ~(<<y, m>> \in R)
  BY <1>1, WFMin
<1>4. \A y \in S : ~(y < m)
  BY <1>2, <1>3
<1>5. \A y \in S : m <= y
  BY <1>4
<1> QED BY <1>5

(* Induction: a set that holds zero and every successor of its members.    *)
LEMMA NatSet ==
    ASSUME NEW P, 0 \in P, \A n \in Nat : n \in P => n + 1 \in P
    PROVE  Nat \subseteq P
<1> SUFFICES ASSUME NEW x \in Nat, x \notin P PROVE FALSE
  OBVIOUS
<1> DEFINE Bad == {n \in Nat : n \notin P}
<1>1. Bad \subseteq Nat /\ Bad # {}
  OBVIOUS
<1> HIDE DEF Bad
<1>2. PICK m \in Bad : \A y \in Bad : m <= y
  BY <1>1, LeastNat
<1>3. m \in Nat /\ m \notin P
  BY <1>2 DEF Bad
<1>4. m # 0
  BY <1>3
<1>5. m - 1 \in Nat /\ m - 1 < m /\ (m - 1) + 1 = m
  BY <1>3, <1>4
<1>6. m - 1 \in P
  BY <1>5, <1>2, <1>3 DEF Bad
<1> QED BY <1>3, <1>5, <1>6

(***************************************************************************)
(* Definition by recursion on the natural numbers: a first value and a     *)
(* step give a sequence of values.  Partial sequences exist for every      *)
(* length, agree where both are defined, and so make up a whole one.       *)
(***************************************************************************)
IsStep(st, V) == st \in [Nat \X V -> V]
Unfolds(f, V, base, st) ==
    f \in [Nat -> V] /\ f[0] = base /\ \A n \in Nat : f[n + 1] = st[<<n, f[n]>>]

(* A first value and a step unfold to a function on the natural numbers.   *)
LEMMA Recursion ==
    ASSUME NEW V, NEW base, base \in V, NEW st, IsStep(st, V)
    PROVE  \E f : Unfolds(f, V, base, st)
<1>0. st \in [Nat \X V -> V]
  BY DEF IsStep
<1> DEFINE Is(g, n) == /\ g \in [0..n -> V] /\ g[0] = base
                       /\ \A k \in Nat : k < n => g[k + 1] = st[<<k, g[k]>>]
           P == {n \in Nat : \E g : Is(g, n)}
<1>1. 0 \in P
  <2> DEFINE g == [k \in 0..0 |-> base]
  <2>1. g \in [0..0 -> V] /\ g[0] = base /\ \A k \in Nat : ~(k < 0)
    OBVIOUS
  <2>2. Is(g, 0)
    BY <2>1
  <2> QED BY <2>2
<1>2. ASSUME NEW n \in Nat, n \in P PROVE n + 1 \in P
  <2>1. PICK g : Is(g, n)
    BY <1>2
  <2> DEFINE h == [k \in 0..(n + 1) |-> IF k = n + 1 THEN st[<<n, g[n]>>] ELSE g[k]]
  <2>2. g \in [0..n -> V] /\ n \in 0..n /\ g[n] \in V
    BY <2>1
  <2>3. st[<<n, g[n]>>] \in V
    BY <2>2, <1>0
  <2>4. h \in [0..(n + 1) -> V]
    BY <2>2, <2>3
  <2>5. \A k \in 0..n : h[k] = g[k]
    OBVIOUS
  <2>6. h[n + 1] = st[<<n, g[n]>>]
    OBVIOUS
  <2>7. h[0] = base
    BY <2>1, <2>5
  <2> HIDE DEF h
  <2>8. ASSUME NEW k \in Nat, k < n + 1 PROVE h[k + 1] = st[<<k, h[k]>>]
    <3>1. CASE k = n
      BY <3>1, <2>5, <2>6
    <3>2. CASE k < n
      <4>1. k \in 0..n /\ k + 1 \in 0..n
        BY <3>2
      <4> QED BY <4>1, <3>2, <2>1, <2>5
    <3> QED BY <3>1, <3>2, <2>8
  <2>9. Is(h, n + 1)
    BY <2>4, <2>7, <2>8
  <2> QED BY <2>9
<1> HIDE DEF P
<1>3. Nat \subseteq P
  BY <1>1, <1>2, NatSet
<1>4. \A n \in Nat : \E g : Is(g, n)
  BY <1>3 DEF P
<1>5. ASSUME NEW g, NEW h, NEW n \in Nat, NEW m \in Nat, Is(g, n), Is(h, m)
      PROVE  \A k \in Nat : k <= n /\ k <= m => g[k] = h[k]
  <2> DEFINE Q == {k \in Nat : k <= n /\ k <= m => g[k] = h[k]}
  <2>1. 0 \in Q
    BY <1>5
  <2>2. ASSUME NEW k \in Nat, k \in Q PROVE k + 1 \in Q
    <3> SUFFICES ASSUME k + 1 <= n, k + 1 <= m PROVE g[k + 1] = h[k + 1]
      OBVIOUS
    <3>1. k < n /\ k < m /\ k <= n /\ k <= m
      OBVIOUS
    <3>2. g[k] = h[k]
      BY <2>2, <3>1
    <3>3. g[k + 1] = st[<<k, g[k]>>]
      BY <1>5, <3>1
    <3>4. h[k + 1] = st[<<k, h[k]>>]
      BY <1>5, <3>1
    <3> QED BY <3>2, <3>3, <3>4
  <2> HIDE DEF Q
  <2>3. Nat \subseteq Q
    BY <2>1, <2>2, NatSet
  <2> QED BY <2>3 DEF Q
<1> DEFINE G(n) == CHOOSE g : Is(g, n)
           f == [n \in Nat |-> G(n)[n]]
<1>6. \A n \in Nat : Is(G(n), n)
  BY <1>4
<1> HIDE DEF G
<1>7. ASSUME NEW n \in Nat PROVE f[n] = G(n)[n] /\ G(n)[n] \in V
  <2>1. G(n) \in [0..n -> V] /\ n \in 0..n
    BY <1>6
  <2> QED BY <2>1
<1>8. f \in [Nat -> V]
  BY <1>7
<1> HIDE DEF f
<1>9. f[0] = base
  BY <1>6, <1>7
<1>10. ASSUME NEW n \in Nat PROVE f[n + 1] = st[<<n, f[n]>>]
  <2>1. Is(G(n), n) /\ Is(G(n + 1), n + 1)
    BY <1>6
  <2>2. G(n)[n] = G(n + 1)[n]
    <3> DEFINE a == G(n)
               b == G(n + 1)
    <3>1. Is(a, n) /\ Is(b, n + 1) /\ n + 1 \in Nat
      BY <2>1
    <3> HIDE DEF a, b, Is
    <3>2. \A k \in Nat : k <= n /\ k <= n + 1 => a[k] = b[k]
      BY <3>1, <1>5
    <3>3. a[n] = b[n]
      BY <3>2
    <3> QED BY <3>3 DEF a, b
  <2>3. G(n + 1)[n + 1] = st[<<n, G(n + 1)[n]>>]
    BY <2>1
  <2> QED BY <2>2, <2>3, <1>7
<1> QED BY <1>8, <1>9, <1>10 DEF Unfolds

(* The greatest of a nonempty set of numbers up to n.                      *)
LEMMA MaxUpTo ==
    ASSUME NEW n \in Nat, NEW s \in SUBSET (0..n), s # {}
    PROVE  Max(s) \in s /\ \A y \in s : y <= Max(s)
<1> DEFINE Up == {m \in Nat : \A y \in s : y <= m}
<1>1. Up \subseteq Nat /\ n \in Up
  OBVIOUS
<1> HIDE DEF Up
<1>2. PICK m \in Up : \A y \in Up : m <= y
  BY <1>1, LeastNat
<1>3. m \in Nat /\ \A y \in s : y <= m
  BY <1>2 DEF Up
<1>4. m \in s
  <2> SUFFICES ASSUME m \notin s PROVE FALSE
    OBVIOUS
  <2>1. PICK z \in s : TRUE
    OBVIOUS
  <2>2. z \in Nat /\ z <= m /\ z # m
    BY <1>3
  <2>3. m - 1 \in Nat
    BY <2>2, <1>3
  <2>4. \A y \in s : y <= m - 1
    BY <1>3
  <2>5. m - 1 \in Up
    BY <2>3, <2>4 DEF Up
  <2> QED BY <2>5, <1>2, <1>3
<1>5. \E x \in s : \A y \in s : x >= y
  BY <1>3, <1>4
<1>6. Max(s) \in s /\ \A y \in s : Max(s) >= y
  BY <1>5 DEF Max
<1> QED BY <1>6

(* The greatest position of a nonempty set of them.                        *)
LEMMA MaxInRange ==
    ASSUME NEW n \in Nat, NEW s \in SUBSET (1..n), s # {}
    PROVE  Max(s) \in s /\ Max(s) \in 1..n /\ \A y \in s : y <= Max(s)
<1>1. s \in SUBSET (0..n)
  OBVIOUS
<1> QED BY <1>1, MaxUpTo

(* The numbers up to k, and what is left of them without the greatest.     *)
LEMMA MaxOfRange ==
    ASSUME NEW k \in Nat, k # 0
    PROVE  1..k # {} /\ Max(1..k) = k /\ (1..k) \ {k} = 1..(k - 1)
<1>1. 1..k # {} /\ (1..k) \ {k} = 1..(k - 1)
  OBVIOUS
<1>0. 1..k \in SUBSET (0..k)
  OBVIOUS
<1>2. Max(1..k) \in 1..k /\ \A y \in 1..k : y <= Max(1..k)
  BY <1>0, <1>1, MaxUpTo
<1> QED BY <1>1, <1>2

(***************************************************************************)
(* The recursive function behind a fold over the positions 1 to n: it is   *)
(* defined on the sets of positions and takes the greatest one off.  The   *)
(* k-th stage is right on the sets within 1 to k, so the n-th is right on  *)
(* all of them.                                                            *)
(***************************************************************************)
FoldStep(f, s, base, st) == IF s = {} THEN base ELSE st[<<f[s \ {Max(s)}], Max(s)>>]
IsFoldStep(st, V, n) == st \in [V \X (1..n) -> V]
FoldsOver(f, V, n, base, st) ==
    f \in [SUBSET (1..n) -> V] /\ \A s \in SUBSET (1..n) : f[s] = FoldStep(f, s, base, st)

(* The steps of a fold over n places have such a run.                      *)
LEMMA FoldExists ==
    ASSUME NEW V, NEW base, base \in V, NEW n \in Nat, NEW st, IsFoldStep(st, V, n)
    PROVE  \E f : FoldsOver(f, V, n, base, st)
<1> DEFINE D == SUBSET (1..n)
           W == [D -> V]
           Stage(g) == [s \in D |-> FoldStep(g, s, base, st)]
           next == [p \in Nat \X W |-> Stage(p[2])]
           first == [s \in D |-> base]
<1>1. \A s \in D : s # {} => Max(s) \in s /\ Max(s) \in 1..n /\ s \ {Max(s)} \in D
  BY MaxInRange
<1>2. ASSUME NEW g \in W PROVE Stage(g) \in W
  <2>1. \A s \in D : FoldStep(g, s, base, st) \in V
    BY <1>1 DEF FoldStep, IsFoldStep
  <2> QED BY <2>1
<1>3. first \in W /\ next \in [Nat \X W -> W]
  BY <1>2
<1>4. \A k \in Nat, g \in W : next[<<k, g>>] = Stage(g)
  OBVIOUS
<1>0. \A g : \A s \in D : Stage(g)[s] = FoldStep(g, s, base, st)
  OBVIOUS
<1> HIDE DEF W, next, first, Stage
<1>r. PICK h : Unfolds(h, W, first, next)
  BY <1>3, Recursion DEF IsStep
<1>5. h \in [Nat -> W] /\ h[0] = first /\ \A k \in Nat : h[k + 1] = next[<<k, h[k]>>]
  BY <1>r DEF Unfolds
<1>6. \A k \in Nat : h[k] \in W /\ h[k + 1] = Stage(h[k])
  BY <1>4, <1>5
<1> DEFINE P == {k \in Nat : \A s \in D : s \subseteq 1..k => h[k + 1][s] = h[k][s]}
<1>7. 0 \in P
  <2>1. ASSUME NEW s \in D, s \subseteq 1..0 PROVE h[1][s] = h[0][s]
    <3>1. s = {}
      BY <2>1
    <3>2. h[1] = Stage(h[0])
      <4>1. 0 \in Nat /\ 0 + 1 = 1
        OBVIOUS
      <4> QED BY <4>1, <1>6
    <3>4. h[1][s] = base
      BY <3>2, <1>0, <3>1 DEF FoldStep
    <3>3. h[0][s] = base
      BY <1>5 DEF first
    <3> QED BY <3>3, <3>4
  <2> QED BY <2>1
<1>8. ASSUME NEW k \in Nat, k \in P PROVE k + 1 \in P
  <2>1. ASSUME NEW s \in D, s \subseteq 1..(k + 1) PROVE h[(k + 1) + 1][s] = h[k + 1][s]
    <3>1. h[(k + 1) + 1][s] = FoldStep(h[k + 1], s, base, st)
          /\ h[k + 1][s] = FoldStep(h[k], s, base, st)
      BY <1>6, <1>0
    <3>2. CASE s = {}
      BY <3>1, <3>2 DEF FoldStep
    <3>3. CASE s # {}
      <4>1. Max(s) \in s /\ s \ {Max(s)} \in D /\ \A y \in s : y <= Max(s)
        BY <3>3, <1>1, MaxInRange
      <4>2. s \ {Max(s)} \subseteq 1..k
        <5> SUFFICES ASSUME NEW y \in s, y # Max(s) PROVE y \in 1..k
          OBVIOUS
        <5>1. y \in 1..(k + 1) /\ Max(s) \in 1..(k + 1) /\ y <= Max(s)
          BY <4>1, <2>1
        <5> QED BY <5>1
      <4>3. h[k + 1][s \ {Max(s)}] = h[k][s \ {Max(s)}]
        BY <4>1, <4>2, <1>8
      <4> QED BY <4>3, <3>1, <3>3 DEF FoldStep
    <3> QED BY <3>2, <3>3
  <2> QED BY <2>1
<1> HIDE DEF P
<1>9. n \in P
  BY <1>7, <1>8, NatSet
<1>10. \A s \in D : h[n + 1][s] = h[n][s]
  BY <1>9 DEF P
<1>11. \A s \in D : h[n][s] = FoldStep(h[n], s, base, st)
  BY <1>6, <1>0, <1>10
<1>12. h[n] \in [SUBSET (1..n) -> V]
  BY <1>6 DEF W
<1> QED BY <1>11, <1>12 DEF FoldsOver

(***************************************************************************)
(* Running through the positions one by one: the fold over 1 to k, for k   *)
(* from 0 to n.  A fold whose steps stay in V is such a run.               *)
(***************************************************************************)
Trace(f, V, n, base, st) ==
    /\ f[1..0] = base /\ \A k \in 0..n : f[1..k] \in V
    /\ \A k \in 1..n : f[1..k] = st[<<f[1..(k - 1)], k>>]

FoldLike(f, V, n, base, st) ==
    /\ f[{}] = base
    /\ \A s \in SUBSET (1..n) :
         s # {} /\ f[s \ {Max(s)}] \in V => f[s] = st[<<f[s \ {Max(s)}], Max(s)>>]

(* Whatever satisfies the folds' recursive definition is that run: its     *)
(* value at each stage is the step applied to the stage before.            *)
LEMMA FoldRuns ==
    ASSUME NEW V, NEW base, base \in V, NEW n \in Nat, NEW st, IsFoldStep(st, V, n),
           NEW f, FoldLike(f, V, n, base, st)
    PROVE  Trace(f, V, n, base, st)
<1>1. 1..0 = {}
  OBVIOUS
<1>2. f[1..0] = base
  BY <1>1 DEF FoldLike
<1>3. ASSUME NEW k \in 1..n, f[1..(k - 1)] \in V
      PROVE  f[1..k] = st[<<f[1..(k - 1)], k>>] /\ f[1..k] \in V
  <2>1. 1..k \in SUBSET (1..n) /\ k \in Nat /\ k # 0
    OBVIOUS
  <2>2. 1..k # {} /\ Max(1..k) = k /\ (1..k) \ {k} = 1..(k - 1)
    BY <2>1, MaxOfRange
  <2>3. f[1..k] = st[<<f[1..(k - 1)], k>>]
    BY <2>1, <2>2, <1>3 DEF FoldLike
  <2> QED BY <2>3, <1>3 DEF IsFoldStep
<1> DEFINE P == {k \in Nat : k \in 0..n => f[1..k] \in V}
<1>4. 0 \in P
  BY <1>2
<1>5. ASSUME NEW k \in Nat, k \in P PROVE k + 1 \in P
  <2> SUFFICES ASSUME k + 1 \in 0..n PROVE f[1..(k + 1)] \in V
    OBVIOUS
  <2>1. k \in 0..n /\ k + 1 \in 1..n /\ (k + 1) - 1 = k
    OBVIOUS
  <2>2. f[1..((k + 1) - 1)] \in V
    BY <2>1, <1>5
  <2> QED BY <2>1, <2>2, <1>3
<1> HIDE DEF P
<1>6. Nat \subseteq P
  BY <1>4, <1>5, NatSet
<1>7. \A k \in 0..n : f[1..k] \in V
  BY <1>6 DEF P
<1>8. ASSUME NEW k \in 1..n PROVE f[1..k] = st[<<f[1..(k - 1)], k>>]
  <2>1. k - 1 \in 0..n
    OBVIOUS
  <2> QED BY <2>1, <1>7, <1>3
<1> QED BY <1>2, <1>7, <1>8 DEF Trace

-----------------------------------------------------------------------------
(* What is known of a sequence.                                            *)
LEMMA SeqFacts ==
    ASSUME NEW S, NEW s \in Seq(S)
    PROVE  Len(s) \in Nat /\ DOMAIN s = 1..Len(s) /\ \A i \in 1..Len(s) : s[i] \in S
BY LenProperties, ElementOfSeq

(* One item more: the sequence with the same items, and x behind them.     *)
LEMMA IsAppended ==
    ASSUME NEW S, NEW q, q \in Seq(S), NEW x, x \in S, NEW p, p \in Seq(S), Len(p) = Len(q) + 1,
           \A i \in 1..Len(q) : p[i] = q[i], p[Len(q) + 1] = x
    PROVE  p = Append(q, x)
<1> DEFINE r == Append(q, x)
<1>1. /\ r \in Seq(S) /\ Len(r) = Len(q) + 1 /\ r[Len(q) + 1] = x
      /\ \A i \in 1..Len(q) : r[i] = q[i]
  BY AppendProperties
<1>2. Len(q) \in Nat
  BY SeqFacts
<1> HIDE DEF r
<1>3. \A i \in 1..Len(p) : p[i] = r[i]
  <2>1. \A i \in 1..Len(p) : i \in 1..Len(q) \/ i = Len(q) + 1
    BY <1>2
  <2> QED BY <2>1, <1>1
<1>4. p = r
  BY <1>1, <1>3, SeqEqual
<1> QED BY <1>4 DEF r

(* A longer sequence begins as the shorter one does.                       *)
Begins(a, b) == Len(a) <= Len(b) /\ \A i \in 1..Len(a) : a[i] = b[i]

-----------------------------------------------------------------------------
(***************************************************************************)
(* The decoder, one token at a time: the text so far and whether its last  *)
(* character is the first half of one, shown broken.                       *)
(***************************************************************************)
Token == Vocabulary \cup {"w"}
Char == Token \cup {"c", "?"}
Glyphs == [text : Seq(Char), half : BOOLEAN]
NoGlyphs == [text |-> <<>>, half |-> FALSE]
Glyph(acc, t) ==
    CASE t = "e" -> acc
      [] t = "h" /\ acc.half -> [text |-> Append(Front(acc.text), "c"), half |-> FALSE]
      [] t = "h" /\ ~acc.half -> [text |-> Append(acc.text, "?"), half |-> TRUE]
      [] OTHER -> [text |-> Append(acc.text, t), half |-> FALSE]

(* Only a broken character at the end is half of one.                      *)
Broken(g) == g.half => Len(g.text) > 0 /\ Last(g.text) = "?"
Decoding == {g \in Glyphs : Broken(g)}

Spells(d, ids) ==
    /\ d[1..0] = NoGlyphs /\ \A k \in 0..Len(ids) : d[1..k] \in Decoding
    /\ \A k \in 1..Len(ids) : d[1..k] = Glyph(d[1..(k - 1)], ids[k])

(* What a token does to the text.                                          *)
LEMMA GlyphIs ==
    ASSUME NEW acc, acc \in Glyphs, NEW t
    PROVE  /\ t = "e" => Glyph(acc, t) = acc
           /\ t = "h" /\ acc.half => Glyph(acc, t) = [text |-> Append(Front(acc.text), "c"), half |-> FALSE]
           /\ t = "h" /\ ~acc.half => Glyph(acc, t) = [text |-> Append(acc.text, "?"), half |-> TRUE]
           /\ t # "e" /\ t # "h" => Glyph(acc, t) = [text |-> Append(acc.text, t), half |-> FALSE]
BY DEF Glyph

(* It leaves the decoder in one of its states.                             *)
LEMMA GlyphDecodes ==
    ASSUME NEW acc \in Decoding, NEW t \in Token
    PROVE  Glyph(acc, t) \in Decoding
<1>1. acc \in Glyphs /\ acc.text \in Seq(Char) /\ acc.half \in BOOLEAN /\ Broken(acc)
  BY DEF Decoding, Glyphs
<1>c. t \in Char /\ "c" \in Char /\ "?" \in Char
  BY DEF Char
<1>2. ASSUME NEW s \in Seq(Char), NEW c \in Char
      PROVE  /\ Append(s, c) \in Seq(Char) /\ Len(Append(s, c)) = Len(s) + 1 /\ Len(s) \in Nat
             /\ Append(s, c)[Len(s) + 1] = c
  BY AppendProperties, LenProperties
<1>3. CASE t = "e"
  BY <1>1, <1>3, GlyphIs
<1>4. CASE t = "h" /\ acc.half
  <2>1. Front(acc.text) \in Seq(Char)
    <3>1. Len(acc.text) \in Nat /\ Len(acc.text) > 0
      BY <1>1, <1>4, LenProperties DEF Broken
    <3>2. \A i \in 1..(Len(acc.text) - 1) : acc.text[i] \in Char
      BY <3>1, <1>1, SeqFacts
    <3> QED BY <3>1, <3>2, <1>1, SubSeqProperties DEF Front
  <2> DEFINE x == Append(Front(acc.text), "c")
  <2>2. x \in Seq(Char)
    BY <2>1, <1>c, <1>2
  <2> HIDE DEF x
  <2>3. Glyph(acc, t) = [text |-> x, half |-> FALSE]
    BY <1>1, <1>4, GlyphIs DEF x
  <2> QED BY <2>2, <2>3 DEF Decoding, Glyphs, Broken
<1>5. CASE t = "h" /\ ~acc.half
  <2> DEFINE x == Append(acc.text, "?")
  <2>1. x \in Seq(Char) /\ Len(x) > 0 /\ x[Len(x)] = "?"
    BY <1>1, <1>c, <1>2
  <2> HIDE DEF x
  <2>2. Glyph(acc, t) = [text |-> x, half |-> TRUE]
    BY <1>1, <1>5, GlyphIs DEF x
  <2> QED BY <2>1, <2>2 DEF Decoding, Glyphs, Broken, Last
<1>6. CASE t # "e" /\ t # "h"
  <2> DEFINE x == Append(acc.text, t)
  <2>1. x \in Seq(Char)
    BY <1>1, <1>c, <1>2
  <2> HIDE DEF x
  <2>2. Glyph(acc, t) = [text |-> x, half |-> FALSE]
    BY <1>1, <1>6, GlyphIs DEF x
  <2> QED BY <2>1, <2>2 DEF Decoding, Glyphs, Broken
<1> QED BY <1>3, <1>4, <1>5, <1>6, <1>1

(* The decoder's state after some tokens; Decode gives its text.           *)
Decoded(ids) == FoldLeft(Glyph, NoGlyphs, ids)

(* What the tokenizer decodes is the text of that state.                   *)
LEMMA DecodeText ==
    ASSUME NEW ids
    PROVE  Decode(ids) = Decoded(ids).text
BY DEF Decode, Decoded, Glyph, NoGlyphs

(* Decoding is the loop over the tokens.                                   *)
LEMMA DecodedRuns ==
    ASSUME NEW ids \in Seq(Token)
    PROVE  \E d : Spells(d, ids) /\ Decoded(ids) = d[1..Len(ids)]
<1> DEFINE n == Len(ids)
           V == Decoding
           Def(d) == [s \in SUBSET (1..n) |->
                        IF s = {} THEN NoGlyphs ELSE Glyph(d[s \ {Max(s)}], ids[Max(s)])]
           it == CHOOSE d : d = Def(d)
           st == [p \in V \X (1..n) |-> Glyph(p[1], ids[p[2]])]
<1>1. n \in Nat /\ DOMAIN ids = 1..n /\ \A i \in 1..n : ids[i] \in Token
  BY SeqFacts
<1>2. Decoded(ids) = it[1..n]
  BY <1>1 DEF Decoded, FoldLeft, MapThenFoldSet
<1>3. NoGlyphs \in V
  BY EmptySeq DEF NoGlyphs, Decoding, Glyphs, Broken
<1>4. ASSUME NEW k \in V, NEW i \in 1..n PROVE Glyph(k, ids[i]) \in V
  BY <1>1, GlyphDecodes
<1> HIDE DEF V
<1>5. IsFoldStep(st, V, n) /\ \A k \in V, i \in 1..n : st[<<k, i>>] = Glyph(k, ids[i])
  BY <1>4 DEF IsFoldStep
<1> HIDE DEF st
<1>6. PICK f : FoldsOver(f, V, n, NoGlyphs, st)
  BY <1>1, <1>3, <1>5, FoldExists
<1>7. f = Def(f)
  <2>1. ASSUME NEW s \in SUBSET (1..n)
        PROVE  f[s] = IF s = {} THEN NoGlyphs ELSE Glyph(f[s \ {Max(s)}], ids[Max(s)])
    <3>1. f[s] = FoldStep(f, s, NoGlyphs, st)
      BY <1>6 DEF FoldsOver
    <3>2. CASE s = {}
      BY <3>1, <3>2 DEF FoldStep
    <3>3. CASE s # {}
      <4>1. Max(s) \in 1..n /\ s \ {Max(s)} \in SUBSET (1..n)
        BY <3>3, <1>1, MaxInRange
      <4>2. f[s \ {Max(s)}] \in V
        BY <4>1, <1>6 DEF FoldsOver
      <4> QED BY <4>1, <4>2, <3>1, <3>3, <1>5 DEF FoldStep
    <3> QED BY <3>2, <3>3
  <2>2. f = [s \in SUBSET (1..n) |-> f[s]]
    BY <1>6 DEF FoldsOver
  <2> QED BY <2>1, <2>2
<1>8. it = Def(it)
  <2> HIDE DEF Def
  <2> QED BY <1>7
<1> HIDE DEF it
<1>9. \A s \in SUBSET (1..n) :
        it[s] = IF s = {} THEN NoGlyphs ELSE Glyph(it[s \ {Max(s)}], ids[Max(s)])
  <2> DEFINE e == Def(it)
  <2>1. \A s \in SUBSET (1..n) :
          e[s] = IF s = {} THEN NoGlyphs ELSE Glyph(it[s \ {Max(s)}], ids[Max(s)])
    OBVIOUS
  <2>2. e = it
    BY <1>8
  <2> HIDE DEF e
  <2> QED BY <2>1, <2>2
<1>10. FoldLike(it, V, n, NoGlyphs, st)
  <2>1. \A s \in SUBSET (1..n) : s # {} => Max(s) \in 1..n
    BY <1>1, MaxInRange
  <2> QED BY <2>1, <1>5, <1>9 DEF FoldLike
<1>11. Trace(it, V, n, NoGlyphs, st)
  BY <1>1, <1>3, <1>5, <1>10, FoldRuns
<1>12. \A k \in 1..n : it[1..k] = Glyph(it[1..(k - 1)], ids[k])
  <2>1. \A k \in 1..n : k - 1 \in 0..n
    BY <1>1
  <2> QED BY <2>1, <1>5, <1>11 DEF Trace
<1>13. Spells(it, ids)
  BY <1>11, <1>12 DEF Trace, Spells, V
<1> QED BY <1>2, <1>13

(* Decoding a list of tokens and one it begins agree as far as the shorter *)
(* goes.                                                                   *)
LEMMA SpellsAgree ==
    ASSUME NEW a \in Seq(Token), NEW b \in Seq(Token), Begins(a, b),
           NEW g, NEW h, Spells(g, a), Spells(h, b)
    PROVE  \A k \in 0..Len(a) : g[1..k] = h[1..k]
<1> DEFINE P == {k \in Nat : k \in 0..Len(a) => g[1..k] = h[1..k]}
<1>0. Len(a) \in Nat /\ Len(b) \in Nat
  BY SeqFacts
<1>1. 0 \in P
  BY DEF Spells
<1>2. ASSUME NEW k \in Nat, k \in P PROVE k + 1 \in P
  <2> SUFFICES ASSUME k + 1 \in 0..Len(a) PROVE g[1..(k + 1)] = h[1..(k + 1)]
    OBVIOUS
  <2>1. k \in 0..Len(a) /\ k + 1 \in 1..Len(a) /\ k + 1 \in 1..Len(b) /\ (k + 1) - 1 = k
    BY <1>0 DEF Begins
  <2>2. g[1..k] = h[1..k] /\ a[k + 1] = b[k + 1]
    BY <2>1, <1>2 DEF Begins
  <2>3. g[1..(k + 1)] = Glyph(g[1..k], a[k + 1]) /\ h[1..(k + 1)] = Glyph(h[1..k], b[k + 1])
    BY <2>1 DEF Spells
  <2> QED BY <2>2, <2>3
<1> HIDE DEF P
<1>3. Nat \subseteq P
  BY <1>1, <1>2, NatSet
<1> QED BY <1>3, <1>0 DEF P

(* One more token.                                                         *)
LEMMA DecodedAppend ==
    ASSUME NEW ids \in Seq(Token), NEW t \in Token
    PROVE  /\ Decoded(Append(ids, t)) = Glyph(Decoded(ids), t)
           /\ Decoded(ids) \in Decoding
<1> DEFINE n == Len(ids)
           b == Append(ids, t)
<1>1. /\ n \in Nat /\ b \in Seq(Token) /\ Len(b) = n + 1 /\ b[n + 1] = t
      /\ \A i \in 1..n : ids[i] = b[i]
  BY SeqFacts, AppendProperties
<1>2. PICK g : Spells(g, ids) /\ Decoded(ids) = g[1..n]
  BY DecodedRuns
<1> HIDE DEF b
<1>3. PICK h : Spells(h, b) /\ Decoded(b) = h[1..(n + 1)]
  BY <1>1, DecodedRuns
<1>4. g[1..n] = h[1..n]
  <2>0. Begins(ids, b)
    BY <1>1 DEF Begins
  <2>1. \A k \in 0..Len(ids) : g[1..k] = h[1..k]
    BY <2>0, <1>1, <1>2, <1>3, SpellsAgree
  <2> QED BY <2>1, <1>1
<1>5. h[1..(n + 1)] = Glyph(h[1..n], t)
  <2>1. n + 1 \in 1..Len(b) /\ (n + 1) - 1 = n
    BY <1>1
  <2> QED BY <2>1, <1>1, <1>3 DEF Spells
<1>6. g[1..n] \in Decoding
  <2>1. n \in 0..Len(ids)
    BY <1>1
  <2> QED BY <2>1, <1>2 DEF Spells
<1> QED BY <1>2, <1>3, <1>4, <1>5, <1>6 DEF b

(* No tokens, no text.                                                     *)
LEMMA DecodedEmpty == Decoded(<<>>) = NoGlyphs
<1>1. <<>> \in Seq(Token) /\ Len(<<>>) = 0
  BY EmptySeq
<1>2. PICK g : Spells(g, <<>>) /\ Decoded(<<>>) = g[1..0]
  BY <1>1, DecodedRuns
<1> QED BY <1>2 DEF Spells

-----------------------------------------------------------------------------
(***************************************************************************)
(* Texts on their way.  s is the stretch of t from after a to z; a text E  *)
(* is carried when what the consumer has and what the channel holds are    *)
(* its successive stretches; a finish comes at its end.                    *)
(***************************************************************************)
Fits(s, t, a, z) ==
    /\ a \in Nat /\ z \in Nat /\ a <= z /\ z <= Len(t) /\ Len(s) = z - a
    /\ \A j \in 1..(z - a) : s[j] = t[a + j]

Cuts(cut, o, q, E) ==
    /\ cut \in [0..Len(q) -> Nat] /\ cut[Len(q)] = Len(E) /\ Fits(o, E, 0, cut[0])
    /\ \A i \in 1..Len(q) : /\ Fits(q[i].text, E, cut[i - 1], cut[i])
                            /\ q[i].fin # None => cut[i] = Len(E)
Carried(o, q, E) == \E cut : Cuts(cut, o, q, E)

(* IsPrefix says how a sequence begins.                                    *)
LEMMA PrefixBegins ==
    ASSUME NEW s \in Seq(Char), NEW t \in Seq(Char)
    PROVE  IsPrefix(s, t) <=> Begins(s, t)
<1> DEFINE n == Len(s)
           u == SubSeq(s, 1, n)
           v == SubSeq(t, 1, n)
<1>1. n \in Nat /\ Len(t) \in Nat
  BY LenProperties
<1>2. IsPrefix(s, t) <=> n <= Len(t) /\ u = v
  BY DEF IsPrefix
<1>3. ASSUME n <= Len(t) PROVE u = v <=> \A i \in 1..n : s[i] = t[i]
  <2>1. \A i \in 1..n : s[i] \in Char /\ t[i] \in Char
    BY <1>1, <1>3, SeqFacts
  <2>2. u \in Seq(Char) /\ Len(u) = n /\ \A i \in 1..n : u[i] = s[i]
    <3>1. u \in Seq(Char)
      BY <1>1, <2>1, SubSeqProperties
    <3>2. Len(u) = n /\ \A i \in 1..n : u[i] = s[1 + i - 1]
      BY <1>1, <2>1, SubSeqProperties
    <3>3. \A i \in 1..n : 1 + i - 1 = i
      BY <1>1
    <3> QED BY <3>1, <3>2, <3>3
  <2>3. v \in Seq(Char) /\ Len(v) = n /\ \A i \in 1..n : v[i] = t[i]
    <3>1. v \in Seq(Char)
      BY <1>1, <2>1, SubSeqProperties
    <3>2. Len(v) = n /\ \A i \in 1..n : v[i] = t[1 + i - 1]
      BY <1>1, <2>1, SubSeqProperties
    <3>3. \A i \in 1..n : 1 + i - 1 = i
      BY <1>1
    <3> QED BY <3>1, <3>2, <3>3
  <2> HIDE DEF u, v
  <2>4. (\A i \in 1..n : s[i] = t[i]) => u = v
    BY <2>2, <2>3, SeqEqual
  <2>5. u = v => \A i \in 1..n : s[i] = t[i]
    BY <2>2, <2>3
  <2> QED BY <2>4, <2>5
<1> HIDE DEF u, v
<1> QED BY <1>2, <1>3 DEF Begins

(* What begins a text and is as long is the text.                          *)
LEMMA BeginsWhole ==
    ASSUME NEW s \in Seq(Char), NEW t \in Seq(Char), Begins(s, t), Len(s) >= Len(t)
    PROVE  s = t
<1>1. Len(s) \in Nat /\ Len(t) \in Nat
  BY LenProperties
<1>2. Len(s) = Len(t) /\ \A i \in 1..Len(s) : s[i] = t[i]
  BY <1>1 DEF Begins
<1> QED BY <1>2, SeqEqual

(* Beginnings of beginnings are beginnings.                                *)
LEMMA BeginsOn ==
    ASSUME NEW s \in Seq(Char), NEW t \in Seq(Char), NEW u \in Seq(Char), Begins(s, t), Begins(t, u)
    PROVE  Begins(s, u)
<1>1. Len(s) \in Nat /\ Len(t) \in Nat /\ Len(u) \in Nat
  BY LenProperties
<1> QED BY <1>1 DEF Begins

(* One text behind another.                                                *)
LEMMA Joined ==
    ASSUME NEW s \in Seq(Char), NEW t \in Seq(Char)
    PROVE  /\ s \o t \in Seq(Char) /\ Len(s \o t) = Len(s) + Len(t) /\ Len(s) \in Nat /\ Len(t) \in Nat
           /\ \A i \in 1..Len(s) : (s \o t)[i] = s[i]
           /\ \A j \in 1..Len(t) : (s \o t)[Len(s) + j] = t[j]
           /\ Begins(s, s \o t)
<1>1. Len(s) \in Nat /\ Len(t) \in Nat
  BY LenProperties
<1>2. s \o t \in Seq(Char)
  BY ConcatProperties
<1>3. Len(s \o t) = Len(s) + Len(t)
  BY ConcatProperties
<1>4. \A i \in 1..(Len(s) + Len(t)) : (s \o t)[i] = IF i <= Len(s) THEN s[i] ELSE t[i - Len(s)]
  BY ConcatProperties
<1>5. \A i \in 1..Len(s) : (s \o t)[i] = s[i]
  BY <1>1, <1>4
<1>6. ASSUME NEW j \in 1..Len(t) PROVE (s \o t)[Len(s) + j] = t[j]
  <2>1. Len(s) + j \in 1..(Len(s) + Len(t)) /\ ~(Len(s) + j <= Len(s)) /\ (Len(s) + j) - Len(s) = j
    BY <1>1
  <2> QED BY <2>1, <1>4
<1>7. Begins(s, s \o t)
  BY <1>1, <1>3, <1>5 DEF Begins
<1> QED BY <1>1, <1>2, <1>3, <1>5, <1>6, <1>7

(* A stretch of a text is the same stretch of every text it begins.        *)
LEMMA FitsLonger ==
    ASSUME NEW E \in Seq(Char), NEW F \in Seq(Char), Begins(E, F), NEW s, NEW a, NEW z, Fits(s, E, a, z)
    PROVE  Fits(s, F, a, z)
<1>1. Len(E) \in Nat /\ Len(F) \in Nat /\ Len(E) <= Len(F) /\ \A i \in 1..Len(E) : E[i] = F[i]
  BY LenProperties DEF Begins
<1>2. /\ a \in Nat /\ z \in Nat /\ a <= z /\ z <= Len(E) /\ Len(s) = z - a
      /\ \A j \in 1..(z - a) : s[j] = E[a + j]
  BY DEF Fits
<1>3. z <= Len(F) /\ \A j \in 1..(z - a) : a + j \in 1..Len(E)
  BY <1>1, <1>2
<1>4. \A j \in 1..(z - a) : s[j] = F[a + j]
  BY <1>1, <1>2, <1>3
<1> QED BY <1>2, <1>3, <1>4 DEF Fits

(* Nothing is on the way yet.                                              *)
LEMMA CarriedNothing == Carried(<<>>, <<>>, <<>>)
<1> DEFINE cut == [i \in 0..0 |-> 0]
<1>1. Len(<<>>) = 0 /\ cut \in [0..0 -> Nat] /\ cut[0] = 0 /\ 1..0 = {}
  BY EmptySeq
<1>2. Fits(<<>>, <<>>, 0, 0)
  BY <1>1 DEF Fits
<1> HIDE DEF cut
<1>3. Cuts(cut, <<>>, <<>>, <<>>)
  BY <1>1, <1>2 DEF Cuts
<1> QED BY <1>3 DEF Carried

(* An item is sent: its text is carried too.  After a finish it has none.  *)
LEMMA CarriedSend ==
    ASSUME NEW o, NEW q, Queued(q), NEW E \in Seq(Char), Carried(o, q, E), NEW x, x.text \in Seq(Char),
           (\E i \in 1..Len(q) : q[i].fin # None) => x.text = <<>>
    PROVE  Carried(o, q \o <<x>>, E \o x.text)
<1> DEFINE F == E \o x.text
           n == Len(q)
           p == q \o <<x>>
<1>1. n \in Nat /\ Len(p) = n + 1 /\ p[n + 1] = x /\ \A i \in 1..n : p[i] = q[i]
  BY Behind
<1>2. /\ F \in Seq(Char) /\ Len(F) = Len(E) + Len(x.text) /\ Len(E) \in Nat /\ Len(x.text) \in Nat
      /\ \A j \in 1..Len(x.text) : F[Len(E) + j] = x.text[j]
      /\ Begins(E, F)
  BY Joined
<1>3. PICK cut : Cuts(cut, o, q, E)
  BY DEF Carried
<1> HIDE DEF F, n, p
<1>4. /\ cut \in [0..n -> Nat] /\ cut[n] = Len(E) /\ Fits(o, E, 0, cut[0])
      /\ \A i \in 1..n : Fits(q[i].text, E, cut[i - 1], cut[i])
      /\ \A i \in 1..n : q[i].fin # None => cut[i] = Len(E)
  BY <1>3 DEF Cuts, n
<1> DEFINE new == [i \in 0..(n + 1) |-> IF i = n + 1 THEN Len(F) ELSE cut[i]]
<1>5. /\ new \in [0..(n + 1) -> Nat] /\ new[n + 1] = Len(F) /\ \A i \in 0..n : new[i] = cut[i]
  <2>1. \A i \in 0..(n + 1) : i = n + 1 \/ i \in 0..n
    BY <1>1
  <2>2. Len(F) \in Nat
    BY <1>2
  <2>3. \A i \in 0..n : i # n + 1 /\ i \in 0..(n + 1)
    BY <1>1
  <2>4. n + 1 \in 0..(n + 1)
    BY <1>1
  <2> QED BY <2>1, <2>2, <2>3, <2>4, <1>4
<1> HIDE DEF new
<1>6. Fits(o, F, 0, new[0])
  <2>1. 0 \in 0..n
    BY <1>1
  <2> QED BY <2>1, <1>2, <1>4, <1>5, FitsLonger
<1>7. ASSUME NEW i \in 1..(n + 1) PROVE Fits(p[i].text, F, new[i - 1], new[i])
  <2>1. CASE i = n + 1
    <3>1. new[i - 1] = Len(E) /\ new[i] = Len(F) /\ p[i] = x
      <4>1. i - 1 = n /\ n \in 0..n
        BY <2>1, <1>1
      <4> QED BY <4>1, <2>1, <1>1, <1>4, <1>5
    <3>2. Len(F) - Len(E) = Len(x.text) /\ Len(E) <= Len(F) /\ Len(F) \in Nat
      BY <1>2
    <3>3. Fits(x.text, F, Len(E), Len(F))
      BY <3>2, <1>2 DEF Fits
    <3> QED BY <3>1, <3>3
  <2>2. CASE i # n + 1
    <3>1. i \in 1..n /\ i - 1 \in 0..n /\ i \in 0..n
      BY <2>2, <1>1
    <3>2. Fits(q[i].text, E, cut[i - 1], cut[i]) /\ p[i] = q[i] /\ new[i - 1] = cut[i - 1]
          /\ new[i] = cut[i]
      BY <3>1, <1>1, <1>4, <1>5
    <3> QED BY <3>2, <1>2, FitsLonger
  <2> QED BY <2>1, <2>2
<1>e. ASSUME NEW i \in 1..(n + 1), p[i].fin # None PROVE new[i] = Len(F)
  <2>1. CASE i = n + 1
    BY <2>1, <1>5
  <2>2. CASE i # n + 1
    <3>1. i \in 1..n /\ i \in 0..n
      BY <2>2, <1>1
    <3>2. p[i] = q[i] /\ new[i] = cut[i]
      BY <3>1, <1>1, <1>5
    <3>3. cut[i] = Len(E) /\ x.text = <<>>
      BY <1>e, <3>1, <3>2, <1>4 DEF n
    <3>4. Len(x.text) = 0
      BY <3>3, EmptySeq
    <3> QED BY <3>2, <3>3, <3>4, <1>2
  <2> QED BY <2>1, <2>2
<1>8. Cuts(new, o, p, F)
  BY <1>1, <1>5, <1>6, <1>7, <1>e DEF Cuts
<1> QED BY <1>8 DEF Carried, F, p

(* The first item is handed over.                                          *)
LEMMA CarriedDrain ==
    ASSUME NEW o \in Seq(Char), NEW S, NEW q \in Seq(S), q # <<>>, NEW E \in Seq(Char), Carried(o, q, E),
           Head(q).text \in Seq(Char)
    PROVE  /\ Carried(o \o Head(q).text, Tail(q), E)
           /\ Head(q).fin # None => o \o Head(q).text = E
<1> DEFINE n == Len(q)
           p == Tail(q)
           x == Head(q)
<1>1. /\ n \in Nat /\ n >= 1 /\ Len(p) = n - 1 /\ x = q[1] /\ \A i \in 1..(n - 1) : p[i] = q[i + 1]
  OBVIOUS
<1>3. PICK cut : Cuts(cut, o, q, E)
  BY DEF Carried
<1>h. x.text \in Seq(Char)
  OBVIOUS
<1> HIDE DEF n, p, x
<1>4. /\ cut \in [0..n -> Nat] /\ cut[n] = Len(E) /\ Fits(o, E, 0, cut[0])
      /\ \A i \in 1..n : Fits(q[i].text, E, cut[i - 1], cut[i])
      /\ \A i \in 1..n : q[i].fin # None => cut[i] = Len(E)
  BY <1>3 DEF Cuts, n
<1> DEFINE new == [i \in 0..(n - 1) |-> cut[i + 1]]
           r == o \o x.text
<1>5. new \in [0..(n - 1) -> Nat] /\ new[n - 1] = Len(E) /\ \A i \in 0..(n - 1) : new[i] = cut[i + 1]
  <2>1. \A i \in 0..(n - 1) : i + 1 \in 0..n
    BY <1>1
  <2>2. n - 1 \in 0..(n - 1) /\ (n - 1) + 1 = n
    BY <1>1
  <2> QED BY <2>1, <2>2, <1>4
<1> HIDE DEF new
<1>6. Fits(r, E, 0, new[0])
  <2> DEFINE a == cut[0]
             z == cut[1]
  <2>1. Fits(o, E, 0, a) /\ Fits(x.text, E, a, z) /\ new[0] = z
    <3>1. 1 \in 1..n /\ 1 - 1 = 0 /\ 0 \in 0..(n - 1) /\ 0 + 1 = 1
      BY <1>1
    <3> QED BY <3>1, <1>1, <1>4, <1>5
  <2> HIDE DEF a, z
  <2>2. /\ a \in Nat /\ z \in Nat /\ a <= z /\ z <= Len(E) /\ Len(o) = a /\ Len(x.text) = z - a
        /\ \A j \in 1..a : o[j] = E[j]
        /\ \A j \in 1..(z - a) : x.text[j] = E[a + j]
    <3>1. \A j \in 1..(a - 0) : o[j] = E[0 + j]
      BY <2>1 DEF Fits
    <3>2. a \in Nat /\ Len(o) = a - 0
      BY <2>1 DEF Fits
    <3>3. a - 0 = a /\ \A j \in 1..a : 0 + j = j
      BY <3>2
    <3>4. /\ z \in Nat /\ a <= z /\ z <= Len(E) /\ Len(x.text) = z - a
          /\ \A j \in 1..(z - a) : x.text[j] = E[a + j]
      BY <2>1 DEF Fits
    <3> QED BY <3>1, <3>2, <3>3, <3>4
  <2>3. /\ Len(r) = a + (z - a)
        /\ \A i \in 1..a : r[i] = o[i]
        /\ \A j \in 1..(z - a) : r[a + j] = x.text[j]
    <3>1. Len(r) = Len(o) + Len(x.text)
      BY <1>h, Joined
    <3>2. \A i \in 1..Len(o) : r[i] = o[i]
      BY <1>h, Joined
    <3>3. \A j \in 1..Len(x.text) : r[Len(o) + j] = x.text[j]
      BY <1>h, Joined
    <3> HIDE DEF r
    <3> QED BY <3>1, <3>2, <3>3, <2>2
  <2> HIDE DEF r
  <2>4. ASSUME NEW j \in 1..z PROVE r[j] = E[j]
    <3>1. CASE j <= a
      BY <3>1, <2>2, <2>3
    <3>2. CASE ~(j <= a)
      <4>1. j - a \in 1..(z - a) /\ a + (j - a) = j
        BY <3>2, <2>2
      <4>2. r[a + (j - a)] = x.text[j - a] /\ x.text[j - a] = E[a + (j - a)]
        BY <4>1, <2>2, <2>3
      <4> QED BY <4>1, <4>2
    <3> QED BY <3>1, <3>2
  <2>5. z - 0 = z /\ Len(r) = z /\ 0 <= z /\ \A j \in 1..z : 0 + j = j
    BY <2>2, <2>3
  <2> QED BY <2>1, <2>2, <2>4, <2>5 DEF Fits
<1>7. ASSUME NEW i \in 1..(n - 1) PROVE Fits(p[i].text, E, new[i - 1], new[i])
  <2>1. i + 1 \in 1..n /\ i - 1 \in 0..(n - 1) /\ i \in 0..(n - 1) /\ (i + 1) - 1 = i
        /\ (i - 1) + 1 = i
    BY <1>1
  <2>2. Fits(q[i + 1].text, E, cut[(i + 1) - 1], cut[i + 1])
    BY <2>1, <1>4
  <2> QED BY <2>1, <2>2, <1>1, <1>5
<1>e. ASSUME NEW i \in 1..(n - 1), p[i].fin # None PROVE new[i] = Len(E)
  <2>1. i + 1 \in 1..n /\ i \in 0..(n - 1)
    BY <1>1
  <2> QED BY <2>1, <1>e, <1>1, <1>4, <1>5
<1>8. Cuts(new, r, p, E)
  BY <1>1, <1>5, <1>6, <1>7, <1>e DEF Cuts
<1>9. ASSUME x.fin # None PROVE r = E
  <2>1. 1 \in 1..n /\ 0 \in 0..(n - 1) /\ 0 + 1 = 1
    BY <1>1
  <2>2. new[0] = Len(E)
    BY <2>1, <1>9, <1>1, <1>4, <1>5
  <2>3. r \in Seq(Char) /\ Len(E) \in Nat
    BY <1>h, Joined, LenProperties
  <2> HIDE DEF r
  <2>4. Len(r) = Len(E) - 0 /\ \A j \in 1..(Len(E) - 0) : r[j] = E[0 + j]
    BY <1>6, <2>2 DEF Fits
  <2>5. Len(r) = Len(E) /\ \A j \in 1..Len(E) : r[j] = E[j]
    BY <2>3, <2>4
  <2> QED BY <2>3, <2>5, SeqEqual
<1> QED BY <1>8, <1>9 DEF Carried, p, x, r

(* What was handed over begins the text, and is all of it when nothing is  *)
(* left in the channel.                                                    *)
LEMMA CarriedBegins ==
    ASSUME NEW o \in Seq(Char), NEW q, Queued(q), NEW E \in Seq(Char), Carried(o, q, E)
    PROVE  Begins(o, E) /\ (q = <<>> => o = E)
<1>1. PICK cut : Cuts(cut, o, q, E)
  BY DEF Carried
<1>2. Fits(o, E, 0, cut[0]) /\ cut[Len(q)] = Len(E)
  BY <1>1 DEF Cuts
<1> DEFINE z == cut[0]
<1>3. z \in Nat /\ z <= Len(E) /\ Len(o) = z - 0 /\ \A j \in 1..(z - 0) : o[j] = E[0 + j]
  BY <1>2 DEF Fits
<1> HIDE DEF z
<1>4. Len(o) = z /\ \A j \in 1..z : o[j] = E[j]
  BY <1>3
<1>5. Begins(o, E)
  BY <1>3, <1>4 DEF Begins
<1>6. ASSUME q = <<>> PROVE o = E
  <2>1. Len(q) = 0
    BY <1>6, EmptySeq
  <2>2. z = Len(E)
    BY <2>1, <1>2 DEF z
  <2>3. Len(E) \in Nat
    BY LenProperties
  <2> QED BY <2>2, <2>3, <1>4, <1>5, BeginsWhole
<1> QED BY <1>5, <1>6

-----------------------------------------------------------------------------
(***************************************************************************)
(* What was sent of the tokens so far is the beginning of their text, and  *)
(* a broken character is not part of it; only the ONNX runner sees halves  *)
(* of characters.                                                          *)
(***************************************************************************)
Lags(k, ids, sent) ==
    /\ ids \in Seq(Token) /\ sent \in Seq(Char)
    /\ Begins(sent, Decode(ids))
    /\ Decoded(ids).half => Len(sent) < Len(Decode(ids))
    /\ k # "ort" => ~Decoded(ids).half

(* Decoding gives a text, the one of the decoder's state.                  *)
LEMMA DecodeIsText ==
    ASSUME NEW ids \in Seq(Token)
    PROVE  Decode(ids) \in Seq(Char) /\ Decoded(ids) \in Decoding /\ Decode(ids) = Decoded(ids).text
<1>1. PICK t : t \in Token
  BY DEF Token
<1>2. Decoded(ids) \in Decoding
  BY <1>1, DecodedAppend
<1> QED BY <1>2, DecodeText DEF Decoding, Glyphs

(* The rest of a text.                                                     *)
LEMMA SuffixIs ==
    ASSUME NEW s \in Seq(Char), NEW t \in Seq(Char), Begins(s, t)
    PROVE  /\ Suffix(t, s) \in Seq(Char) /\ Len(Suffix(t, s)) = Len(t) - Len(s)
           /\ s \o Suffix(t, s) = t
           /\ Len(s) < Len(t) => Last(Suffix(t, s)) = Last(t)
<1> DEFINE m == Len(s)
           n == Len(t)
           r == Suffix(t, s)
           u == s \o r
<1>1. m \in Nat /\ n \in Nat /\ m <= n /\ \A i \in 1..m : s[i] = t[i]
  BY LenProperties DEF Begins
<1>0. r = SubSeq(t, m + 1, n)
  BY DEF Suffix
<1> HIDE DEF r
<1>a. \A i \in (m + 1)..n : t[i] \in Char
  BY <1>1, SeqFacts
<1>2. r \in Seq(Char)
  BY <1>0, <1>1, <1>a, SubSeqProperties
<1>3. Len(r) = n - m
  <2>1. Len(r) = IF m + 1 <= n THEN n - (m + 1) + 1 ELSE 0
    BY <1>0, <1>1, <1>a, SubSeqProperties
  <2> QED BY <2>1, <1>1
<1>4. \A i \in 1..(n - m) : r[i] = t[m + i]
  <2>1. \A i \in 1..(n - (m + 1) + 1) : r[i] = t[(m + 1) + i - 1]
    BY <1>0, <1>1, <1>a, SubSeqProperties
  <2>2. n - (m + 1) + 1 = n - m /\ \A i \in 1..(n - m) : (m + 1) + i - 1 = m + i
    BY <1>1
  <2> QED BY <2>1, <2>2
<1>5. u = t
  <2>1. u \in Seq(Char) /\ Len(u) = m + Len(r)
    BY <1>2, Joined
  <2>2. \A i \in 1..m : u[i] = s[i]
    BY <1>2, Joined
  <2>3. \A j \in 1..Len(r) : u[m + j] = r[j]
    BY <1>2, Joined
  <2> HIDE DEF u, m, n
  <2>4. ASSUME NEW i \in 1..n PROVE u[i] = t[i]
    <3>1. CASE i <= m
      BY <3>1, <2>2, <1>1
    <3>2. CASE ~(i <= m)
      <4>1. i - m \in 1..(n - m) /\ m + (i - m) = i
        BY <3>2, <1>1
      <4>2. u[m + (i - m)] = r[i - m] /\ r[i - m] = t[m + (i - m)]
        BY <4>1, <2>3, <1>3, <1>4
      <4> QED BY <4>1, <4>2
    <3> QED BY <3>1, <3>2
  <2>5. Len(u) = n
    BY <2>1, <1>1, <1>3
  <2> QED BY <2>1, <2>4, <2>5, SeqEqual DEF n
<1>6. ASSUME m < n PROVE Last(r) = Last(t)
  <2>1. n - m \in 1..(n - m) /\ m + (n - m) = n
    BY <1>1, <1>6
  <2>2. r[n - m] = t[m + (n - m)]
    BY <2>1, <1>4
  <2> QED BY <2>1, <2>2, <1>3 DEF Last
<1> QED BY <1>2, <1>3, <1>5, <1>6 DEF r

(* A whole character more.                                                 *)
LEMMA WordDecoded ==
    ASSUME NEW ids \in Seq(Token), ~Decoded(ids).half
    PROVE  /\ Append(ids, "w") \in Seq(Token) /\ ~Decoded(Append(ids, "w")).half
           /\ Decode(Append(ids, "w")) = Decode(ids) \o <<"w">> /\ Begins(Decode(ids), Decode(Append(ids, "w")))
<1> DEFINE g == Decoded(ids)
           h == Decoded(Append(ids, "w"))
<1>1. "w" \in Token /\ "w" \in Char
  BY DEF Token, Char
<1>2. Append(ids, "w") \in Seq(Token)
  BY <1>1, AppendProperties
<1>3. h = Glyph(g, "w") /\ g \in Decoding
  BY <1>1, DecodedAppend
<1>4. g \in Glyphs /\ g.text \in Seq(Char)
  BY <1>3 DEF Decoding, Glyphs
<1>5. h = [text |-> Append(g.text, "w"), half |-> FALSE]
  BY <1>3, <1>4, GlyphIs
<1>6. Decode(ids) = g.text /\ Decode(Append(ids, "w")) = h.text
  BY DecodeText
<1> HIDE DEF g, h
<1>7. h.text = Append(g.text, "w") /\ ~h.half
  BY <1>5
<1>8. Append(g.text, "w") = g.text \o <<"w">> /\ <<"w">> \in Seq(Char)
  BY <1>1, <1>4
<1>9. Begins(g.text, g.text \o <<"w">>)
  BY <1>4, <1>8, Joined
<1> QED BY <1>2, <1>6, <1>7, <1>8, <1>9 DEF g, h

(* vLLM, mistral.rs and the scripted runner: the text grows at its end.    *)
LEMMA LagsWord ==
    ASSUME NEW k, k # "ort", NEW ids, NEW sent, Lags(k, ids, sent)
    PROVE  Lags(k, Append(ids, "w"), sent) /\ Lags(k, Append(ids, "w"), Decode(Append(ids, "w")))
<1> DEFINE more == Append(ids, "w")
<1>1. ids \in Seq(Token) /\ sent \in Seq(Char) /\ Begins(sent, Decode(ids)) /\ ~Decoded(ids).half
  BY DEF Lags
<1>2. more \in Seq(Token) /\ ~Decoded(more).half /\ Begins(Decode(ids), Decode(more))
  BY <1>1, WordDecoded
<1>3. Decode(ids) \in Seq(Char) /\ Decode(more) \in Seq(Char)
  BY <1>1, <1>2, DecodeIsText
<1> HIDE DEF more
<1>4. Begins(sent, Decode(more))
  BY <1>1, <1>2, <1>3, BeginsOn
<1>5. Begins(Decode(more), Decode(more))
  BY <1>3, LenProperties DEF Begins
<1>6. Lags(k, more, sent) /\ Lags(k, more, Decode(more))
  BY <1>1, <1>2, <1>3, <1>4, <1>5 DEF Lags
<1> QED BY <1>6 DEF more

(* drive_generation's delta is the rest of the text.                       *)
LEMMA VllmDeltaIs ==
    ASSUME NEW s \in Seq(Char), NEW t \in Seq(Char), Begins(s, t)
    PROVE  VllmDelta(t, Len(s)) \in Seq(Char) /\ s \o VllmDelta(t, Len(s)) = t
<1>1. Len(s) \in Nat /\ Len(t) \in Nat
  BY LenProperties
<1>2. CASE Len(t) > Len(s)
  <2>1. VllmDelta(t, Len(s)) = Suffix(t, s)
    BY <1>2 DEF VllmDelta, Suffix
  <2> QED BY <2>1, SuffixIs
<1>3. CASE ~(Len(t) > Len(s))
  <2>1. VllmDelta(t, Len(s)) = <<>> /\ s = t
    BY <1>1, <1>3, BeginsWhole DEF VllmDelta
  <2>2. s \o <<>> = s /\ <<>> \in Seq(Char)
    BY ConcatEmptySeq, EmptySeq
  <2> QED BY <2>1, <2>2
<1> QED BY <1>2, <1>3

(* A text without its last character, and another one there.               *)
LEMMA Retouched ==
    ASSUME NEW s \in Seq(Char), NEW t \in Seq(Char), Begins(s, t), Len(s) < Len(t), NEW c \in Char
    PROVE  Begins(s, Append(Front(t), c))
<1> DEFINE n == Len(t)
           f == Front(t)
           u == Append(f, c)
<1>1. Len(s) \in Nat /\ n \in Nat /\ \A i \in 1..Len(s) : s[i] = t[i]
  BY LenProperties DEF Begins
<1>0. f = SubSeq(t, 1, n - 1)
  BY DEF Front
<1>a. \A i \in 1..(n - 1) : t[i] \in Char
  BY <1>1, SeqFacts
<1> HIDE DEF f, n
<1>2. f \in Seq(Char)
  BY <1>0, <1>1, <1>a, SubSeqProperties
<1>3. Len(f) = n - 1
  <2>1. Len(f) = IF 1 <= n - 1 THEN (n - 1) - 1 + 1 ELSE 0
    BY <1>0, <1>1, <1>a, SubSeqProperties
  <2>2. n >= 1
    BY <1>1 DEF n
  <2> QED BY <2>1, <2>2, <1>1
<1>4. \A i \in 1..(n - 1) : f[i] = t[i]
  <2>1. \A i \in 1..((n - 1) - 1 + 1) : f[i] = t[1 + i - 1]
    BY <1>0, <1>1, <1>a, SubSeqProperties
  <2>2. (n - 1) - 1 + 1 = n - 1 /\ \A i \in 1..(n - 1) : 1 + i - 1 = i
    BY <1>1
  <2> QED BY <2>1, <2>2
<1>5. Len(u) = (n - 1) + 1 /\ \A i \in 1..(n - 1) : u[i] = f[i]
  BY <1>2, <1>3, AppendProperties
<1>6. Len(s) <= n - 1
  BY <1>1 DEF n
<1> HIDE DEF u
<1>7. \A i \in 1..Len(s) : i \in 1..(n - 1)
  BY <1>1, <1>6
<1>8. Len(s) <= Len(u) /\ \A i \in 1..Len(s) : s[i] = u[i]
  BY <1>1, <1>4, <1>5, <1>6, <1>7
<1> QED BY <1>8 DEF Begins, u, f

(* One character more.                                                     *)
LEMMA Longer ==
    ASSUME NEW s \in Seq(Char), NEW t \in Seq(Char), Begins(s, t), NEW c \in Char
    PROVE  Begins(s, Append(t, c)) /\ Len(s) < Len(Append(t, c))
<1>1. Len(s) \in Nat /\ Len(t) \in Nat /\ Len(s) <= Len(t) /\ \A i \in 1..Len(s) : s[i] = t[i]
  BY LenProperties DEF Begins
<1>2. Len(Append(t, c)) = Len(t) + 1 /\ \A i \in 1..Len(t) : Append(t, c)[i] = t[i]
  BY AppendProperties
<1> QED BY <1>1, <1>2 DEF Begins

(* Whatever the token, what was sent begins the new text, and is shorter   *)
(* when that ends in half a character.                                     *)
LEMMA TokenDecoded ==
    ASSUME NEW ids, NEW sent, Lags("ort", ids, sent), NEW t \in Token
    PROVE  Lags("ort", Append(ids, t), sent)
<1> DEFINE more == Append(ids, t)
           g == Decoded(ids)
           h == Decoded(more)
<1>1. ids \in Seq(Token) /\ sent \in Seq(Char)
  BY DEF Lags
<1>2. more \in Seq(Token) /\ h = Glyph(g, t) /\ g \in Decoding /\ h \in Decoding
  BY <1>1, AppendProperties, DecodedAppend, GlyphDecodes
<1>3. Decode(ids) = g.text /\ Decode(more) = h.text
  BY DecodeText
<1>4. Begins(sent, g.text) /\ (g.half => Len(sent) < Len(g.text))
  BY <1>3 DEF Lags
<1>5. g \in Glyphs /\ g.text \in Seq(Char) /\ h.text \in Seq(Char) /\ g.half \in BOOLEAN
  BY <1>2 DEF Decoding, Glyphs
<1>c. t \in Char /\ "c" \in Char /\ "?" \in Char
  BY DEF Char
<1> HIDE DEF g, h, more
<1>6. Begins(sent, h.text) /\ (h.half => Len(sent) < Len(h.text))
  <2>1. CASE t = "e"
    <3>1. h = g
      BY <1>2, <1>5, <2>1, GlyphIs
    <3> QED BY <3>1, <1>4
  <2>2. CASE t = "h" /\ g.half
    <3>1. h = [text |-> Append(Front(g.text), "c"), half |-> FALSE]
      BY <1>2, <1>5, <2>2, GlyphIs
    <3>2. h.text = Append(Front(g.text), "c") /\ h.half = FALSE
      BY <3>1
    <3> QED BY <3>2, <1>1, <1>4, <1>5, <1>c, <2>2, Retouched
  <2>3. CASE t = "h" /\ ~g.half
    <3>1. h = [text |-> Append(g.text, "?"), half |-> TRUE]
      BY <1>2, <1>5, <2>3, GlyphIs
    <3>2. h.text = Append(g.text, "?")
      BY <3>1
    <3> QED BY <3>2, <1>1, <1>4, <1>5, <1>c, Longer
  <2>4. CASE t # "e" /\ t # "h"
    <3>1. h = [text |-> Append(g.text, t), half |-> FALSE]
      BY <1>2, <1>5, <2>4, GlyphIs
    <3>2. h.text = Append(g.text, t)
      BY <3>1
    <3> QED BY <3>2, <1>1, <1>4, <1>5, <1>c, Longer
  <2> QED BY <2>1, <2>2, <2>3, <2>4, <1>5
<1>7. Lags("ort", more, sent)
  BY <1>1, <1>2, <1>3, <1>6 DEF Lags, h
<1> QED BY <1>7 DEF more

(* One decode_delta: d is its answer and next what was sent after it.      *)
Advances(d, ids, sent, next) ==
    /\ d = DecodeDelta(sent, Decode(ids))
    /\ d.advance => next = Decode(ids)
    /\ ~d.advance => next = sent

(* decode_delta: what is sent next is the rest of the text, or nothing if  *)
(* that ends in a broken character.                                        *)
LEMMA DeltaLags ==
    ASSUME NEW ids, NEW sent, Lags("ort", ids, sent), NEW d, NEW next, Advances(d, ids, sent, next)
    PROVE  Lags("ort", ids, next) /\ d.delta \in Seq(Char) /\ next = sent \o d.delta
<1>a. /\ d = DecodeDelta(sent, Decode(ids))
      /\ d.advance => next = Decode(ids)
      /\ ~d.advance => next = sent
  BY DEF Advances
<1> DEFINE full == Decode(ids)
           rest == Suffix(full, sent)
<1>1. /\ ids \in Seq(Token) /\ sent \in Seq(Char) /\ Begins(sent, full)
      /\ Decoded(ids).half => Len(sent) < Len(full)
  BY DEF Lags
<1>2. full \in Seq(Char) /\ Decoded(ids) \in Decoding /\ full = Decoded(ids).text
  BY <1>1, DecodeIsText
<1>3. IsPrefix(sent, full)
  BY <1>1, <1>2, PrefixBegins
<1>4. /\ rest \in Seq(Char) /\ Len(rest) = Len(full) - Len(sent) /\ sent \o rest = full
      /\ Len(sent) < Len(full) => Last(rest) = Last(full)
  BY <1>1, <1>2, SuffixIs
<1>n. Len(sent) \in Nat /\ Len(full) \in Nat /\ Len(sent) <= Len(full)
  BY <1>1, <1>2, LenProperties DEF Begins
<1>5. \/ d = [delta |-> <<>>, advance |-> FALSE] /\ rest # <<>> /\ Last(rest) = "?"
      \/ d = [delta |-> rest, advance |-> TRUE] /\ ~(rest # <<>> /\ Last(rest) = "?")
  BY <1>3, <1>a DEF DecodeDelta
<1> HIDE DEF full, rest
<1>6. CASE d = [delta |-> <<>>, advance |-> FALSE]
  <2>1. next = sent /\ d.delta = <<>>
    BY <1>6, <1>a
  <2>2. sent \o <<>> = sent /\ <<>> \in Seq(Char)
    BY <1>1, ConcatEmptySeq, EmptySeq
  <2> QED BY <2>1, <2>2
<1>7. CASE d = [delta |-> rest, advance |-> TRUE] /\ ~(rest # <<>> /\ Last(rest) = "?")
  <2>1. next = full /\ d.delta = rest
    BY <1>7, <1>a DEF full
  <2>2. ~Decoded(ids).half
    <3> SUFFICES ASSUME Decoded(ids).half PROVE FALSE
      OBVIOUS
    <3>1. Len(sent) < Len(full) /\ Last(full) = "?"
      BY <1>1, <1>2 DEF Decoding, Broken
    <3>2. Last(rest) = "?" /\ Len(rest) # 0
      BY <3>1, <1>4, <1>n
    <3>3. rest # <<>>
      BY <3>2, EmptySeq
    <3> QED BY <3>2, <3>3, <1>7
  <2>3. Begins(full, full)
    BY <1>n DEF Begins
  <2>4. Lags("ort", ids, full)
    BY <1>1, <1>2, <2>2, <2>3 DEF Lags, full
  <2> QED BY <2>1, <2>4, <1>4
<1> QED BY <1>5, <1>6, <1>7

(* The final flush: the rest of the text.                                  *)
LEMMA TailIs ==
    ASSUME NEW k, NEW ids, NEW sent, Lags(k, ids, sent)
    PROVE  FinalTail(sent, Decode(ids)) \in Seq(Char) /\ sent \o FinalTail(sent, Decode(ids)) = Decode(ids)
<1>1. ids \in Seq(Token) /\ sent \in Seq(Char) /\ Begins(sent, Decode(ids))
  BY DEF Lags
<1>2. Decode(ids) \in Seq(Char)
  BY <1>1, DecodeIsText
<1>3. IsPrefix(sent, Decode(ids))
  BY <1>1, <1>2, PrefixBegins
<1>4. FinalTail(sent, Decode(ids)) = Suffix(Decode(ids), sent)
  BY <1>3 DEF FinalTail
<1> QED BY <1>1, <1>2, <1>4, SuffixIs

-----------------------------------------------------------------------------
(***************************************************************************)
(* What a batch's consumer has been handed.  While its stream is open,     *)
(* there is a text E: what was handed over and what waits in the channel.  *)
(* E begins what the model generated; it is what the producer knows it     *)
(* sent; and once a finish was sent it is all there is and will be, as     *)
(* the engine does not work on the batch any more (w: it still does).      *)
(***************************************************************************)
SaidFinish(o, q) == o.fin > 0 \/ \E i \in 1..Len(q) : q[i].fin # None
Settled(k, j) == j.prod \in {"done", "release"} \/ (k = "mistralrs" /\ j.fin # None)
Parcels(q) == Queued(q) /\ \A i \in 1..Len(q) : q[i].text \in Seq(Char)

Sends(k, j, w, E, said) ==
    /\ Begins(E, Decode(j.ids))
    /\ said => E = Decode(j.ids) /\ ~w /\ Settled(k, j)
    /\ k \in {"ort", "vllm"} /\ j.prod \notin {"done", "release"} => E = j.sent
    /\ k \in {"mistralrs", "mock"} /\ j.prod = "run" => E = Decode(j.ids)

Hands(k, j, q, o, w, E) ==
    /\ E \in Seq(Char) /\ o.text \in Seq(Char) /\ Parcels(q) /\ Carried(o.text, q, E)
    /\ o.fin > 0 => o.text = E
    /\ Sends(k, j, w, E, SaidFinish(o, q))

Quiet(o) == o.text = <<>> /\ o.fin = 0
Whole(j, o, w) ==
    /\ o.text \in Seq(Char) /\ Begins(o.text, Decode(j.ids))
    /\ o.fin > 0 => o.text = Decode(j.ids) /\ ~w
Untouched(j, q, o) ==
    j.ids = <<>> /\ j.sent = <<>> /\ q = <<>> /\ Quiet(o) /\ j.prod = "none" /\ j.rx /\ j.fin = None

Spoken(k, j, q, o, w) ==
    /\ Lags(k, j.ids, j.sent)
    /\ k # "vllm" => ~w
    /\ j.st = "stream" => j.rx /\ j.prod \notin {"none", "abort"} /\ \E E : Hands(k, j, q, o, w, E)
    /\ j.st = "closed" => Quiet(o) \/ (j.prod \in {"none", "done"} /\ Whole(j, o, w))
    /\ j.st \notin {"stream", "closed"} => Untouched(j, q, o) /\ ~w

(* No tokens, no text, and nothing to send.                                *)
LEMMA DecodeEmpty == Decode(<<>>) = <<>> /\ \A k : Lags(k, <<>>, <<>>)
<1>1. Decoded(<<>>) = NoGlyphs
  BY DecodedEmpty
<1>2. Decode(<<>>) = <<>> /\ ~Decoded(<<>>).half
  BY <1>1, DecodeText DEF NoGlyphs
<1>3. <<>> \in Seq(Token) /\ <<>> \in Seq(Char) /\ Len(<<>>) = 0
  BY EmptySeq
<1>4. Begins(<<>>, <<>>)
  BY <1>3 DEF Begins
<1> QED BY <1>2, <1>3, <1>4 DEF Lags

(* The property, of one batch.                                             *)
LEMMA SpokenExact ==
    ASSUME NEW k, NEW j, NEW q, NEW o, NEW w, Spoken(k, j, q, o, w)
    PROVE  IsPrefix(o.text, Decode(j.ids)) /\ (o.fin > 0 => o.text = Decode(j.ids))
<1>1. j.ids \in Seq(Token) /\ Decode(j.ids) \in Seq(Char)
  BY DecodeIsText DEF Spoken, Lags
<1>2. ASSUME Quiet(o) PROVE IsPrefix(o.text, Decode(j.ids)) /\ ~(o.fin > 0)
  <2>1. o.text = <<>> /\ ~(o.fin > 0)
    BY <1>2 DEF Quiet
  <2>2. <<>> \in Seq(Char) /\ Len(<<>>) = 0 /\ Len(Decode(j.ids)) \in Nat
    BY <1>1, EmptySeq, LenProperties
  <2>3. Begins(<<>>, Decode(j.ids))
    BY <2>2 DEF Begins
  <2> QED BY <2>1, <2>2, <2>3, <1>1, PrefixBegins
<1>3. CASE j.st = "stream"
  <2>1. PICK E : Hands(k, j, q, o, w, E)
    BY <1>3 DEF Spoken
  <2>2. /\ E \in Seq(Char) /\ o.text \in Seq(Char) /\ Queued(q) /\ Carried(o.text, q, E)
        /\ Begins(E, Decode(j.ids)) /\ (o.fin > 0 => o.text = E /\ E = Decode(j.ids))
    BY <2>1 DEF Hands, Sends, SaidFinish, Parcels
  <2>3. Begins(o.text, E)
    BY <2>2, CarriedBegins
  <2>4. Begins(o.text, Decode(j.ids))
    BY <2>2, <2>3, <1>1, BeginsOn
  <2> QED BY <2>2, <2>4, <1>1, PrefixBegins
<1>4. CASE j.st = "closed"
  <2>1. CASE Quiet(o)
    BY <2>1, <1>2
  <2>2. CASE Whole(j, o, w)
    BY <2>2, <1>1, PrefixBegins DEF Whole
  <2> QED BY <1>4, <2>1, <2>2 DEF Spoken
<1>5. CASE j.st \notin {"stream", "closed"}
  BY <1>5, <1>2 DEF Spoken, Untouched
<1> QED BY <1>3, <1>4, <1>5

(* Nothing that matters changes, but for the engine perhaps leaving off.   *)
LEMMA SpokenSame ==
    ASSUME NEW k, NEW j, NEW q, NEW o, NEW w, Spoken(k, j, q, o, w),
           NEW i, i.st = j.st, i.rx = j.rx, i.prod = j.prod, i.ids = j.ids, i.sent = j.sent, i.fin = j.fin,
           NEW v, v => w
    PROVE  Spoken(k, i, q, o, v)
<1>1. \A E : Hands(k, j, q, o, w, E) => Hands(k, i, q, o, v, E)
  BY DEF Hands, Sends, Settled
<1>2. Whole(j, o, w) => Whole(i, o, v)
  BY DEF Whole
<1>3. Untouched(j, q, o) => Untouched(i, q, o)
  BY DEF Untouched
<1> QED BY <1>1, <1>2, <1>3 DEF Spoken

(* Before the stream: the batch moves on, or closes without one.           *)
LEMMA SpokenMoves ==
    ASSUME NEW k, NEW j, NEW q, NEW o, NEW w, Spoken(k, j, q, o, w), j.st \notin {"stream", "closed"},
           NEW i, i.st # "stream", i.prod = j.prod, i.ids = j.ids, i.sent = j.sent, i.fin = j.fin,
           i.st # "closed" => i.rx = j.rx,
           NEW p, p.text = o.text, p.fin = o.fin, NEW v, v => w
    PROVE  Spoken(k, i, q, p, v)
<1>1. Untouched(j, q, o) /\ ~w
  BY DEF Spoken
<1>2. Quiet(p) /\ (i.st # "closed" => Untouched(i, q, p))
  BY <1>1 DEF Untouched, Quiet
<1> QED BY <1>1, <1>2 DEF Spoken

(* The stream opens.                                                       *)
LEMMA SpokenOpens ==
    ASSUME NEW k, NEW j, NEW q, NEW o, NEW w, Spoken(k, j, q, o, w), j.st \notin {"stream", "closed"},
           NEW i, i.st = "stream", i.prod \in {"session", "run"}, i.ids = j.ids, i.sent = j.sent,
           i.rx = j.rx, NEW v, k # "vllm" => ~v
    PROVE  Spoken(k, i, q, o, v)
<1>1. Untouched(j, q, o)
  BY DEF Spoken
<1>2. /\ i.ids = <<>> /\ i.sent = <<>> /\ q = <<>> /\ o.text = <<>> /\ o.fin = 0 /\ i.rx
      /\ Decode(<<>>) = <<>> /\ Lags(k, <<>>, <<>>)
  BY <1>1, DecodeEmpty DEF Untouched, Quiet
<1>3. <<>> \in Seq(Char) /\ <<>> \in Seq({}) /\ Len(<<>>) = 0 /\ 1..0 = {}
  BY EmptySeq
<1>4. Parcels(<<>>)
  BY <1>3 DEF Parcels, Queued
<1>5. ~SaidFinish(o, <<>>)
  BY <1>2, <1>3 DEF SaidFinish
<1>6. Begins(<<>>, <<>>)
  BY <1>3 DEF Begins
<1>7. Sends(k, i, v, <<>>, SaidFinish(o, q))
  BY <1>2, <1>5, <1>6 DEF Sends
<1>8. Hands(k, i, q, o, v, <<>>)
  BY <1>2, <1>3, <1>4, <1>7, CarriedNothing DEF Hands
<1> QED BY <1>2, <1>8 DEF Spoken

(* A step of the batch's producer: it matters only while the stream is     *)
(* open.                                                                   *)
LEMMA SpokenProduced ==
    ASSUME NEW k, NEW j, NEW q, NEW o, NEW w, Spoken(k, j, q, o, w), j.prod \notin {"none", "done"},
           NEW i, i.st = j.st, i.rx = j.rx, i.prod \notin {"none", "abort"}, Lags(k, i.ids, i.sent),
           NEW p, NEW v, k # "vllm" => ~v,
           \A E : j.st = "stream" /\ j.rx /\ Hands(k, j, q, o, w, E) => \E F : Hands(k, i, p, o, v, F)
    PROVE  Spoken(k, i, p, o, v)
<1>1. j.st = "stream" \/ (j.st = "closed" /\ Quiet(o))
  BY DEF Spoken, Untouched
<1>2. CASE j.st = "stream"
  <2>1. PICK E : Hands(k, j, q, o, w, E)
    BY <1>2 DEF Spoken
  <2>2. j.rx
    BY <1>2 DEF Spoken
  <2>3. \E F : Hands(k, i, p, o, v, F)
    BY <1>2, <2>1, <2>2
  <2> QED BY <1>2, <2>2, <2>3 DEF Spoken
<1>3. CASE j.st = "closed" /\ Quiet(o)
  BY <1>3 DEF Spoken
<1> QED BY <1>1, <1>2, <1>3

(* It sends an item.                                                       *)
LEMMA HandsSent ==
    ASSUME NEW k, NEW j, NEW q, NEW o, NEW w, NEW E, Hands(k, j, q, o, w, E),
           NEW x, x.text \in Seq(Char), SaidFinish(o, q) => x.text = <<>>,
           NEW i, NEW v, Sends(k, i, v, E \o x.text, SaidFinish(o, q) \/ x.fin # None)
    PROVE  Hands(k, i, q \o <<x>>, o, v, E \o x.text)
<1> DEFINE F == E \o x.text
           p == q \o <<x>>
<1>1. /\ E \in Seq(Char) /\ o.text \in Seq(Char) /\ Parcels(q) /\ Queued(q) /\ Carried(o.text, q, E)
      /\ o.fin > 0 => o.text = E
  BY DEF Hands, Parcels
<1>2. F \in Seq(Char)
  BY <1>1, Joined
<1>3. /\ Queued(p) /\ Len(q) \in Nat /\ Len(p) = Len(q) + 1
      /\ p[Len(q) + 1] = x /\ \A n \in 1..Len(q) : p[n] = q[n]
  BY <1>1, Behind
<1>4. Carried(o.text, p, F)
  BY <1>1, CarriedSend DEF SaidFinish
<1>5. o.fin > 0 => o.text = F
  <2>1. E \o <<>> = E
    BY <1>1, ConcatEmptySeq
  <2> QED BY <2>1, <1>1 DEF SaidFinish
<1>s. Sends(k, i, v, F, SaidFinish(o, q) \/ x.fin # None)
  OBVIOUS
<1> HIDE DEF p, F
<1>6. \A n \in 1..Len(p) : n \in 1..Len(q) \/ n = Len(q) + 1
  BY <1>3
<1>7. Parcels(p)
  <2>1. \A n \in 1..Len(p) : p[n].text \in Seq(Char)
    BY <1>1, <1>3, <1>6 DEF Parcels
  <2> QED BY <2>1, <1>3 DEF Parcels
<1>8. SaidFinish(o, p) => SaidFinish(o, q) \/ x.fin # None
  BY <1>3, <1>6 DEF SaidFinish
<1>9. Sends(k, i, v, F, SaidFinish(o, p))
  BY <1>s, <1>8 DEF Sends
<1>10. Hands(k, i, p, o, v, F)
  BY <1>1, <1>2, <1>4, <1>5, <1>7, <1>9 DEF Hands
<1> QED BY <1>10 DEF p, F

(* It sends nothing.                                                       *)
LEMMA HandsSilent ==
    ASSUME NEW k, NEW j, NEW q, NEW o, NEW w, NEW E, Hands(k, j, q, o, w, E),
           NEW i, NEW v, Sends(k, i, v, E, SaidFinish(o, q))
    PROVE  Hands(k, i, q, o, v, E)
BY DEF Hands

(* The first item of the channel is handed over.                           *)
LEMMA HandsOver ==
    ASSUME NEW k, NEW j, NEW q, q # <<>>, NEW o, o.fin \in Nat, NEW w, NEW E, Hands(k, j, q, o, w, E),
           NEW p, p.text = o.text \o Head(q).text, p.fin = o.fin + (IF Head(q).fin = None THEN 0 ELSE 1)
    PROVE  Hands(k, j, Tail(q), p, w, E)
<1> DEFINE x == Head(q)
           r == Tail(q)
<1>1. /\ E \in Seq(Char) /\ o.text \in Seq(Char) /\ Parcels(q) /\ Carried(o.text, q, E)
      /\ (o.fin > 0 => o.text = E) /\ Sends(k, j, w, E, SaidFinish(o, q))
  BY DEF Hands
<1>2. PICK S : q \in Seq(S)
  BY <1>1 DEF Parcels, Queued
<1>3. /\ Len(q) \in Nat /\ Len(q) >= 1 /\ x = q[1] /\ r \in Seq(S) /\ Len(r) = Len(q) - 1
      /\ \A i \in 1..(Len(q) - 1) : r[i] = q[i + 1]
  BY <1>2
<1> HIDE DEF r
<1>4. x.text \in Seq(Char)
  <2>1. 1 \in 1..Len(q)
    BY <1>3
  <2> QED BY <2>1, <1>1, <1>3 DEF Parcels
<1>5. Carried(p.text, r, E) /\ (x.fin # None => p.text = E)
  BY <1>1, <1>2, <1>4, CarriedDrain DEF r
<1>6. p.text \in Seq(Char) /\ Len(p.text) = Len(o.text) + Len(x.text) /\ Len(x.text) \in Nat
      /\ Len(o.text) \in Nat
  BY <1>1, <1>4, Joined
<1>7. Queued(r)
  BY <1>3 DEF Queued
<1>8. ASSUME p.fin > 0 PROVE p.text = E /\ SaidFinish(o, q)
  <2>1. CASE x.fin # None
    <3>1. 1 \in 1..Len(q)
      BY <1>3
    <3> QED BY <2>1, <3>1, <1>3, <1>5 DEF SaidFinish
  <2>2. CASE x.fin = None
    <3>1. o.fin > 0
      BY <2>2, <1>8
    <3>2. o.text = E
      BY <3>1, <1>1
    <3>3. Begins(p.text, E)
      BY <1>1, <1>5, <1>6, <1>7, CarriedBegins
    <3>4. Len(p.text) >= Len(E)
      BY <3>2, <1>6
    <3> QED BY <3>1, <3>3, <3>4, <1>1, <1>6, BeginsWhole DEF SaidFinish
  <2> QED BY <2>1, <2>2
<1>9. \A i \in 1..Len(r) : i + 1 \in 1..Len(q) /\ r[i] = q[i + 1]
  BY <1>3
<1> HIDE DEF x
<1>10. Parcels(r)
  BY <1>7, <1>9, <1>1 DEF Parcels
<1>11. SaidFinish(p, r) => SaidFinish(o, q)
  BY <1>8, <1>9 DEF SaidFinish
<1>12. Sends(k, j, w, E, SaidFinish(p, r))
  BY <1>1, <1>11 DEF Sends
<1>13. Hands(k, j, r, p, w, E)
  BY <1>1, <1>5, <1>6, <1>8, <1>10, <1>12 DEF Hands
<1> QED BY <1>13 DEF r

-----------------------------------------------------------------------------
(***************************************************************************)
(* The whole worker.  An engine works only on batches that were given to   *)
(* it, a producer has an engine, and a runner's engine was launched.       *)
(***************************************************************************)
Wanted(b) == \E e \in 1..Len(engines) : b \in engines[e].reqs
Owned(b) == \A e \in 1..Len(engines) : b \in engines[e].reqs => job[b].eng = e
Placed(b) == job[b].prod \notin {"none", "done"} => job[b].eng \in 1..Len(engines)
Speaks(b) == Spoken(kind, job[b], chan[b], out[b], Wanted(b)) /\ Owned(b) /\ Placed(b)
Launched == \A i \in 1..Len(cells) : cells[i].engine <= Len(engines)

TextInv == Outs /\ Chans /\ Launched /\ \A b \in Batches : Speaks(b)

(* No engine takes the batch on, and none is gone.                         *)
Shrinks(c) ==
    \A e \in 1..Len(engines') : c \in engines'[e].reqs => e \in 1..Len(engines) /\ c \in engines[e].reqs
Grown == Len(engines) \in Nat /\ Len(engines') \in Nat /\ Len(engines) <= Len(engines')

(* A batch no engine takes on, and whose engine is the same, is still      *)
(* owned by that engine alone.                                             *)
LEMMA OwnedKept ==
    ASSUME NEW c, Owned(c), Shrinks(c), job'[c].eng = job[c].eng
    PROVE  (Wanted(c)' => Wanted(c)) /\ Owned(c)'
BY DEF Owned, Wanted, Shrinks

(* A producer that keeps its engine still has one.                         *)
LEMMA PlacedKept ==
    ASSUME NEW c, Placed(c), Grown, job[c].eng \in Nat, job'[c].eng = job[c].eng,
           job'[c].prod \in {"none", "done"} \/ job[c].prod \notin {"none", "done"}
    PROVE  Placed(c)'
<1>1. CASE job'[c].prod \in {"none", "done"}
  BY <1>1 DEF Placed
<1>2. CASE job[c].prod \notin {"none", "done"}
  <2>1. job[c].eng >= 1 /\ job[c].eng <= Len(engines)
    BY <1>2 DEF Placed
  <2>2. job[c].eng \in 1..Len(engines')
    BY <2>1 DEF Grown
  <2> QED BY <2>2 DEF Placed
<1> QED BY <1>1, <1>2

(* A batch whose record keeps what matters.                                *)
Still(c) ==
    /\ job'[c].st = job[c].st /\ job'[c].rx = job[c].rx /\ job'[c].prod = job[c].prod
    /\ job'[c].ids = job[c].ids /\ job'[c].sent = job[c].sent /\ job'[c].fin = job[c].fin
    /\ job'[c].eng = job[c].eng

(* A batch to which nothing happens says what it said.                     *)
LEMMA StillSpeaks ==
    ASSUME NEW c, Speaks(c), Still(c), kind' = kind, chan'[c] = chan[c], out'[c] = out[c],
           job[c].eng \in Nat, Shrinks(c), Grown
    PROVE  Speaks(c)'
<1>1. (Wanted(c)' => Wanted(c)) /\ Owned(c)'
  BY OwnedKept DEF Speaks, Still
<1>2. Placed(c)'
  BY PlacedKept DEF Speaks, Still, Placed
<1>3. Spoken(kind, job'[c], chan[c], out[c], Wanted(c)')
  BY <1>1, SpokenSame DEF Speaks, Still
<1> QED BY <1>1, <1>2, <1>3 DEF Speaks

(* One that has no stream yet moves on, or is closed without one.          *)
Moves(c) ==
    /\ job[c].st \notin {"stream", "closed"} /\ job'[c].st # "stream"
    /\ job'[c].prod = job[c].prod /\ job'[c].ids = job[c].ids /\ job'[c].sent = job[c].sent
    /\ job'[c].fin = job[c].fin /\ (job'[c].st # "closed" => job'[c].rx = job[c].rx)

(* A batch on its way to its stream, or refused one, has nothing to say    *)
(* before and after.                                                       *)
LEMMA MovesSpeaks ==
    ASSUME NEW c, Speaks(c), Moves(c), kind' = kind, chan'[c] = chan[c],
           out'[c].text = out[c].text, out'[c].fin = out[c].fin, Shrinks(c)
    PROVE  Speaks(c)'
<1>1. ~Wanted(c) /\ job[c].prod = "none"
  BY DEF Speaks, Spoken, Moves, Untouched
<1>2. ~Wanted(c)' /\ Owned(c)'
  BY <1>1 DEF Wanted, Shrinks, Owned
<1>3. Placed(c)'
  BY <1>1 DEF Placed, Moves
<1>4. Spoken(kind, job'[c], chan[c], out'[c], Wanted(c)')
  BY <1>2, SpokenMoves DEF Speaks, Moves
<1> QED BY <1>2, <1>3, <1>4 DEF Speaks

(* Nobody's stream opens, ends or gets anything.                           *)
LEMMA NobodySpeaks ==
    ASSUME TextInv, kind' = kind, chan' = chan, out' = out, Grown, Launched',
           \A c \in Batches : Shrinks(c) /\ job[c].eng \in Nat /\ (Still(c) \/ Moves(c))
    PROVE  TextInv'
<1>1. Outs' /\ Chans'
  BY DEF TextInv, Outs, Chans
<1>2. ASSUME NEW c \in Batches PROVE Speaks(c)'
  <2>1. Speaks(c) /\ Shrinks(c) /\ job[c].eng \in Nat /\ (Still(c) \/ Moves(c))
    BY DEF TextInv
  <2> QED BY <2>1, StillSpeaks, MovesSpeaks
<1> QED BY <1>1, <1>2 DEF TextInv

(* Only one batch does anything.                                           *)
LEMMA OneSpeaks ==
    ASSUME TextInv, kind' = kind, NEW b \in Batches, Outs', Chans', Launched', Grown, Speaks(b)',
           \A c \in Batches \ {b} : /\ job'[c] = job[c] /\ chan'[c] = chan[c] /\ out'[c] = out[c]
                                    /\ Shrinks(c) /\ job[c].eng \in Nat
    PROVE  TextInv'
<1>1. ASSUME NEW c \in Batches \ {b} PROVE Speaks(c)'
  <2>1. /\ Speaks(c) /\ job'[c] = job[c] /\ chan'[c] = chan[c] /\ out'[c] = out[c]
        /\ Shrinks(c) /\ job[c].eng \in Nat
    BY DEF TextInv
  <2>2. Still(c)
    BY <2>1 DEF Still
  <2> QED BY <2>1, <2>2, StillSpeaks
<1> QED BY <1>1 DEF TextInv

-----------------------------------------------------------------------------
(* What a producer writes in its batch's record, and what it leaves.       *)
Wrote(b, prod, ids, sent, fin) ==
    /\ Writes(b, prod, ids, sent, fin)
    /\ \/ job' = [job EXCEPT ![b].prod = prod] /\ ids = job[b].ids /\ sent = job[b].sent
       \/ job' = [job EXCEPT ![b].prod = prod, ![b].fin = fin] /\ ids = job[b].ids /\ sent = job[b].sent
       \/ job' = [job EXCEPT ![b].ids = ids, ![b].fin = fin, ![b].prod = prod] /\ sent = job[b].sent
       \/ job' = [job EXCEPT ![b].ids = ids, ![b].sent = sent, ![b].fin = fin, ![b].prod = prod]

(* A producer writes its own batch's record, and in it only these fields.  *)
LEMMA WroteFields ==
    ASSUME Jobs, NEW b \in Batches, NEW prod, NEW ids, NEW sent, NEW fin, Wrote(b, prod, ids, sent, fin)
    PROVE  /\ \A c \in Batches \ {b} : job'[c] = job[c]
           /\ job'[b].st = job[b].st /\ job'[b].eng = job[b].eng /\ job'[b].rx = job[b].rx
           /\ job'[b].prod = prod /\ job'[b].fin = fin /\ job'[b].ids = ids /\ job'[b].sent = sent
<1>0. /\ \A c \in Batches \ {b} : job'[c] = job[c]
      /\ job'[b].st = job[b].st /\ job'[b].rx = job[b].rx
      /\ job'[b].prod = prod /\ job'[b].fin = fin
  BY ProducerFields DEF Wrote
<1> USE DEF Jobs, Shaped, Fields
<1>1. CASE job' = [job EXCEPT ![b].prod = prod] /\ ids = job[b].ids /\ sent = job[b].sent
  <2>1. job'[b].ids = ids
    BY <1>1
  <2>2. job'[b].sent = sent
    BY <1>1
  <2>3. job'[b].eng = job[b].eng
    BY <1>1
  <2> QED BY <1>0, <2>1, <2>2, <2>3
<1>2. CASE job' = [job EXCEPT ![b].prod = prod, ![b].fin = fin] /\ ids = job[b].ids
           /\ sent = job[b].sent
  <2>1. job'[b].ids = ids
    BY <1>2
  <2>2. job'[b].sent = sent
    BY <1>2
  <2>3. job'[b].eng = job[b].eng
    BY <1>2
  <2> QED BY <1>0, <2>1, <2>2, <2>3
<1>3. CASE job' = [job EXCEPT ![b].ids = ids, ![b].fin = fin, ![b].prod = prod]
           /\ sent = job[b].sent
  <2>1. job'[b].ids = ids
    BY <1>3
  <2>2. job'[b].sent = sent
    BY <1>3
  <2>3. job'[b].eng = job[b].eng
    BY <1>3
  <2> QED BY <1>0, <2>1, <2>2, <2>3
<1>4. CASE job' = [job EXCEPT ![b].ids = ids, ![b].sent = sent, ![b].fin = fin, ![b].prod = prod]
  <2>1. job'[b].ids = ids
    BY <1>4
  <2>2. job'[b].sent = sent
    BY <1>4
  <2>3. job'[b].eng = job[b].eng
    BY <1>4
  <2> QED BY <1>0, <2>1, <2>2, <2>3
<1> QED BY <1>1, <1>2, <1>3, <1>4 DEF Wrote

(* The channel after a send.                                               *)
LEMMA SentTo ==
    ASSUME Chans, NEW b \in Batches, NEW items, Send(b, items)
    PROVE  /\ chan' = [c \in Batches |-> chan'[c]] /\ \A c \in Batches \ {b} : chan'[c] = chan[c]
           /\ job[b].rx => chan'[b] = chan[b] \o items
           /\ ~job[b].rx => chan'[b] = chan[b]
BY DEF Send, Chans

(* Whatever the producer of b sends, x or nothing, fits in with the rest.  *)
Fitting(b, items, x, E) ==
    \/ /\ items = <<x>> /\ x.text \in Seq(Char) /\ (SaidFinish(out[b], chan[b]) => x.text = <<>>)
       /\ Sends(kind, job'[b], Wanted(b)', E \o x.text, SaidFinish(out[b], chan[b]) \/ x.fin # None)
    \/ /\ items = <<>>
       /\ Sends(kind, job'[b], Wanted(b)', E, SaidFinish(out[b], chan[b]))

(* The steps of a producer that works for its own batch only.              *)
LEMMA ProducerSpeaks ==
    ASSUME TextInv, Jobs, NEW b \in Batches, NEW prod, NEW ids, NEW sent, NEW fin,
           Wrote(b, prod, ids, sent, fin), NEW items, NEW x, items = <<x>> \/ items = <<>>,
           Send(b, items), kind' = kind, out' = out, Launched', Grown,
           \A c \in Batches : Shrinks(c) /\ job[c].eng \in Nat,
           job[b].prod \notin {"none", "done"}, prod \notin {"none", "abort"},
           Lags(kind, ids, sent),
           \A E : job[b].st = "stream" /\ Hands(kind, job[b], chan[b], out[b], Wanted(b), E)
                  => Fitting(b, items, x, E)
    PROVE  TextInv'
<1>1. Outs /\ Chans /\ Speaks(b)
  BY DEF TextInv
<1>2. /\ \A c \in Batches \ {b} : job'[c] = job[c]
      /\ job'[b].st = job[b].st /\ job'[b].eng = job[b].eng /\ job'[b].rx = job[b].rx
      /\ job'[b].prod = prod /\ job'[b].fin = fin /\ job'[b].ids = ids /\ job'[b].sent = sent
  BY WroteFields
<1>3. /\ \A c \in Batches \ {b} : chan'[c] = chan[c]
      /\ job[b].rx => chan'[b] = chan[b] \o items
  BY <1>1, SentTo
<1>4. Chans'
  BY <1>1, SendTells
<1>5. (Wanted(b)' => Wanted(b)) /\ Owned(b)'
  BY <1>1, <1>2, OwnedKept DEF Speaks
<1>6. Placed(b)'
  BY <1>1, <1>2, PlacedKept DEF Speaks
<1>7. ASSUME NEW E, job[b].st = "stream", job[b].rx, Hands(kind, job[b], chan[b], out[b], Wanted(b), E)
      PROVE  \E F : Hands(kind, job'[b], chan'[b], out[b], Wanted(b)', F)
  <2>1. Fitting(b, items, x, E)
    BY <1>7
  <2>2. CASE /\ items = <<x>> /\ x.text \in Seq(Char) /\ (SaidFinish(out[b], chan[b]) => x.text = <<>>)
             /\ Sends(kind, job'[b], Wanted(b)', E \o x.text, SaidFinish(out[b], chan[b]) \/ x.fin # None)
    <3>1. Hands(kind, job'[b], chan[b] \o <<x>>, out[b], Wanted(b)', E \o x.text)
      BY <1>7, <2>2, HandsSent
    <3>2. chan'[b] = chan[b] \o <<x>>
      BY <1>3, <1>7, <2>2
    <3> QED BY <3>1, <3>2
  <2>3. CASE items = <<>> /\ Sends(kind, job'[b], Wanted(b)', E, SaidFinish(out[b], chan[b]))
    <3>1. Hands(kind, job'[b], chan[b], out[b], Wanted(b)', E)
      BY <1>7, <2>3, HandsSilent
    <3>2. PICK S : chan[b] \in Seq(S)
      BY <1>1 DEF Chans, Queued
    <3>3. chan[b] \o <<>> = chan[b]
      BY <3>2, ConcatEmptySeq
    <3>4. chan'[b] = chan[b]
      BY <1>3, <1>7, <2>3, <3>3
    <3> QED BY <3>1, <3>4
  <2> QED BY <2>1, <2>2, <2>3 DEF Fitting
<1>8. Spoken(kind, job'[b], chan'[b], out[b], Wanted(b)')
  <2>1. Spoken(kind, job[b], chan[b], out[b], Wanted(b))
    BY <1>1 DEF Speaks
  <2>2. kind # "vllm" => ~Wanted(b)'
    BY <2>1, <1>5 DEF Spoken
  <2> QED BY <2>1, <2>2, <1>2, <1>7, SpokenProduced
<1>9. Speaks(b)'
  BY <1>5, <1>6, <1>8 DEF Speaks
<1>10. Outs'
  BY <1>1 DEF Outs
<1> QED BY <1>2, <1>3, <1>4, <1>9, <1>10, OneSpeaks

-----------------------------------------------------------------------------
(* The engines are those of before, and work on nothing new.               *)
Working == /\ kind' = kind /\ out' = out /\ Launched' /\ Grown
           /\ \A c \in Batches : Shrinks(c) /\ job[c].eng \in Nat

(* A step that takes requests off one engine, or changes its session,      *)
(* gives no engine a new batch.                                            *)
LEMMA EngineShrinks ==
    ASSUME engines \in Seq(Engine), NEW k, NEW reqs, NEW l \in Locks, reqs \subseteq engines[k].reqs,
           \/ engines' = engines
           \/ engines' = [engines EXCEPT ![k].reqs = reqs]
           \/ engines' = [engines EXCEPT ![k].session = l]
    PROVE  Grown /\ Len(engines') = Len(engines) /\ \A c : Shrinks(c)
<1>1. engines \in [1..Len(engines) -> Engine] /\ Len(engines) \in Nat
  OBVIOUS
<1>2. k \in 1..Len(engines) => reqs \subseteq Batches
  BY EngineReqs
<1>3. Len(engines') = Len(engines)
  <2>1. CASE engines' = engines
    BY <2>1
  <2>2. CASE engines' = [engines EXCEPT ![k].reqs = reqs]
             \/ engines' = [engines EXCEPT ![k].session = l]
    BY <2>2, <1>2, EngineChange DEF Resized
  <2> QED BY <2>1, <2>2
<1>4. ASSUME NEW e \in 1..Len(engines) PROVE engines'[e].reqs \subseteq engines[e].reqs
  <2>1. engines[e] \in Engine
    OBVIOUS
  <2>2. CASE engines' = engines
    BY <2>2
  <2>3. CASE engines' = [engines EXCEPT ![k].reqs = reqs]
    <3>1. CASE e = k
      <4>1. engines'[e] = [engines[e] EXCEPT !.reqs = reqs]
        BY <1>1, <2>3, <3>1
      <4>2. engines'[e].reqs = reqs
        BY <4>1, <2>1 DEF Engine
      <4> QED BY <4>2, <3>1
    <3>2. CASE e # k
      <4>1. engines'[e] = engines[e]
        BY <1>1, <2>3, <3>2
      <4> QED BY <4>1
    <3> QED BY <3>1, <3>2
  <2>4. CASE engines' = [engines EXCEPT ![k].session = l]
    <3>1. engines'[e] = engines[e] \/ engines'[e] = [engines[e] EXCEPT !.session = l]
      BY <1>1, <2>4
    <3>2. engines'[e].reqs = engines[e].reqs
      BY <3>1, <2>1 DEF Engine
    <3> QED BY <3>2
  <2> QED BY <2>2, <2>3, <2>4
<1>5. \A c : Shrinks(c)
  BY <1>3, <1>4 DEF Shrinks
<1> QED BY <1>1, <1>3, <1>5 DEF Grown

(* Relocking a runner, or forgetting its engine, launches none.            *)
LEMMA LaunchedKept ==
    ASSUME cells \in Seq(Cell), Launched, Grown, Len(cells') = Len(cells),
           \A i \in 1..Len(cells) : cells'[i].engine = cells[i].engine \/ cells'[i].engine = 0
    PROVE  Launched'
<1>1. ASSUME NEW i \in 1..Len(cells) PROVE cells'[i].engine <= Len(engines')
  <2>1. cells[i].engine \in Nat
    BY CellType
  <2>2. cells[i].engine <= Len(engines)
    BY DEF Launched
  <2> QED BY <2>1, <2>2 DEF Grown
<1> QED BY <1>1 DEF Launched

(* Such a step leaves every batch its engine and every runner the engine   *)
(* it launched.                                                            *)
LEMMA EnginesWork ==
    ASSUME WorkerInv, TextInv, NEW k, NEW reqs, NEW l \in Locks, reqs \subseteq engines[k].reqs,
           \/ engines' = engines
           \/ engines' = [engines EXCEPT ![k].reqs = reqs]
           \/ engines' = [engines EXCEPT ![k].session = l],
           kind' = kind, out' = out, cells' = cells
    PROVE  Working
<1>1. engines \in Seq(Engine) /\ cells \in Seq(Cell) /\ \A c \in Batches : job[c].eng \in Nat
  BY DEF WorkerInv, Shapes, Floors, BatchFloor
<1>2. Grown /\ \A c : Shrinks(c)
  BY <1>1, EngineShrinks
<1>3. Launched'
  BY <1>1, <1>2, LaunchedKept DEF TextInv
<1> QED BY <1>1, <1>2, <1>3 DEF Working

(* The engines are left alone.                                             *)
LEMMA EnginesStay ==
    ASSUME WorkerInv, TextInv, engines' = engines, kind' = kind, out' = out, cells' = cells
    PROVE  Working
<1>1. Free \in Locks /\ engines[0].reqs \subseteq engines[0].reqs
  BY DEF Locks
<1> QED BY <1>1, EnginesWork

-----------------------------------------------------------------------------
(* Stopping, and going on without a word.                                  *)
LEMMA SendsOn ==
    ASSUME NEW k, NEW j, NEW w, NEW E, NEW said, Sends(k, j, w, E, said),
           NEW i, i.ids = j.ids, i.sent = j.sent, NEW v, v => w,
           i.prod \in {"done", "release"} \/ (k \in {"ort", "vllm"} /\ j.prod \notin {"done", "release"})
    PROVE  Sends(k, i, v, E, said)
BY DEF Sends, Settled

(* A producer's step that adds no text: it fails, is let go or waits for   *)
(* the next poll.                                                          *)
LEMMA ProducerGoesOn ==
    ASSUME TextInv, Jobs, Working, NEW b \in Batches, NEW prod, NEW fin,
           Wrote(b, prod, job[b].ids, job[b].sent, fin),
           NEW items, NEW x, items = <<x>> \/ items = <<>>, x.text = <<>>, x.fin = None,
           Send(b, items), job[b].prod \notin {"none", "done"}, prod \notin {"none", "abort"},
           prod \in {"done", "release"} \/ (kind \in {"ort", "vllm"} /\ job[b].prod \notin {"done", "release"})
    PROVE  TextInv'
<1>1. Speaks(b)
  BY DEF TextInv
<1>2. Lags(kind, job[b].ids, job[b].sent)
  BY <1>1 DEF Speaks, Spoken
<1>3. /\ job'[b].prod = prod /\ job'[b].ids = job[b].ids /\ job'[b].sent = job[b].sent
      /\ job'[b].eng = job[b].eng
  BY WroteFields
<1>4. Wanted(b)' => Wanted(b)
  BY <1>1, <1>3, OwnedKept DEF Speaks, Working
<1>5. ASSUME NEW E, Hands(kind, job[b], chan[b], out[b], Wanted(b), E)
      PROVE  Fitting(b, items, x, E)
  <2>1. E \in Seq(Char) /\ Sends(kind, job[b], Wanted(b), E, SaidFinish(out[b], chan[b]))
    BY <1>5 DEF Hands
  <2>2. Sends(kind, job'[b], Wanted(b)', E, SaidFinish(out[b], chan[b]))
    BY <2>1, <1>3, <1>4, SendsOn
  <2>3. E \o x.text = E /\ x.text \in Seq(Char)
    BY <2>1, ConcatEmptySeq, EmptySeq
  <2>4. (SaidFinish(out[b], chan[b]) \/ x.fin # None) <=> SaidFinish(out[b], chan[b])
    OBVIOUS
  <2>5. Sends(kind, job'[b], Wanted(b)', E, SaidFinish(out[b], chan[b]) \/ x.fin # None)
    BY <2>2, <2>4 DEF Sends
  <2> QED BY <2>2, <2>3, <2>5 DEF Fitting
<1> QED BY <1>2, <1>5, ProducerSpeaks DEF Working

(* Without a send.                                                         *)
LEMMA ProducerHushes ==
    ASSUME TextInv, Jobs, Working, NEW b \in Batches, NEW prod, NEW fin,
           Wrote(b, prod, job[b].ids, job[b].sent, fin), chan' = chan,
           job[b].prod \notin {"none", "done"}, prod \notin {"none", "abort"},
           prod \in {"done", "release"} \/ (kind \in {"ort", "vllm"} /\ job[b].prod \notin {"done", "release"})
    PROVE  TextInv'
<1> DEFINE x == Item(<<>>, None)
           items == <<>>
<1>1. x.text = <<>> /\ x.fin = None
  BY DEF Item
<1>2. Send(b, items)
  BY SendsNothing DEF TextInv
<1>3. items = <<x>> \/ items = <<>>
  OBVIOUS
<1> HIDE DEF items, x
<1> QED BY <1>1, <1>2, <1>3, ProducerGoesOn

(* An error item has no text and no finish.                                *)
LEMMA ErrorSays ==
    ASSUME NEW k
    PROVE  Error(k).text = <<>> /\ Error(k).fin = None
BY DEF Error

(* A producer that has not finished yet has sent just this.                *)
LEMMA Unfinished ==
    ASSUME NEW k, NEW j, NEW q, NEW o, NEW w, NEW E, Hands(k, j, q, o, w, E), ~Settled(k, j)
    PROVE  /\ ~SaidFinish(o, q) /\ E \in Seq(Char) /\ Begins(E, Decode(j.ids))
           /\ k \in {"ort", "vllm"} => E = j.sent
           /\ k \in {"mistralrs", "mock"} /\ j.prod = "run" => E = Decode(j.ids)
BY DEF Hands, Sends, Settled

(* A piece of text: what is carried then begins the tokens' text, is what  *)
(* the producer knows to have sent, and is all with a finish.              *)
LEMMA PieceSends ==
    ASSUME NEW k, NEW i, NEW v, NEW F, Begins(F, Decode(i.ids)), NEW fin,
           fin # None => F = Decode(i.ids) /\ ~v /\ Settled(k, i),
           k \in {"ort", "vllm"} /\ i.prod \notin {"done", "release"} => F = i.sent,
           k \in {"mistralrs", "mock"} /\ i.prod = "run" => F = Decode(i.ids),
           NEW said, ~said
    PROVE  Sends(k, i, v, F, said \/ fin # None)
BY DEF Sends

(* The ONNX runner: what decode_delta holds back stays in the text still   *)
(* to come, and the final flush sends all of that.                         *)
LEMMA OrtTokenSpeaks ==
    ASSUME WorkerInv, TextInv, NEW b \in Batches, OrtToken(b)
    PROVE  TextInv'
<1>k. /\ kind = "ort" /\ kind' = kind /\ out' = out /\ engines' = engines /\ cells' = cells
      /\ job[b].prod = "run"
  BY DEF OrtToken, Producing
<1>j. Jobs /\ Speaks(b)
  BY DEF WorkerInv, Shapes, TextInv
<1>w. Working
  BY <1>k, EnginesStay
<1>1. PICK t \in Vocabulary :
        LET ids  == Append(job[b].ids, t)
            full == Decode(ids)
            d    == DecodeDelta(job[b].sent, full)
            stop == StopReason(ids, MaxNew)
            gone == d.delta # <<>> /\ ~job[b].rx
        IN  /\ job' = [job EXCEPT
                ![b].ids = ids,
                ![b].sent = IF d.advance THEN full ELSE @,
                ![b].fin = stop,
                ![b].prod = IF gone THEN "release" ELSE IF stop = None THEN "run" ELSE "flush"]
            /\ Send(b, IF d.delta = <<>> THEN <<>> ELSE << Item(d.delta, None) >>)
  BY Zenon DEF OrtToken
<1> DEFINE ids  == Append(job[b].ids, t)
           full == Decode(ids)
           d    == DecodeDelta(job[b].sent, full)
           stop == StopReason(ids, MaxNew)
           prod == IF d.delta # <<>> /\ ~job[b].rx THEN "release"
                   ELSE IF stop = None THEN "run" ELSE "flush"
           sent == IF d.advance THEN full ELSE job[b].sent
           x == Item(d.delta, None)
           items == IF d.delta = <<>> THEN <<>> ELSE <<x>>
<1>2. Wrote(b, prod, ids, sent, stop) /\ Send(b, items)
  BY <1>1 DEF Wrote, Writes
<1>i. items = <<x>> \/ (items = <<>> /\ d.delta = <<>>)
  OBVIOUS
<1>p. prod \notin {"none", "abort", "done"} /\ (job[b].rx => prod # "release")
  OBVIOUS
<1>4. Lags("ort", job[b].ids, job[b].sent) /\ t \in Token
  BY <1>j, <1>k DEF Speaks, Spoken, Token
<1>5. Lags("ort", ids, job[b].sent)
  BY <1>4, TokenDecoded
<1> HIDE DEF ids, stop, prod, items
<1>d. Advances(d, ids, job[b].sent, sent)
  BY DEF Advances
<1>x. x.text = d.delta /\ x.fin = None
  BY DEF Item
<1> HIDE DEF full, d, sent, x
<1>6. Lags("ort", ids, sent) /\ d.delta \in Seq(Char) /\ sent = job[b].sent \o d.delta
  BY <1>5, <1>d, DeltaLags
<1>3. /\ items = <<x>> \/ (items = <<>> /\ d.delta = <<>>)
      /\ x.text = d.delta /\ x.fin = None
      /\ prod \notin {"none", "abort", "done"} /\ (job[b].rx => prod # "release")
  BY <1>i, <1>p, <1>x
<1>7. /\ job'[b].prod = prod /\ job'[b].ids = ids /\ job'[b].sent = sent
  BY <1>2, <1>j, WroteFields
<1>8. ASSUME NEW E, job[b].st = "stream", Hands(kind, job[b], chan[b], out[b], Wanted(b), E)
      PROVE  Fitting(b, items, x, E)
  <2>1. job[b].rx
    BY <1>8, <1>j DEF Speaks, Spoken
  <2>2. ~Settled(kind, job[b])
    BY <1>k DEF Settled
  <2>3. ~SaidFinish(out[b], chan[b]) /\ E \in Seq(Char) /\ E = job[b].sent
    BY <2>2, <1>8, <1>k, Unfinished
  <2>4. E \o x.text = sent
    BY <2>3, <1>3, <1>6
  <2>5. Begins(sent, Decode(job'[b].ids))
    BY <1>6, <1>7 DEF Lags
  <2>6. Sends(kind, job'[b], Wanted(b)', sent, SaidFinish(out[b], chan[b]) \/ x.fin # None)
    BY <2>3, <2>5, <1>3, <1>7, <1>k, PieceSends
  <2>7. CASE items = <<x>>
    BY <2>7, <2>3, <2>4, <2>6, <1>3, <1>6 DEF Fitting
  <2>8. CASE items = <<>> /\ d.delta = <<>>
    <3>1. E \o <<>> = E
      BY <2>3, ConcatEmptySeq
    <3>2. sent = E
      BY <3>1, <2>4, <2>8, <1>3
    <3>3. Sends(kind, job'[b], Wanted(b)', E, SaidFinish(out[b], chan[b]))
      BY <3>2, <2>6, <1>3 DEF Sends
    <3> QED BY <3>3, <2>8 DEF Fitting
  <2> QED BY <2>7, <2>8, <1>3
<1>9. items = <<x>> \/ items = <<>>
  BY <1>3
<1>10. Lags(kind, ids, sent) /\ job[b].prod \notin {"none", "done"} /\ prod \notin {"none", "abort"}
  BY <1>3, <1>6, <1>k
<1> QED BY <1>2, <1>8, <1>9, <1>10, <1>w, <1>j, ProducerSpeaks DEF Working

(* The ONNX decoder's last item carries all that was withheld, with the    *)
(* finish.                                                                 *)
LEMMA OrtFlushSpeaks ==
    ASSUME WorkerInv, TextInv, NEW b \in Batches, OrtFlush(b)
    PROVE  TextInv'
<1> DEFINE x == Item(FinalTail(job[b].sent, Decode(job[b].ids)), job[b].fin)
           items == <<x>>
<1>k. /\ kind = "ort" /\ kind' = kind /\ out' = out /\ engines' = engines /\ cells' = cells
      /\ job[b].prod = "flush" /\ job' = [job EXCEPT ![b].prod = "release"] /\ Send(b, items)
  BY DEF OrtFlush, Producing
<1>j. Jobs /\ Speaks(b)
  BY DEF WorkerInv, Shapes, TextInv
<1>w. Working
  BY <1>k, EnginesStay
<1>1. Wrote(b, "release", job[b].ids, job[b].sent, job[b].fin)
  BY <1>k DEF Wrote, Writes
<1>2. Lags(kind, job[b].ids, job[b].sent)
  BY <1>j DEF Speaks, Spoken
<1>3. x.text \in Seq(Char) /\ job[b].sent \o x.text = Decode(job[b].ids)
  BY <1>2, TailIs DEF Item
<1>4. job'[b].prod = "release" /\ job'[b].ids = job[b].ids /\ job'[b].eng = job[b].eng
  BY <1>1, <1>j, WroteFields
<1>5. ~Wanted(b)'
  BY <1>j, <1>k, <1>w, <1>4, OwnedKept DEF Speaks, Spoken, Working
<1> HIDE DEF x
<1>6. ASSUME NEW E, job[b].st = "stream", Hands(kind, job[b], chan[b], out[b], Wanted(b), E)
      PROVE  Fitting(b, items, x, E)
  <2>1. ~Settled(kind, job[b]) /\ Settled(kind, job'[b])
    BY <1>k, <1>4 DEF Settled
  <2>2. ~SaidFinish(out[b], chan[b]) /\ E \in Seq(Char) /\ E = job[b].sent
    BY <2>1, <1>6, <1>k, Unfinished
  <2>3. E \o x.text = Decode(job'[b].ids)
    BY <2>2, <1>3, <1>4
  <2>4. Begins(Decode(job'[b].ids), Decode(job'[b].ids))
    <3>1. Decode(job[b].ids) \in Seq(Char)
      BY <1>2, DecodeIsText DEF Lags
    <3> QED BY <3>1, <1>4, LenProperties DEF Begins
  <2>5. Sends(kind, job'[b], Wanted(b)', E \o x.text, SaidFinish(out[b], chan[b]) \/ x.fin # None)
    BY <2>1, <2>2, <2>3, <2>4, <1>4, <1>5, <1>k, PieceSends
  <2> QED BY <2>2, <2>5, <1>3 DEF Fitting
<1>7. items = <<x>> \/ items = <<>>
  OBVIOUS
<1>8. Send(b, items) /\ job[b].prod \notin {"none", "done"} /\ "release" \notin {"none", "abort"}
  BY <1>k
<1> HIDE DEF items
<1> QED BY <1>1, <1>2, <1>6, <1>7, <1>8, <1>w, <1>j, ProducerSpeaks DEF Working

(* An error is sent, and no text.                                          *)
LEMMA ErrorSpeaks ==
    ASSUME TextInv, Jobs, Working, NEW b \in Batches, NEW prod \in {"done", "release"},
           job' = [job EXCEPT ![b].prod = prod], NEW k, Send(b, << Error(k) >>),
           job[b].prod \notin {"none", "done"}
    PROVE  TextInv'
<1> DEFINE x == Error(k)
           items == <<x>>
<1>1. Wrote(b, prod, job[b].ids, job[b].sent, job[b].fin)
  BY DEF Wrote, Writes
<1>2. x.text = <<>> /\ x.fin = None /\ Send(b, items) /\ (items = <<x>> \/ items = <<>>)
  BY ErrorSays
<1>3. prod \notin {"none", "abort"}
  OBVIOUS
<1> HIDE DEF x, items
<1> QED BY <1>1, <1>2, <1>3, ProducerGoesOn

(* The rest of the ONNX runner sends no text.                              *)
LEMMA OrtSpeaks ==
    ASSUME WorkerInv, TextInv, NEW b \in Batches, OrtStart(b) \/ OrtRunFails(b) \/ OrtRelease(b)
    PROVE  TextInv'
<1>k. kind = "ort" /\ kind' = kind /\ out' = out /\ cells' = cells
  BY DEF OrtStart, OrtRunFails, OrtRelease
<1>j. Jobs
  BY DEF WorkerInv, Shapes
<1>w. Working
  <2> DEFINE e == job[b].eng
             reqs == engines[e].reqs
  <2>1. b \in Locks /\ Free \in Locks /\ reqs \subseteq reqs
    BY DEF Locks
  <2>2. \/ engines' = engines
        \/ engines' = [engines EXCEPT ![e].session = b]
        \/ engines' = [engines EXCEPT ![e].session = Free]
    BY DEF OrtStart, OrtRunFails, OrtRelease
  <2> HIDE DEF e
  <2> QED BY <2>1, <2>2, <1>k, EnginesWork
<1>1. CASE OrtStart(b)
  <2>1. job[b].prod = "session"
    BY <1>1 DEF OrtStart
  <2>2. CASE job' = [job EXCEPT ![b].prod = "release"] /\ Send(b, << Error("BadRequest") >>)
    <3>1. job[b].prod \notin {"none", "done"}
      BY <2>1
    <3> QED BY <2>2, <3>1, <1>j, <1>w, ErrorSpeaks
  <2>3. CASE job' = [job EXCEPT ![b].prod = "run"] /\ chan' = chan
    <3>1. Wrote(b, "run", job[b].ids, job[b].sent, job[b].fin)
      BY <2>3 DEF Wrote, Writes
    <3> QED BY <2>1, <2>3, <3>1, <1>j, <1>k, <1>w, ProducerHushes
  <2> QED BY <1>1, <2>2, <2>3 DEF OrtStart
<1>2. CASE OrtRunFails(b)
  <2>1. PICK says \in {"shape", "other"} : Send(b, << Error(MapOrtErr(says)) >>)
    BY <1>2 DEF OrtRunFails
  <2>2. job[b].prod \notin {"none", "done"} /\ job' = [job EXCEPT ![b].prod = "release"]
    BY <1>2 DEF OrtRunFails, Producing
  <2> QED BY <2>1, <2>2, <1>j, <1>w, ErrorSpeaks
<1>3. CASE OrtRelease(b)
  <2>1. /\ job[b].prod = "release" /\ chan' = chan
        /\ Wrote(b, "done", job[b].ids, job[b].sent, job[b].fin)
    BY <1>3 DEF OrtRelease, Producing, Wrote, Writes
  <2> QED BY <2>1, <1>j, <1>k, <1>w, ProducerHushes
<1> QED BY <1>1, <1>2, <1>3

(* One more word, and perhaps a finish: mistral.rs and the scripted runner.*)
LEMMA WordSpeaks ==
    ASSUME WorkerInv, TextInv, NEW b \in Batches, kind \in {"mistralrs", "mock"},
           kind' = kind, out' = out, engines' = engines, cells' = cells,
           job[b].prod = "run", ~Settled(kind, job[b]),
           NEW prod \in {"run", "done"}, NEW fin, fin # None => prod = "done" \/ kind = "mistralrs",
           Wrote(b, prod, Append(job[b].ids, "w"), job[b].sent, fin),
           Send(b, << Item(<<"w">>, fin) >>)
    PROVE  TextInv'
<1> DEFINE x == Item(<<"w">>, fin)
           items == <<x>>
           ids == Append(job[b].ids, "w")
<1>j. Jobs /\ Speaks(b)
  BY DEF WorkerInv, Shapes, TextInv
<1>w. Working
  BY EnginesStay
<1>1. Lags(kind, job[b].ids, job[b].sent) /\ kind # "ort"
  BY <1>j DEF Speaks, Spoken
<1>2. Lags(kind, ids, job[b].sent)
  BY <1>1, LagsWord
<1>3. Decode(ids) = Decode(job[b].ids) \o <<"w">> /\ ids \in Seq(Token)
  BY <1>1, WordDecoded DEF Lags
<1>4. x.text = <<"w">> /\ x.fin = fin
  BY DEF Item
<1>5. <<"w">> \in Seq(Char)
  <2>1. "w" \in Char
    BY DEF Char, Token
  <2> QED BY <2>1
<1>s. Wrote(b, prod, ids, job[b].sent, fin) /\ Send(b, items)
  OBVIOUS
<1> HIDE DEF x, ids
<1>6. job'[b].prod = prod /\ job'[b].ids = ids /\ job'[b].fin = fin /\ job'[b].eng = job[b].eng
  BY <1>s, <1>j, WroteFields
<1>7. ~Wanted(b)'
  BY <1>j, <1>w, <1>6, OwnedKept DEF Speaks, Spoken, Working
<1>8. ASSUME NEW E, job[b].st = "stream", Hands(kind, job[b], chan[b], out[b], Wanted(b), E)
      PROVE  Fitting(b, items, x, E)
  <2>1. fin # None => Settled(kind, job'[b])
    BY <1>6 DEF Settled
  <2>2. ~SaidFinish(out[b], chan[b]) /\ E = Decode(job[b].ids)
    BY <1>8, Unfinished
  <2>3. E \o x.text = Decode(job'[b].ids)
    BY <2>2, <1>3, <1>4, <1>6
  <2>4. Begins(Decode(job'[b].ids), Decode(job'[b].ids))
    <3>1. Decode(ids) \in Seq(Char)
      BY <1>3, DecodeIsText
    <3> QED BY <3>1, <1>6, LenProperties DEF Begins
  <2>5. Sends(kind, job'[b], Wanted(b)', E \o x.text, SaidFinish(out[b], chan[b]) \/ x.fin # None)
    BY <2>1, <2>2, <2>3, <2>4, <1>4, <1>7 DEF Sends
  <2> QED BY <2>2, <2>5, <1>4, <1>5 DEF Fitting
<1>9. (items = <<x>> \/ items = <<>>) /\ job[b].prod \notin {"none", "done"}
      /\ prod \notin {"none", "abort"}
  OBVIOUS
<1> HIDE DEF items
<1> QED BY <1>s, <1>2, <1>8, <1>9, <1>w, <1>j, ProducerSpeaks DEF Working

(* A producer stops without a word.                                        *)
LEMMA StopSpeaks ==
    ASSUME WorkerInv, TextInv, NEW b \in Batches, kind' = kind, out' = out, engines' = engines,
           cells' = cells, chan' = chan, job[b].prod = "run", NEW prod \in {"release", "done"},
           job' = [job EXCEPT ![b].prod = prod]
    PROVE  TextInv'
<1>j. Jobs
  BY DEF WorkerInv, Shapes
<1>w. Working
  BY EnginesStay
<1>1. Wrote(b, prod, job[b].ids, job[b].sent, job[b].fin)
  BY DEF Wrote, Writes
<1>2. job[b].prod \notin {"none", "done"} /\ prod \notin {"none", "abort"}
  OBVIOUS
<1> QED BY <1>1, <1>2, <1>j, <1>w, ProducerHushes

(* A producing task panics.                                                *)
LEMMA PanicSpeaks ==
    ASSUME WorkerInv, TextInv, NEW b \in Batches, ProducerPanics(b)
    PROVE  TextInv'
<1> DEFINE prod == IF kind = "ort" THEN "release" ELSE "done"
<1>1. /\ kind' = kind /\ out' = out /\ engines' = engines /\ cells' = cells /\ chan' = chan
      /\ job[b].prod = "run" /\ job' = [job EXCEPT ![b].prod = prod]
  BY DEF ProducerPanics, Producing
<1>2. prod \in {"release", "done"}
  OBVIOUS
<1> HIDE DEF prod
<1> QED BY <1>1, <1>2, StopSpeaks

(* The mock runner's chunk is the next word, and the last one has the      *)
(* finish.                                                                 *)
LEMMA MockSpeaks ==
    ASSUME WorkerInv, TextInv, NEW b \in Batches, MockChunk(b)
    PROVE  TextInv'
<1>0. CASE job' = [job EXCEPT ![b].prod = "done"] /\ chan' = chan
  <2>1. /\ kind' = kind /\ out' = out /\ engines' = engines /\ cells' = cells
        /\ job[b].prod = "run"
    BY DEF MockChunk, Producing
  <2>2. "done" \in {"release", "done"}
    OBVIOUS
  <2> QED BY <1>0, <2>1, <2>2, StopSpeaks
<1> SUFFICES ASSUME ~(job' = [job EXCEPT ![b].prod = "done"] /\ chan' = chan) PROVE TextInv'
  BY <1>0
<1> DEFINE fin == IF Len(job[b].ids) + 1 = MaxNew THEN "Stop" ELSE None
           prod == IF fin = None THEN "run" ELSE "done"
<1>1. /\ kind = "mock" /\ kind' = kind /\ out' = out /\ engines' = engines /\ cells' = cells
      /\ job[b].prod = "run" /\ Send(b, << Item(<<"w">>, fin) >>)
      /\ job' = [job EXCEPT ![b].ids = Append(@, "w"), ![b].fin = fin, ![b].prod = prod]
  BY DEF MockChunk, Producing
<1>2. prod \in {"run", "done"} /\ (fin # None => prod = "done")
  OBVIOUS
<1> HIDE DEF fin, prod
<1>3. Wrote(b, prod, Append(job[b].ids, "w"), job[b].sent, fin)
  BY <1>1 DEF Wrote, Writes
<1>4. ~Settled(kind, job[b])
  BY <1>1 DEF Settled
<1> QED BY <1>1, <1>2, <1>3, <1>4, WordSpeaks

(* mistral.rs may send its finish with the last word and again alone.      *)
LEMMA MistralSpeaks ==
    ASSUME WorkerInv, TextInv, NEW b \in Batches, MistralResponse(b)
    PROVE  TextInv'
<1>k. /\ kind = "mistralrs" /\ kind' = kind /\ out' = out /\ engines' = engines /\ cells' = cells
      /\ job[b].prod = "run"
  BY DEF MistralResponse, Producing
<1>j. Jobs /\ Speaks(b)
  BY DEF WorkerInv, Shapes, TextInv
<1>w. Working
  BY <1>k, EnginesStay
<1>1. ASSUME NEW says \in {None, "length"}, job[b].fin = None,
             LET fin == IF says = None THEN None ELSE MistralFinishReason(says)
             IN  /\ job' = [job EXCEPT ![b].ids = Append(@, "w"), ![b].fin = fin,
                                       ![b].prod = IF job[b].rx THEN "run" ELSE "done"]
                 /\ Send(b, << Item(<<"w">>, fin) >>)
      PROVE  TextInv'
  <2> DEFINE fin == IF says = None THEN None ELSE MistralFinishReason(says)
             prod == IF job[b].rx THEN "run" ELSE "done"
  <2>1. /\ job' = [job EXCEPT ![b].ids = Append(@, "w"), ![b].fin = fin, ![b].prod = prod]
        /\ Send(b, << Item(<<"w">>, fin) >>)
    BY <1>1
  <2>2. prod \in {"run", "done"}
    OBVIOUS
  <2> HIDE DEF fin, prod
  <2>3. Wrote(b, prod, Append(job[b].ids, "w"), job[b].sent, fin)
    BY <2>1 DEF Wrote, Writes
  <2>4. ~Settled(kind, job[b])
    BY <1>k, <1>1 DEF Settled
  <2> QED BY <2>1, <2>2, <2>3, <2>4, <1>k, WordSpeaks
<1>2. CASE job' = [job EXCEPT ![b].prod = "done", ![b].fin = "Stop"]
           /\ Send(b, << Item(<<>>, "Stop") >>)
  <2> DEFINE x == Item(<<>>, "Stop")
             items == <<x>>
  <2>1. Wrote(b, "done", job[b].ids, job[b].sent, "Stop") /\ Send(b, items)
    BY <1>2 DEF Wrote, Writes
  <2>2. job'[b].prod = "done" /\ job'[b].ids = job[b].ids /\ job'[b].eng = job[b].eng
    BY <2>1, <1>j, WroteFields
  <2>3. ~Wanted(b)'
    BY <1>j, <1>k, <1>w, <2>2, OwnedKept DEF Speaks, Spoken, Working
  <2>4. Lags(kind, job[b].ids, job[b].sent)
    BY <1>j DEF Speaks, Spoken
  <2>5. x.text = <<>> /\ <<>> \in Seq(Char)
    BY EmptySeq DEF Item
  <2> HIDE DEF x
  <2>6. ASSUME NEW E, job[b].st = "stream", Hands(kind, job[b], chan[b], out[b], Wanted(b), E)
        PROVE  Fitting(b, items, x, E)
    <3>1. E \in Seq(Char) /\ E = Decode(job[b].ids)
      BY <2>6, <1>k DEF Hands, Sends
    <3>2. E \o x.text = E
      BY <3>1, <2>5, ConcatEmptySeq
    <3>3. Begins(E, E)
      BY <3>1, LenProperties DEF Begins
    <3>4. Sends(kind, job'[b], Wanted(b)', E \o x.text, SaidFinish(out[b], chan[b]) \/ x.fin # None)
      BY <3>1, <3>2, <3>3, <2>2, <2>3, <1>k DEF Sends, Settled
    <3> QED BY <3>4, <2>5 DEF Fitting
  <2>7. /\ items = <<x>> \/ items = <<>>
        /\ job[b].prod \notin {"none", "done"} /\ "done" \notin {"none", "abort"}
    BY <1>k
  <2> HIDE DEF items
  <2> QED BY <2>1, <2>4, <2>6, <2>7, <1>w, <1>j, ProducerSpeaks DEF Working
<1>3. CASE job' = [job EXCEPT ![b].prod = "done"] /\ Send(b, << Error("Internal") >>)
  <2>1. job[b].prod \notin {"none", "done"}
    BY <1>k
  <2> QED BY <2>1, <1>3, <1>j, <1>w, ErrorSpeaks
<1>4. CASE job' = [job EXCEPT ![b].prod = "done"] /\ chan' = chan
  <2>1. Wrote(b, "done", job[b].ids, job[b].sent, job[b].fin)
    BY <1>4 DEF Wrote, Writes
  <2> QED BY <2>1, <1>4, <1>j, <1>k, <1>w, ProducerHushes
<1> QED BY <1>1, <1>2, <1>3, <1>4 DEF MistralResponse

(* vLLM's poller between its steps.                                        *)
LEMMA PollerSpeaks ==
    ASSUME WorkerInv, TextInv, NEW b \in Batches, VllmCheck(b) \/ VllmStepFails(b)
    PROVE  TextInv'
<1>k. kind = "vllm" /\ kind' = kind /\ out' = out /\ engines' = engines /\ cells' = cells
  BY DEF VllmCheck, VllmStepFails
<1>j. Jobs
  BY DEF WorkerInv, Shapes
<1>w. Working
  BY <1>k, EnginesStay
<1>1. CASE VllmCheck(b)
  <2>1. PICK prod \in {"run", "done"} : job' = [job EXCEPT ![b].prod = prod]
    BY <1>1 DEF VllmCheck
  <2>2. /\ job[b].prod = "check" /\ chan' = chan
        /\ Wrote(b, prod, job[b].ids, job[b].sent, job[b].fin)
    BY <1>1, <2>1 DEF VllmCheck, Wrote, Writes
  <2> QED BY <2>2, <1>j, <1>k, <1>w, ProducerHushes
<1>2. CASE VllmStepFails(b)
  <2>1. /\ job[b].prod \notin {"none", "done"} /\ job' = [job EXCEPT ![b].prod = "done"]
        /\ Send(b, << Error("Internal") >>)
    BY <1>2 DEF VllmStepFails, Producing
  <2> QED BY <2>1, <1>j, <1>w, ErrorSpeaks
<1> QED BY <1>1, <1>2

(* A producer whose consumer is gone.                                      *)
LEMMA AbortSpeaks ==
    ASSUME WorkerInv, TextInv, NEW b \in Batches, ProducerAborts(b)
    PROVE  TextInv'
<1> DEFINE prod == IF kind = "ort" THEN "release" ELSE "done"
           reqs == engines[job[b].eng].reqs \ {b}
<1>k. /\ kind' = kind /\ out' = out /\ cells' = cells /\ chan' = chan /\ job[b].prod = "abort"
      /\ engines' = [engines EXCEPT ![job[b].eng].reqs = reqs] /\ job' = [job EXCEPT ![b].prod = prod]
  BY DEF ProducerAborts
<1>p. prod \in {"release", "done"} /\ reqs \subseteq engines[job[b].eng].reqs
  OBVIOUS
<1> HIDE DEF prod, reqs
<1>j. Jobs
  BY DEF WorkerInv, Shapes
<1>w. Working
  <2>1. Free \in Locks
    BY DEF Locks
  <2> QED BY <2>1, <1>k, <1>p, EnginesWork
<1>1. Wrote(b, prod, job[b].ids, job[b].sent, job[b].fin)
  BY <1>k DEF Wrote, Writes
<1> QED BY <1>1, <1>k, <1>p, <1>w, <1>j, ProducerHushes

-----------------------------------------------------------------------------
(* A batch gets a word from a step another batch's poller made: the word   *)
(* is in no text that is on its way, and no finish is either.              *)
LEMMA SpokenGrows ==
    ASSUME NEW j, NEW q, NEW o, NEW w, Spoken("vllm", j, q, o, w), w,
           NEW i, i.st = j.st, i.rx = j.rx, i.prod = j.prod, i.sent = j.sent, i.ids = Append(j.ids, "w"),
           NEW v
    PROVE  Spoken("vllm", i, q, o, v)
<1>1. Lags("vllm", j.ids, j.sent)
  BY DEF Spoken
<1>2. Lags("vllm", i.ids, i.sent)
  BY <1>1, LagsWord
<1>3. /\ j.ids \in Seq(Token) /\ i.ids \in Seq(Token) /\ Begins(Decode(j.ids), Decode(i.ids))
      /\ Decode(j.ids) \in Seq(Char) /\ Decode(i.ids) \in Seq(Char)
  <2>1. j.ids \in Seq(Token) /\ ~Decoded(j.ids).half
    BY <1>1 DEF Lags
  <2>2. i.ids \in Seq(Token) /\ Begins(Decode(j.ids), Decode(i.ids))
    BY <2>1, WordDecoded
  <2> QED BY <2>1, <2>2, DecodeIsText
<1>4. ASSUME NEW E, Hands("vllm", j, q, o, w, E) PROVE Hands("vllm", i, q, o, v, E)
  <2>1. /\ E \in Seq(Char) /\ Begins(E, Decode(j.ids)) /\ ~SaidFinish(o, q)
        /\ j.prod \notin {"done", "release"} => E = j.sent
    BY <1>4 DEF Hands, Sends
  <2>2. Begins(E, Decode(i.ids))
    BY <2>1, <1>3, BeginsOn
  <2>3. Sends("vllm", i, v, E, SaidFinish(o, q))
    BY <2>1, <2>2 DEF Sends
  <2> QED BY <2>3, <1>4, HandsSilent
<1>5. ASSUME Whole(j, o, w) PROVE Whole(i, o, v)
  <2>1. o.text \in Seq(Char) /\ Begins(o.text, Decode(j.ids)) /\ ~(o.fin > 0)
    BY <1>5 DEF Whole
  <2>2. Begins(o.text, Decode(i.ids))
    BY <2>1, <1>3, BeginsOn
  <2> QED BY <2>1, <2>2 DEF Whole
<1>6. j.st \in {"stream", "closed"}
  BY DEF Spoken
<1> QED BY <1>2, <1>4, <1>5, <1>6 DEF Spoken

(* What a step of engine e is to a batch it works on.                      *)
Worded(c) ==
    /\ job'[c].st = job[c].st /\ job'[c].rx = job[c].rx /\ job'[c].prod = job[c].prod
    /\ job'[c].sent = job[c].sent /\ job'[c].eng = job[c].eng /\ job'[c].ids = Append(job[c].ids, "w")

(* And to the batch of the poller that made it.                            *)
Polled(b) ==
    /\ job'[b].st = job[b].st /\ job'[b].rx = job[b].rx /\ job'[b].eng = job[b].eng
    /\ job'[b].ids = Append(job[b].ids, "w") /\ job'[b].sent = Decode(job'[b].ids)
    /\ job'[b].prod = IF job'[b].fin # None \/ ~job[b].rx THEN "done" ELSE "run"
    /\ Send(b, << Item(VllmDelta(job'[b].sent, Len(job[b].sent)), job'[b].fin) >>)
Missed(b) ==
    /\ job'[b].st = job[b].st /\ job'[b].rx = job[b].rx /\ job'[b].eng = job[b].eng
    /\ job'[b].ids = job[b].ids /\ job'[b].sent = job[b].sent /\ job'[b].prod = "check"
    /\ chan' = chan

(* A record with a token and a finish, and what the poller notes in it.    *)
AdvancedTo(j, i, ids, fin) == i = [j EXCEPT !.ids = ids, !.fin = fin]
PolledTo(j, i, sent, prod) ==
    i = [j EXCEPT !.sent = sent, !.prod = prod] \/ (i = [j EXCEPT !.prod = prod] /\ sent = j.sent)

(* The engine's step changes the tokens and the finish alone.              *)
LEMMA AdvancedFields ==
    ASSUME NEW j, Shaped(j), NEW i, NEW ids, NEW fin, AdvancedTo(j, i, ids, fin)
    PROVE  /\ Shaped(i) /\ i.st = j.st /\ i.rx = j.rx /\ i.prod = j.prod /\ i.sent = j.sent
           /\ i.eng = j.eng /\ i.ids = ids /\ i.fin = fin
<1> USE DEF Shaped, Fields, AdvancedTo
<1>1. Shaped(i)
  OBVIOUS
<1>2. i.st = j.st /\ i.rx = j.rx
  OBVIOUS
<1>3. i.prod = j.prod /\ i.sent = j.sent
  OBVIOUS
<1>4. i.eng = j.eng
  OBVIOUS
<1>5. i.ids = ids /\ i.fin = fin
  OBVIOUS
<1> QED BY <1>1, <1>2, <1>3, <1>4, <1>5

(* The poll changes what was sent and the producer's state alone.          *)
LEMMA PolledFields ==
    ASSUME NEW j, Shaped(j), NEW i, NEW sent, NEW prod, PolledTo(j, i, sent, prod)
    PROVE  /\ i.st = j.st /\ i.rx = j.rx /\ i.ids = j.ids /\ i.eng = j.eng /\ i.fin = j.fin
           /\ i.prod = prod /\ i.sent = sent
<1> USE DEF Shaped, Fields, PolledTo
<1>2. i.st = j.st /\ i.rx = j.rx
  OBVIOUS
<1>3. i.prod = prod
  OBVIOUS
<1>4. i.sent = sent
  OBVIOUS
<1>5. i.eng = j.eng /\ i.fin = j.fin
  OBVIOUS
<1>6. i.ids = j.ids
  OBVIOUS
<1> QED BY <1>2, <1>3, <1>4, <1>5, <1>6

(* One step of a shared engine: every request on it gets a token, the      *)
(* batch whose poll made the step is told of its own, and the others learn *)
(* of theirs later.                                                        *)
LEMMA VllmStepIs ==
    ASSUME Jobs, NEW b \in Batches, VllmStep(b)
    PROVE  /\ \A c \in Batches \ {b} : /\ c \notin engines[job[b].eng].reqs => job'[c] = job[c]
                                       /\ c \in engines[job[b].eng].reqs => Worded(c)
           /\ \A c \in Batches \ {b} : chan'[c] = chan[c] \/ ~Chans
           /\ b \in engines[job[b].eng].reqs => Polled(b)
           /\ b \notin engines[job[b].eng].reqs => Missed(b)
           /\ \E reqs : /\ reqs \subseteq engines[job[b].eng].reqs
                        /\ engines' = [engines EXCEPT ![job[b].eng].reqs = reqs]
                        /\ b \in engines[job[b].eng].reqs /\ job'[b].fin # None => b \notin reqs
<1> DEFINE e == job[b].eng
           reqs == engines[e].reqs
<1>1. PICK done \in SUBSET reqs :
        LET next  == AdvanceAll(reqs, done)
            full  == Decode(next[b].ids)
            alive == job[b].rx
            left  == {r \in reqs : next[r].fin = None}
        IN  /\ IF b \in reqs
               THEN /\ job' = [next EXCEPT
                        ![b].sent = full,
                        ![b].prod = IF next[b].fin # None \/ ~alive THEN "done" ELSE "run"]
                    /\ Send(b, << Item(VllmDelta(full, Len(job[b].sent)), next[b].fin) >>)
               ELSE /\ job' = [next EXCEPT ![b].prod = "check"]
                    /\ UNCHANGED chan
            /\ engines' = [engines EXCEPT
                ![e].reqs = IF b \in reqs /\ ~alive THEN left \ {b} ELSE left]
  BY Zenon DEF VllmStep
<1> DEFINE next == AdvanceAll(reqs, done)
           left == {r \in reqs : next[r].fin = None}
           kept == IF b \in reqs /\ ~job[b].rx THEN left \ {b} ELSE left
           full == Decode(next[b].ids)
           prod == IF next[b].fin # None \/ ~job[b].rx THEN "done" ELSE "run"
<1>2. /\ next = [c \in Batches |-> next[c]]
      /\ \A c \in Batches : c \notin reqs => next[c] = job[c]
      /\ \A c \in Batches : c \in reqs => \E fin : next[c] = [job[c] EXCEPT !.ids = Append(job[c].ids, "w"), !.fin = fin]
  BY DEF AdvanceAll
<1>3. engines' = [engines EXCEPT ![e].reqs = kept]
  BY <1>1, Zenon
<1>4. b \in reqs => /\ job' = [next EXCEPT ![b].sent = full, ![b].prod = prod]
                    /\ Send(b, << Item(VllmDelta(full, Len(job[b].sent)), next[b].fin) >>)
  BY <1>1, Zenon
<1>5. b \notin reqs => job' = [next EXCEPT ![b].prod = "check"] /\ chan' = chan
  BY <1>1, Zenon
<1>6. kept \subseteq reqs /\ (b \in kept => next[b].fin = None)
  OBVIOUS
<1>p. prod = IF next[b].fin # None \/ ~job[b].rx THEN "done" ELSE "run"
  OBVIOUS
<1>f. full = Decode(next[b].ids)
  OBVIOUS
<1> HIDE DEF next, left, kept, full, prod, reqs
<1>7. ASSUME NEW c \in Batches, c \in reqs
      PROVE  /\ Shaped(next[c]) /\ next[c].st = job[c].st /\ next[c].rx = job[c].rx
             /\ next[c].prod = job[c].prod /\ next[c].sent = job[c].sent
             /\ next[c].eng = job[c].eng /\ next[c].ids = Append(job[c].ids, "w")
  <2>1. PICK fin : next[c] = [job[c] EXCEPT !.ids = Append(job[c].ids, "w"), !.fin = fin]
    BY <1>2, <1>7
  <2>2. Shaped(job[c])
    BY DEF Jobs
  <2> DEFINE ids == Append(job[c].ids, "w")
  <2>3. AdvancedTo(job[c], next[c], ids, fin)
    BY <2>1 DEF AdvancedTo
  <2> HIDE DEF ids
  <2>4. /\ Shaped(next[c]) /\ next[c].st = job[c].st /\ next[c].rx = job[c].rx
        /\ next[c].prod = job[c].prod /\ next[c].sent = job[c].sent /\ next[c].eng = job[c].eng
        /\ next[c].ids = ids /\ next[c].fin = fin
    BY ONLY <2>2, <2>3, AdvancedFields
  <2> QED BY <2>4 DEF ids
<1>8. ASSUME NEW c \in Batches \ {b} PROVE job'[c] = next[c]
  BY <1>2, <1>4, <1>5
<1>9. ASSUME NEW c \in Batches \ {b}, c \in reqs PROVE Worded(c)
  BY <1>7, <1>8, <1>9 DEF Worded
<1>10. ASSUME NEW c \in Batches \ {b}, c \notin reqs PROVE job'[c] = job[c]
  BY <1>2, <1>8, <1>10
<1>11. ASSUME b \in reqs
       PROVE  Polled(b) /\ job'[b].fin = next[b].fin
  <2>1. job'[b] = [next[b] EXCEPT !.sent = full, !.prod = prod]
    BY <1>2, <1>4, <1>11
  <2>2. Shaped(next[b])
    BY <1>7, <1>11
  <2>3. /\ job'[b].st = next[b].st /\ job'[b].rx = next[b].rx /\ job'[b].ids = next[b].ids
        /\ job'[b].eng = next[b].eng /\ job'[b].fin = next[b].fin /\ job'[b].prod = prod
        /\ job'[b].sent = full
    <3>1. PolledTo(next[b], job'[b], full, prod)
      BY <2>1 DEF PolledTo
    <3> QED BY <3>1, <2>2, PolledFields
  <2> QED BY <2>3, <1>p, <1>f, <1>4, <1>7, <1>11 DEF Polled
<1>12. ASSUME b \notin reqs PROVE Missed(b)
  <2>1. job'[b] = [job[b] EXCEPT !.prod = "check"] /\ chan' = chan
    BY <1>2, <1>5, <1>12
  <2>2. Shaped(job[b])
    BY DEF Jobs
  <2>3. PolledTo(job[b], job'[b], job[b].sent, "check")
    BY <2>1 DEF PolledTo
  <2>4. /\ job'[b].st = job[b].st /\ job'[b].rx = job[b].rx /\ job'[b].ids = job[b].ids
        /\ job'[b].eng = job[b].eng /\ job'[b].prod = "check" /\ job'[b].sent = job[b].sent
    BY <2>2, <2>3, PolledFields
  <2> QED BY <2>1, <2>4 DEF Missed
<1>13. \A c \in Batches \ {b} : chan'[c] = chan[c] \/ ~Chans
  BY <1>4, <1>5, SentTo
<1>14. kept \subseteq reqs /\ engines' = [engines EXCEPT ![e].reqs = kept]
       /\ (b \in reqs /\ job'[b].fin # None => b \notin kept)
  BY <1>3, <1>6, <1>11
<1> QED BY <1>9, <1>10, <1>11, <1>12, <1>13, <1>14 DEF reqs

(* drive_generation's step: the poller sends the rest of its own batch's   *)
(* text, whoever made the steps before; a batch that finishes leaves.      *)
LEMMA VllmStepSpeaks ==
    ASSUME WorkerInv, TextInv, NEW b \in Batches, VllmStep(b)
    PROVE  TextInv'
<1> DEFINE e == job[b].eng
           R == engines[e].reqs
<1>k. /\ kind = "vllm" /\ kind' = kind /\ out' = out /\ cells' = cells /\ job[b].prod = "run"
  BY DEF VllmStep, Producing
<1>j. Jobs /\ Speaks(b) /\ Outs /\ Chans /\ engines \in Seq(Engine)
  BY DEF WorkerInv, Shapes, TextInv
<1>1. /\ \A c \in Batches \ {b} : /\ c \notin R => job'[c] = job[c]
                                  /\ c \in R => Worded(c)
      /\ \A c \in Batches \ {b} : chan'[c] = chan[c]
      /\ b \in R => Polled(b)
      /\ b \notin R => Missed(b)
  BY <1>j, VllmStepIs
<1>2. PICK reqs : /\ reqs \subseteq R /\ engines' = [engines EXCEPT ![e].reqs = reqs]
                  /\ b \in R /\ job'[b].fin # None => b \notin reqs
  BY <1>j, VllmStepIs
<1>3. e \in 1..Len(engines)
  BY <1>j, <1>k DEF Speaks, Placed
<1>w. Working
  <2>1. Free \in Locks
    BY DEF Locks
  <2> QED BY <2>1, <1>2, <1>k, EnginesWork
<1>r. \A c \in Batches : (c \in R => Wanted(c)) /\ Shrinks(c) /\ job[c].eng \in Nat
  BY <1>3, <1>w DEF Wanted, Working
<1>e. engines'[e].reqs = reqs
  <2>1. engines[e] \in Engine /\ engines \in [1..Len(engines) -> Engine]
    BY <1>3, <1>j
  <2>2. engines'[e] = [engines[e] EXCEPT !.reqs = reqs]
    BY <2>1, <1>2, <1>3
  <2> QED BY <2>1, <2>2 DEF Engine
<1>s. Grown /\ Launched' /\ Shrinks(b) /\ job[b].eng \in Nat
  BY <1>w DEF Working
<1> HIDE DEF R
<1>4. ASSUME NEW c \in Batches \ {b} PROVE Speaks(c)'
  <2>1. Speaks(c) /\ chan'[c] = chan[c] /\ out'[c] = out[c] /\ Shrinks(c) /\ job[c].eng \in Nat
    BY <1>1, <1>k, <1>r DEF TextInv
  <2>2. CASE c \notin R
    <3>1. Still(c)
      BY <2>2, <1>1 DEF Still
    <3> QED BY <3>1, <2>1, <1>k, <1>s, StillSpeaks
  <2>3. CASE c \in R
    <3>1. Worded(c) /\ Wanted(c)
      BY <2>3, <1>1, <1>r
    <3>2. Owned(c)'
      BY <3>1, <2>1, OwnedKept DEF Worded, Speaks
    <3>3. Placed(c)'
      BY <3>1, <2>1, <1>s, PlacedKept DEF Worded, Speaks, Placed
    <3>4. Spoken("vllm", job[c], chan[c], out[c], Wanted(c))
      BY <2>1, <1>k DEF Speaks
    <3>5. Spoken("vllm", job'[c], chan[c], out[c], Wanted(c)')
      BY <3>1, <3>4, SpokenGrows DEF Worded
    <3> QED BY <3>2, <3>3, <3>5, <2>1, <1>k DEF Speaks
  <2> QED BY <2>2, <2>3
<1>5. Outs'
  BY <1>j, <1>k DEF Outs
<1>l. Lags("vllm", job[b].ids, job[b].sent) /\ Spoken("vllm", job[b], chan[b], out[b], Wanted(b))
  BY <1>j, <1>k DEF Speaks, Spoken
<1>6. ASSUME b \notin R PROVE Speaks(b)' /\ Chans'
  <2>1. Missed(b)
    BY <1>6, <1>1
  <2>2. Chans' /\ chan'[b] = chan[b]
    BY <2>1, <1>j DEF Chans, Missed
  <2>3. Owned(b)' /\ (Wanted(b)' => Wanted(b))
    BY <2>1, <1>j, <1>s, OwnedKept DEF Missed, Speaks
  <2>4. Placed(b)'
    BY <2>1, <1>j, <1>k, <1>s, PlacedKept DEF Missed, Speaks
  <2>5. ASSUME NEW E, Hands("vllm", job[b], chan[b], out[b], Wanted(b), E)
        PROVE  Hands("vllm", job'[b], chan[b], out[b], Wanted(b)', E)
    <3>1. Sends("vllm", job[b], Wanted(b), E, SaidFinish(out[b], chan[b]))
      BY <2>5 DEF Hands
    <3>2. Sends("vllm", job'[b], Wanted(b)', E, SaidFinish(out[b], chan[b]))
      BY <3>1, <2>1, <2>3, <1>k, SendsOn DEF Missed
    <3> QED BY <3>2, <2>5, HandsSilent
  <2>6. Spoken("vllm", job'[b], chan[b], out[b], Wanted(b)')
    BY <1>k, <1>l, <2>1, <2>5, SpokenProduced DEF Missed
  <2> QED BY <2>2, <2>3, <2>4, <2>6, <1>k DEF Speaks
<1>7. ASSUME b \in R PROVE Speaks(b)' /\ Chans'
  <2> DEFINE full == job'[b].sent
             x == Item(VllmDelta(full, Len(job[b].sent)), job'[b].fin)
             items == <<x>>
  <2>1. Polled(b)
    BY <1>7, <1>1
  <2>2. Send(b, items)
    BY <2>1 DEF Polled
  <2>x. x.text = VllmDelta(full, Len(job[b].sent)) /\ x.fin = job'[b].fin
    BY DEF Item
  <2> HIDE DEF x
  <2>3. Chans' /\ (job[b].rx => chan'[b] = chan[b] \o <<x>>)
    <3>1. items = <<x>> \/ items = <<>>
      OBVIOUS
    <3>2. Chans'
      BY <3>1, <2>2, <1>j, <1>k, SendTells
    <3>3. job[b].rx => chan'[b] = chan[b] \o items
      BY <2>2, <1>j, SentTo
    <3> QED BY <3>2, <3>3
  <2>4. Owned(b)'
    BY <2>1, <1>j, <1>s, OwnedKept DEF Polled, Speaks
  <2>5. Placed(b)'
    BY <2>1, <1>j, <1>k, <1>s, PlacedKept DEF Polled, Speaks
  <2>6. job'[b].fin # None => ~Wanted(b)'
    <3> SUFFICES ASSUME job'[b].fin # None, Wanted(b)' PROVE FALSE
      OBVIOUS
    <3>1. PICK n \in 1..Len(engines') : b \in engines'[n].reqs
      BY DEF Wanted
    <3>2. job'[b].eng = n
      BY <3>1, <2>4 DEF Owned
    <3>3. n = e
      BY <3>2, <2>1 DEF Polled
    <3> QED BY <3>1, <3>3, <1>2, <1>7, <1>e DEF R
  <2>7. Lags("vllm", job'[b].ids, job[b].sent) /\ Lags("vllm", job'[b].ids, full)
    BY <2>1, <1>l, LagsWord DEF Polled
  <2>8. full = Decode(job'[b].ids)
    BY <2>1 DEF Polled
  <2>9. /\ full \in Seq(Char) /\ job[b].sent \in Seq(Char) /\ Begins(job[b].sent, full)
        /\ Begins(full, Decode(job'[b].ids))
    BY <2>7, <2>8 DEF Lags
  <2>10. x.text \in Seq(Char) /\ job[b].sent \o x.text = full
    BY <2>9, <2>x, VllmDeltaIs
  <2>11. /\ job'[b].st = job[b].st /\ job'[b].rx = job[b].rx
         /\ job'[b].prod \notin {"none", "abort"}
         /\ job'[b].fin # None => job'[b].prod = "done"
    BY <2>1 DEF Polled
  <2> HIDE DEF full, items
  <2>12. ASSUME NEW E, job[b].rx, Hands("vllm", job[b], chan[b], out[b], Wanted(b), E)
         PROVE  Hands("vllm", job'[b], chan'[b], out[b], Wanted(b)', E \o x.text)
    <3>1. ~Settled("vllm", job[b])
      BY <1>k DEF Settled
    <3>2. ~SaidFinish(out[b], chan[b]) /\ E = job[b].sent
      BY <3>1, <2>12, Unfinished
    <3>3. job'[b].fin # None => Settled("vllm", job'[b])
      BY <2>11 DEF Settled
    <3>4. E \o x.text = full
      BY <3>2, <2>10
    <3>5. full = job'[b].sent
      BY DEF full
    <3>6. Sends("vllm", job'[b], Wanted(b)', E \o x.text, SaidFinish(out[b], chan[b]) \/ x.fin # None)
      BY <3>2, <3>3, <3>4, <3>5, <2>6, <2>8, <2>9, <2>x DEF Sends
    <3>7. Hands("vllm", job'[b], chan[b] \o <<x>>, out[b], Wanted(b)', E \o x.text)
      BY <3>2, <3>6, <2>10, <2>12, HandsSent
    <3> QED BY <3>7, <2>3, <2>12
  <2>13. Spoken("vllm", job'[b], chan'[b], out[b], Wanted(b)')
    <3>1. Lags("vllm", job'[b].ids, job'[b].sent)
      BY <2>7 DEF full
    <3>2. \A E : job[b].st = "stream" /\ job[b].rx /\ Hands("vllm", job[b], chan[b], out[b], Wanted(b), E)
             => \E F : Hands("vllm", job'[b], chan'[b], out[b], Wanted(b)', F)
      BY <2>12
    <3> QED BY <3>1, <3>2, <1>k, <1>l, <2>11, SpokenProduced
  <2> QED BY <2>3, <2>4, <2>5, <2>13, <1>k DEF Speaks
<1> QED BY <1>4, <1>5, <1>6, <1>7, <1>s DEF TextInv

(* What the producers do.                                                  *)
LEMMA ProducersSpeak ==
    ASSUME WorkerInv, TextInv, NEW b \in Batches, ProducerStep(b)
    PROVE  TextInv'
BY VllmStepSpeaks, PollerSpeaks, OrtSpeaks, OrtTokenSpeaks, OrtFlushSpeaks, MistralSpeaks,
   MockSpeaks, AbortSpeaks, PanicSpeaks DEF ProducerStep

-----------------------------------------------------------------------------
(* Engines and runners as far as the two actors and a waiting task go.     *)
Idling == Grown /\ Launched' /\ \A c \in Batches : Shrinks(c) /\ job[c].eng \in Nat

(* A step that only locks, unlocks or empties runners leaves every engine  *)
(* and every batch as it was.                                              *)
LEMMA RelockIdles ==
    ASSUME WorkerInv, TextInv, engines' = engines, Len(cells') = Len(cells),
           \A i \in 1..Len(cells) : cells'[i].engine = cells[i].engine \/ cells'[i].engine = 0
    PROVE  Idling
<1>1. engines \in Seq(Engine) /\ cells \in Seq(Cell) /\ \A c \in Batches : job[c].eng \in Nat
  BY DEF WorkerInv, Shapes, Floors, BatchFloor
<1>2. Grown /\ \A c : Shrinks(c)
  <2>1. Free \in Locks /\ engines[0].reqs \subseteq engines[0].reqs
    BY DEF Locks
  <2> QED BY <2>1, <1>1, EngineShrinks
<1>3. Launched'
  BY <1>1, <1>2, LaunchedKept DEF TextInv
<1> QED BY <1>1, <1>2, <1>3 DEF Idling

(* One batch's status changes.                                             *)
LEMMA StatusMovesOn ==
    ASSUME Jobs, NEW b \in Batches, NEW status, job' = [job EXCEPT ![b].st = status],
           job[b].st \notin {"stream", "closed"}, status # "stream"
    PROVE  \A c \in Batches : Still(c) \/ Moves(c)
<1>1. \A c \in Batches \ {b} : job'[c] = job[c]
  BY DEF Jobs
<1>2. job'[b].st = status /\ job'[b].prod = job[b].prod
  BY DEF Jobs, Shaped, Fields
<1>3. job'[b].ids = job[b].ids /\ job'[b].sent = job[b].sent
  BY DEF Jobs, Shaped, Fields
<1>4. job'[b].fin = job[b].fin /\ job'[b].rx = job[b].rx
  BY DEF Jobs, Shaped, Fields
<1> QED BY <1>1, <1>2, <1>3, <1>4 DEF Still, Moves

(* Taking a runner's lock, and launching its engine, says nothing.         *)
LEMMA LockSpeaks ==
    ASSUME WorkerInv, TextInv, NEW b \in Batches, AcquireRunner(b) \/ Launch(b)
    PROVE  TextInv'
<1>t. Jobs /\ cells \in Seq(Cell) /\ engines \in Seq(Engine) /\ \A c \in Batches : job[c].eng \in Nat
  BY DEF WorkerInv, Shapes, Floors, BatchFloor
<1>1. CASE AcquireRunner(b)
  <2>1. /\ job[b].st = "waiting" /\ job' = [job EXCEPT ![b].st = "locked"] /\ engines' = engines
        /\ kind' = kind /\ chan' = chan /\ out' = out
        /\ cells' = [cells EXCEPT ![job[b].cell].lock = b]
    BY <1>1 DEF AcquireRunner
  <2>2. b \in Locks
    BY DEF Locks
  <2>3. Relocked(cells, cells')
    BY <2>1, <2>2, <1>t, CellLock
  <2>4. Idling
    BY <2>1, <2>3, RelockIdles DEF Relocked
  <2>5. \A c \in Batches : Still(c) \/ Moves(c)
    BY <2>1, <1>t, StatusMovesOn
  <2> QED BY <2>1, <2>4, <2>5, NobodySpeaks DEF Idling
<1>2. CASE Launch(b)
  <2> DEFINE new == [reqs |-> {}, session |-> Free]
  <2>1. /\ job' = job /\ kind' = kind /\ chan' = chan /\ out' = out
        /\ engines' = Append(engines, new)
        /\ cells' = [cells EXCEPT ![job[b].cell].engine = Len(engines')]
    BY <1>2 DEF Launch
  <2>2. new \in Engine /\ new.reqs = {}
    BY DEF Engine, Locks
  <2> HIDE DEF new
  <2>3. /\ Len(engines) \in Nat /\ Len(engines') = Len(engines) + 1
        /\ engines'[Len(engines) + 1] = new
        /\ \A i \in 1..Len(engines) : engines'[i] = engines[i]
    BY <2>1, <2>2, <1>t, AppendProperties, LenProperties
  <2>4. Grown
    BY <2>3 DEF Grown
  <2>5. ASSUME NEW c PROVE Shrinks(c)
    <3>1. \A i \in 1..Len(engines') : i \in 1..Len(engines) \/ i = Len(engines) + 1
      BY <2>3
    <3> QED BY <3>1, <2>2, <2>3 DEF Shrinks
  <2>6. Len(engines') \in Nat
    BY <2>3
  <2>7. Reengined(cells, cells', job[b].cell, Len(engines'))
    BY <2>1, <2>6, <1>t, CellEngine
  <2>8. Launched'
    <3>1. ASSUME NEW i \in 1..Len(cells) PROVE cells'[i].engine <= Len(engines')
      <4>1. cells'[i].engine = Len(engines') \/ cells'[i].engine = cells[i].engine
        BY <2>7 DEF Reengined
      <4>2. cells[i].engine \in Nat /\ cells[i].engine <= Len(engines)
        BY <1>t, CellType DEF TextInv, Launched
      <4> QED BY <4>1, <4>2, <2>3
    <3>2. Len(cells') = Len(cells)
      BY <2>7 DEF Reengined
    <3> QED BY <3>1, <3>2 DEF Launched
  <2>9. \A c \in Batches : Still(c)
    BY <2>1 DEF Still
  <2> QED BY <2>1, <2>4, <2>5, <2>8, <2>9, <1>t, NobodySpeaks
<1> QED BY <1>1, <1>2

(* execute fails: nothing of the batch was sent.                           *)
LEMMA FailSpeaks ==
    ASSUME WorkerInv, TextInv, NEW b \in Batches, Holds(b), NEW k, Fail(b, k)
    PROVE  TextInv'
<1>t. Jobs /\ cells \in Seq(Cell) /\ Outs /\ Chans /\ Speaks(b)
  BY DEF WorkerInv, Shapes, TextInv
<1>e. /\ job' = [job EXCEPT ![b].st = "closed", ![b].eng = cells[job[b].cell].engine, ![b].rx = FALSE]
      /\ kind' = kind /\ chan' = chan /\ job[b].st = "locked" /\ engines' = engines
      /\ cells' = [cells EXCEPT ![job[b].cell].lock = Free]
  BY DEF Fail, Holds
<1>o. out' = [out EXCEPT ![b].err = IF job[b].reader THEN k ELSE out[b].err]
  BY DEF Fail
<1>1. \A c \in Batches \ {b} : job'[c] = job[c]
  BY <1>e, <1>t DEF Jobs
<1>2. job'[b].st = "closed"
  BY <1>e, <1>t DEF Jobs, Shaped, Fields
<1>3. job'[b].prod = job[b].prod /\ job'[b].fin = job[b].fin
  BY <1>e, <1>t DEF Jobs, Shaped, Fields
<1>4. job'[b].ids = job[b].ids /\ job'[b].sent = job[b].sent
  BY <1>e, <1>t DEF Jobs, Shaped, Fields
<1>5. Moves(b)
  BY <1>e, <1>2, <1>3, <1>4 DEF Moves
<1>6. /\ out' = [c \in Batches |-> out'[c]] /\ \A c \in Batches \ {b} : out'[c] = out[c]
      /\ out'[b] = [out[b] EXCEPT !.err = IF job[b].reader THEN k ELSE out[b].err]
  BY <1>t, <1>o DEF Outs
<1>7. Written(out[b])
  BY <1>t DEF Outs
<1>8. Written(out'[b]) /\ out'[b].text = out[b].text /\ out'[b].fin = out[b].fin
  BY <1>6, <1>7 DEF Written
<1>9. Outs' /\ Chans'
  BY <1>t, <1>e, <1>6, <1>8 DEF Outs, Chans
<1>10. Relocked(cells, cells')
  <2>1. Free \in Locks
    BY DEF Locks
  <2> QED BY <2>1, <1>e, <1>t, CellLock
<1>11. Idling
  BY <1>e, <1>10, RelockIdles DEF Relocked
<1>12. Speaks(b)'
  BY <1>e, <1>t, <1>5, <1>8, <1>11, MovesSpeaks DEF Idling
<1>13. \A c \in Batches \ {b} : chan'[c] = chan[c]
  BY <1>e
<1> QED BY <1>1, <1>6, <1>9, <1>11, <1>12, <1>13, <1>e, OneSpeaks DEF Idling

(* The stream is opened, and vLLM's engine takes the batch on.             *)
LEMMA SubmitSpeaks ==
    ASSUME WorkerInv, TextInv, NEW b \in Batches, Submit(b)
    PROVE  TextInv'
<1> DEFINE e == cells[job[b].cell].engine
           prod == IF kind = "ort" THEN "session" ELSE "run"
<1>t. Jobs /\ cells \in Seq(Cell) /\ engines \in Seq(Engine) /\ Outs /\ Chans /\ Speaks(b)
      /\ Launched
  BY DEF WorkerInv, Shapes, TextInv
<1>n. \A c \in Batches : job[c].eng \in Nat
  BY DEF WorkerInv, Floors, BatchFloor
<1>e. /\ job' = [job EXCEPT ![b].st = "stream", ![b].eng = e, ![b].prod = prod]
      /\ kind' = kind /\ chan' = chan /\ out' = out /\ job[b].st = "locked" /\ e # 0
      /\ cells' = [cells EXCEPT ![job[b].cell].lock = Free]
  BY DEF Submit, Holds
<1>v. /\ kind = "vllm" => engines' = [engines EXCEPT ![e].reqs = engines[e].reqs \cup {b}]
      /\ kind # "vllm" => engines' = engines
  BY DEF Submit
<1>p. prod \in {"session", "run"}
  OBVIOUS
<1>c. e \in 1..Len(engines)
  <2>1. job[b].cell \in Nat /\ job[b].cell # 0 /\ job[b].cell <= Len(cells)
    BY <1>e DEF WorkerInv, Floors, BatchFloor, Active
  <2>2. job[b].cell \in 1..Len(cells)
    BY <2>1, <1>t, LenProperties
  <2>3. e \in Nat /\ e <= Len(engines)
    BY <2>2, <1>t, CellType DEF Launched
  <2> QED BY <2>3, <1>e, <1>t, LenProperties
<1> HIDE DEF e, prod
<1>1. \A c \in Batches \ {b} : job'[c] = job[c]
  BY <1>e, <1>t DEF Jobs
<1>2. job'[b].st = "stream" /\ job'[b].prod = prod
  BY <1>e, <1>t DEF Jobs, Shaped, Fields
<1>3. job'[b].ids = job[b].ids /\ job'[b].sent = job[b].sent
  BY <1>e, <1>t DEF Jobs, Shaped, Fields
<1>4. job'[b].rx = job[b].rx /\ job'[b].eng = e
  BY <1>e, <1>t DEF Jobs, Shaped, Fields
<1>5. /\ Len(engines') = Len(engines)
      /\ \A i \in 1..Len(engines) : /\ engines'[i].reqs \subseteq engines[i].reqs \cup {b}
                                    /\ i # e \/ kind # "vllm" => engines'[i].reqs = engines[i].reqs
  <2>1. CASE kind # "vllm"
    BY <2>1, <1>v
  <2>2. CASE kind = "vllm"
    <3> DEFINE reqs == engines[e].reqs \cup {b}
    <3>1. engines' = [engines EXCEPT ![e].reqs = reqs]
      BY <2>2, <1>v
    <3>2. reqs \subseteq Batches /\ Free \in Locks
      BY <1>c, <1>t, EngineReqs DEF Locks
    <3> HIDE DEF reqs
    <3>3. Resized(engines, engines')
      BY <3>1, <3>2, <1>t, EngineChange
    <3>4. ASSUME NEW i \in 1..Len(engines)
          PROVE  /\ engines'[i].reqs \subseteq engines[i].reqs \cup {b}
                 /\ i # e => engines'[i].reqs = engines[i].reqs
      <4>1. engines[i] \in Engine /\ engines \in [1..Len(engines) -> Engine]
        BY <1>t
      <4>2. i # e => engines'[i] = engines[i]
        BY <4>1, <3>1
      <4>3. i = e => engines'[i] = [engines[i] EXCEPT !.reqs = reqs]
        BY <4>1, <3>1
      <4>4. i = e => engines'[i].reqs = reqs
        BY <4>1, <4>3 DEF Engine
      <4> QED BY <4>2, <4>4 DEF reqs
    <3> QED BY <2>2, <3>3, <3>4 DEF Resized
  <2> QED BY <2>1, <2>2
<1>6. Grown
  BY <1>5, <1>t, LenProperties DEF Grown
<1>7. \A c \in Batches \ {b} : Shrinks(c)
  BY <1>5 DEF Shrinks
<1>8. ~Wanted(b)
  BY <1>e, <1>t DEF Speaks, Spoken
<1>9. Owned(b)' /\ (kind # "vllm" => ~Wanted(b)')
  BY <1>4, <1>5, <1>8 DEF Owned, Wanted
<1>10. Placed(b)'
  BY <1>4, <1>5, <1>c DEF Placed
<1>11. Spoken(kind, job'[b], chan[b], out[b], Wanted(b)')
  <2>1. Spoken(kind, job[b], chan[b], out[b], Wanted(b)) /\ job[b].st \notin {"stream", "closed"}
    BY <1>e, <1>t DEF Speaks
  <2>2. job'[b].prod \in {"session", "run"}
    BY <1>2, <1>p
  <2> QED BY <2>1, <2>2, <1>2, <1>3, <1>4, <1>9, SpokenOpens
<1>12. Speaks(b)'
  BY <1>9, <1>10, <1>11, <1>e DEF Speaks
<1>13. Relocked(cells, cells')
  <2>1. Free \in Locks
    BY DEF Locks
  <2> QED BY <2>1, <1>e, <1>t, CellLock
<1>14. Launched'
  BY <1>13, <1>t, <1>6, LaunchedKept DEF Relocked
<1>15. Outs' /\ Chans'
  BY <1>t, <1>e DEF Outs, Chans
<1> QED BY <1>1, <1>6, <1>7, <1>12, <1>14, <1>15, <1>e, <1>n, OneSpeaks

(* The drain hands on the first item of the channel.                       *)
LEMMA DrainSpeaks ==
    ASSUME WorkerInv, TextInv, NEW b \in Batches, Drain(b), job[b].reader
    PROVE  TextInv'
<1> DEFINE x == Head(chan[b])
           text == out[b].text \o x.text
           more == IF x.fin = None THEN 0 ELSE 1
           fin == out[b].fin + more
           err == IF x.err = None THEN out[b].err ELSE x.err
<1>t. Outs /\ Chans /\ Speaks(b)
  BY DEF TextInv
<1>e. /\ kind' = kind /\ job' = job /\ job[b].st = "stream" /\ chan[b] # <<>>
      /\ chan' = [chan EXCEPT ![b] = Tail(chan[b])] /\ engines' = engines /\ cells' = cells
  BY DEF Drain
<1>o. out' = [out EXCEPT ![b].text = text, ![b].fin = fin, ![b].err = err]
  BY DEF Drain
<1>i. Idling
  BY <1>e, RelockIdles
<1>1. PICK S : chan[b] \in Seq(S)
  BY <1>t DEF Chans, Queued
<1>2. /\ chan' = [c \in Batches |-> chan'[c]] /\ \A c \in Batches \ {b} : chan'[c] = chan[c]
      /\ chan'[b] = Tail(chan[b])
  BY <1>t, <1>e DEF Chans
<1>3. Tail(chan[b]) \in Seq(S)
  BY <1>1, <1>e
<1>4. Chans'
  BY <1>t, <1>2, <1>3 DEF Chans, Queued
<1>5. Written(out[b])
  BY <1>t DEF Outs
<1>6. fin \in Nat /\ out[b].fin \in Nat
  BY <1>5 DEF Written
<1>f. text = out[b].text \o Head(chan[b]).text /\ fin = out[b].fin + (IF Head(chan[b]).fin = None THEN 0 ELSE 1)
  OBVIOUS
<1> HIDE DEF x, text, fin, err, more
<1>7. /\ out' = [c \in Batches |-> out'[c]] /\ \A c \in Batches \ {b} : out'[c] = out[c]
  BY <1>t, <1>o DEF Outs
<1>8. out'[b].fin = fin /\ out'[b].text = text
  BY <1>t, <1>o, <1>5 DEF Outs, Written
<1>9. Written(out'[b])
  <2>1. out'[b] = [f \in {"text", "fin", "err"} |-> out'[b][f]]
    BY <1>t, <1>o, <1>5 DEF Outs, Written
  <2> QED BY <2>1, <1>6, <1>8 DEF Written
<1>10. Outs'
  BY <1>t, <1>7, <1>9 DEF Outs
<1>11. PICK E : Hands(kind, job[b], chan[b], out[b], Wanted(b), E)
  BY <1>t, <1>e DEF Speaks, Spoken
<1>12. Hands(kind, job[b], Tail(chan[b]), out'[b], Wanted(b), E)
  BY <1>11, <1>e, <1>6, <1>8, <1>f, HandsOver
<1>13. Spoken(kind, job[b], Tail(chan[b]), out'[b], Wanted(b))
  BY <1>12, <1>t, <1>e DEF Speaks, Spoken
<1>14. Wanted(b)' <=> Wanted(b)
  BY <1>e DEF Wanted
<1>15. Spoken(kind, job'[b], chan'[b], out'[b], Wanted(b)')
  <2>1. Wanted(b)' => Wanted(b)
    BY <1>14
  <2> QED BY <2>1, <1>13, <1>2, <1>e, SpokenSame
<1>16. Owned(b)' /\ Placed(b)'
  BY <1>t, <1>e DEF Speaks, Owned, Placed
<1>17. Speaks(b)'
  BY <1>15, <1>16, <1>e DEF Speaks
<1>18. \A c \in Batches \ {b} : job'[c] = job[c]
  BY <1>e
<1> QED BY <1>2, <1>4, <1>7, <1>10, <1>17, <1>18, <1>i, <1>e, OneSpeaks DEF Idling

(* The consumer is gone: the drain stops, and nothing counts any more.     *)
LEMMA DrainHushes ==
    ASSUME WorkerInv, TextInv, NEW b \in Batches, Drain(b), ~job[b].reader
    PROVE  TextInv'
<1> DEFINE prod == IF ~Unblocked(b) /\ job[b].prod \in {"run", "flush"} THEN "abort" ELSE job[b].prod
<1>t. Jobs /\ Outs /\ Chans /\ Speaks(b)
  BY DEF WorkerInv, Shapes, TextInv
<1>e. /\ kind' = kind /\ job[b].st = "stream" /\ engines' = engines /\ cells' = cells
      /\ chan' = [chan EXCEPT ![b] = <<>>] /\ out' = [out EXCEPT ![b] = NoOut]
      /\ job' = [job EXCEPT ![b].st = "closed", ![b].rx = FALSE, ![b].prod = prod]
  BY DEF Drain
<1>i. Idling
  BY <1>e, RelockIdles
<1>p. prod = job[b].prod \/ (prod = "abort" /\ job[b].prod \in {"run", "flush"})
  OBVIOUS
<1> HIDE DEF prod
<1>2. \A c \in Batches \ {b} : job'[c] = job[c]
  BY <1>e, <1>t DEF Jobs
<1>3. job'[b].st = "closed" /\ job'[b].prod = prod
  BY <1>e, <1>t DEF Jobs, Shaped, Fields
<1>4. job'[b].ids = job[b].ids /\ job'[b].sent = job[b].sent
  BY <1>e, <1>t DEF Jobs, Shaped, Fields
<1>5. job'[b].eng = job[b].eng
  BY <1>e, <1>t DEF Jobs, Shaped, Fields
<1>6. Written(NoOut) /\ Quiet(NoOut)
  BY DEF Written, NoOut, Quiet
<1>7. Outs' /\ out'[b] = NoOut /\ \A c \in Batches \ {b} : out'[c] = out[c]
  BY <1>t, <1>e, <1>6 DEF Outs
<1>8. Chans' /\ \A c \in Batches \ {b} : chan'[c] = chan[c]
  <2>1. <<>> \in Seq({})
    OBVIOUS
  <2>2. Queued(<<>>)
    BY <2>1 DEF Queued
  <2> QED BY <1>t, <1>e, <2>2 DEF Chans
<1>9. (Wanted(b)' => Wanted(b)) /\ Owned(b)'
  BY <1>t, <1>5, <1>i, OwnedKept DEF Speaks, Idling
<1>10. Placed(b)'
  BY <1>t, <1>3, <1>5, <1>p, <1>i, PlacedKept DEF Speaks, Idling
<1>11. Spoken(kind, job'[b], chan'[b], out'[b], Wanted(b)')
  BY <1>t, <1>3, <1>4, <1>6, <1>7, <1>9 DEF Speaks, Spoken
<1>12. Speaks(b)'
  BY <1>9, <1>10, <1>11, <1>e DEF Speaks
<1> QED BY <1>2, <1>7, <1>8, <1>12, <1>i, <1>e, OneSpeaks DEF Idling

(* The stream is over: all that was sent was handed over.                  *)
LEMMA CloseSpeaks ==
    ASSUME WorkerInv, TextInv, NEW b \in Batches, DrainEnds(b)
    PROVE  TextInv'
<1> DEFINE left == b \notin engines[job[b].eng].reqs
           ids == IF left THEN <<>> ELSE job[b].ids
           sent == IF left THEN <<>> ELSE job[b].sent
           eng == IF left THEN 0 ELSE job[b].eng
           fin == IF left THEN None ELSE job[b].fin
           text == IF left THEN <<>> ELSE out[b].text
<1>t. Jobs /\ Outs /\ Chans /\ Speaks(b)
  BY DEF WorkerInv, Shapes, TextInv
<1>e. /\ job[b].st = "stream" /\ job[b].prod = "done" /\ chan[b] = <<>>
      /\ chan' = chan /\ kind' = kind /\ engines' = engines /\ cells' = cells
  BY DEF DrainEnds
<1>j. job' = [job EXCEPT ![b].st = "closed", ![b].rx = FALSE, ![b].ids = ids, ![b].sent = sent,
                         ![b].eng = eng, ![b].fin = fin]
  BY DEF DrainEnds
<1>o. out' = [out EXCEPT ![b].text = text]
  BY DEF DrainEnds
<1>i. Idling
  BY <1>e, RelockIdles
<1>l. \/ left /\ ids = <<>> /\ sent = <<>> /\ eng = 0 /\ text = <<>>
      \/ ~left /\ ids = job[b].ids /\ sent = job[b].sent /\ eng = job[b].eng /\ text = out[b].text
  OBVIOUS
<1> HIDE DEF ids, sent, eng, fin, text
<1>2. \A c \in Batches \ {b} : job'[c] = job[c]
  BY <1>j, <1>t DEF Jobs
<1>r. /\ job'[b] = [job[b] EXCEPT !.st = "closed", !.rx = FALSE, !.ids = ids, !.sent = sent,
                                  !.eng = eng, !.fin = fin]
      /\ Shaped(job[b])
  BY <1>j, <1>t DEF Jobs
<1>3. job'[b].st = "closed"
  BY <1>r DEF Shaped, Fields
<1>4. job'[b].prod = job[b].prod
  BY <1>r DEF Shaped, Fields
<1>5. job'[b].ids = ids
  BY <1>r DEF Shaped, Fields
<1>6. job'[b].sent = sent
  BY <1>r DEF Shaped, Fields
<1>7. job'[b].eng = eng
  BY <1>r DEF Shaped, Fields
<1>8. Written(out[b])
  BY <1>t DEF Outs
<1>9. /\ out' = [c \in Batches |-> out'[c]] /\ \A c \in Batches \ {b} : out'[c] = out[c]
      /\ out'[b].fin = out[b].fin /\ out'[b].text = text /\ Written(out'[b])
  <2>1. /\ out' = [c \in Batches |-> out'[c]] /\ \A c \in Batches \ {b} : out'[c] = out[c]
        /\ out'[b] = [out[b] EXCEPT !.text = text]
    BY <1>t, <1>o DEF Outs
  <2> QED BY <2>1, <1>8 DEF Written
<1>10. Outs' /\ Chans'
  BY <1>t, <1>e, <1>9 DEF Outs, Chans
<1>11. Wanted(b)' <=> Wanted(b)
  BY <1>e DEF Wanted
<1>12. Owned(b)'
  BY <1>t, <1>l, <1>e, <1>7 DEF Speaks, Owned
<1>13. Placed(b)'
  BY <1>e, <1>4 DEF Placed
<1>14. PICK E : Hands(kind, job[b], chan[b], out[b], Wanted(b), E)
  BY <1>t, <1>e DEF Speaks, Spoken
<1>15. /\ E \in Seq(Char) /\ out[b].text \in Seq(Char) /\ Begins(E, Decode(job[b].ids))
       /\ out[b].text = E
       /\ out[b].fin > 0 => E = Decode(job[b].ids) /\ ~Wanted(b)
  <2>1. /\ E \in Seq(Char) /\ out[b].text \in Seq(Char) /\ Begins(E, Decode(job[b].ids))
        /\ Queued(chan[b]) /\ Carried(out[b].text, chan[b], E)
    BY <1>14 DEF Hands, Sends, Parcels
  <2>2. out[b].text = E
    BY <2>1, <1>e, CarriedBegins
  <2>3. out[b].fin > 0 => E = Decode(job[b].ids) /\ ~Wanted(b)
    BY <1>14 DEF Hands, Sends, SaidFinish
  <2> QED BY <2>1, <2>2, <2>3
<1>16. Lags(kind, ids, sent) /\ Whole(job'[b], out'[b], Wanted(b)')
  <2>1. CASE left
    <3>1. ids = <<>> /\ sent = <<>> /\ text = <<>>
      BY <2>1, <1>l
    <3>2. Decode(<<>>) = <<>> /\ Lags(kind, <<>>, <<>>) /\ <<>> \in Seq(Char) /\ Len(<<>>) = 0
      BY DecodeEmpty, EmptySeq
    <3>3. Begins(<<>>, <<>>)
      BY <3>2 DEF Begins
    <3>4. out[b].fin > 0 => ~Wanted(b)'
      BY <1>11, <1>15
    <3> QED BY <3>1, <3>2, <3>3, <3>4, <1>5, <1>9 DEF Whole
  <2>2. CASE ~left
    <3>1. ids = job[b].ids /\ sent = job[b].sent /\ text = out[b].text
      BY <2>2, <1>l
    <3>2. Lags(kind, job[b].ids, job[b].sent)
      BY <1>t DEF Speaks, Spoken
    <3> QED BY <3>1, <3>2, <1>5, <1>9, <1>11, <1>15 DEF Whole
  <2> QED BY <2>1, <2>2
<1>17. Spoken(kind, job'[b], chan'[b], out'[b], Wanted(b)')
  <2>1. kind # "vllm" => ~Wanted(b)'
    BY <1>t, <1>11 DEF Speaks, Spoken
  <2> QED BY <2>1, <1>16, <1>3, <1>4, <1>5, <1>6, <1>e DEF Spoken
<1>18. Speaks(b)'
  BY <1>12, <1>13, <1>17, <1>e DEF Speaks
<1>19. \A c \in Batches \ {b} : chan'[c] = chan[c]
  BY <1>e
<1> QED BY <1>2, <1>9, <1>10, <1>18, <1>19, <1>i, <1>e, OneSpeaks DEF Idling

(* What the tasks, the producers and the consumers do.                     *)
LEMMA RunnerSpeaks ==
    ASSUME WorkerInv, TextInv, NEW b \in Batches, TaskStep(b) \/ ProducerStep(b) \/ ReaderDrops(b)
    PROVE  TextInv'
<1>1. CASE LaunchFails(b)
  <2>1. Holds(b) /\ (Fail(b, "BadRequest") \/ Fail(b, "Internal"))
    BY <1>1 DEF LaunchFails, LaunchErrors
  <2> QED BY <2>1, FailSpeaks
<1>2. CASE SubmitFails(b)
  <2>0. EncodeErrors = {"Internal", "BadRequest"}
    BY DEF EncodeErrors
  <2>1. Holds(b) /\ (Fail(b, "CudaContextPoisoned") \/ Fail(b, "Internal") \/ Fail(b, "BadRequest"))
    BY <1>2, <2>0 DEF SubmitFails
  <2> QED BY <2>1, FailSpeaks
<1>3. CASE ReaderDrops(b)
  <2>1. /\ job' = [job EXCEPT ![b].reader = FALSE] /\ chan' = chan /\ out' = out /\ kind' = kind
        /\ engines' = engines /\ cells' = cells
    BY <1>3 DEF ReaderDrops
  <2>j. Jobs
    BY DEF WorkerInv, Shapes
  <2>2. \A c \in Batches \ {b} : job'[c] = job[c]
    BY <2>1, <2>j DEF Jobs
  <2>3. job'[b].st = job[b].st /\ job'[b].prod = job[b].prod /\ job'[b].fin = job[b].fin
    BY <2>1, <2>j DEF Jobs, Shaped, Fields
  <2>4. job'[b].rx = job[b].rx /\ job'[b].eng = job[b].eng
    BY <2>1, <2>j DEF Jobs, Shaped, Fields
  <2>5. job'[b].ids = job[b].ids /\ job'[b].sent = job[b].sent
    BY <2>1, <2>j DEF Jobs, Shaped, Fields
  <2>6. \A c \in Batches : Still(c)
    BY <2>2, <2>3, <2>4, <2>5 DEF Still
  <2>7. Idling
    BY <2>1, RelockIdles
  <2> QED BY <2>1, <2>6, <2>7, NobodySpeaks DEF Idling
<1> QED BY <1>1, <1>2, <1>3, LockSpeaks, SubmitSpeaks, DrainSpeaks, DrainHushes, CloseSpeaks,
           ProducersSpeak DEF TaskStep

(* What the two actors do: a batch that streams is none of their business. *)
LEMMA WorkerSpeaks ==
    ASSUME WorkerInv, TextInv, [WorkerNext]_vars
    PROVE  TextInv'
<1>j. Jobs /\ inbox \in Seq(Message) /\ ctxbox \in Seq(Message) /\ cells \in Seq(Cell)
  BY DEF WorkerInv, Shapes
<1>h. Holding(inbox, job, "posted") /\ Holding(ctxbox, job, "mail")
  BY DEF WorkerInv, Mail
<1>0. ASSUME UNCHANGED <<kind, job, chan, out>>, Idling PROVE TextInv'
  BY <1>0, NobodySpeaks DEF Idling, Still
<1>i. ASSUME engines' = engines, cells' = cells PROVE Idling
  BY <1>i, RelockIdles
<1>s. ASSUME engines' = engines, cells' = Append(cells, [lock |-> Free, engine |-> 0]) PROVE Idling
  <2> DEFINE new == [lock |-> Free, engine |-> 0]
  <2>1. new \in Cell /\ new.engine = 0
    BY DEF Cell, Locks
  <2>2. cells' = Append(cells, new)
    BY <1>s
  <2> HIDE DEF new
  <2>3. /\ Len(cells) \in Nat /\ Len(cells') = Len(cells) + 1 /\ cells'[Len(cells) + 1] = new
        /\ \A i \in 1..Len(cells) : cells'[i] = cells[i]
    BY <2>1, <2>2, <1>j, AppendProperties, LenProperties
  <2>4. Len(engines) \in Nat /\ Grown /\ \A c \in Batches : Shrinks(c) /\ job[c].eng \in Nat
    <3>1. engines \in Seq(Engine) /\ \A c \in Batches : job[c].eng \in Nat
      BY DEF WorkerInv, Shapes, Floors, BatchFloor
    <3> QED BY <3>1, <1>s, LenProperties DEF Grown, Shrinks
  <2>5. Launched'
    <3>1. \A i \in 1..Len(cells') : i \in 1..Len(cells) \/ i = Len(cells) + 1
      BY <2>3
    <3>2. \A i \in 1..Len(cells) : cells[i].engine <= Len(engines)
      BY DEF TextInv, Launched
    <3> QED BY <3>1, <3>2, <2>1, <2>3, <2>4, <1>s DEF Launched
  <2> QED BY <2>4, <2>5 DEF Idling
<1>1. CASE WorkerStep /\ HandleExecute
  <2> DEFINE m == Head(inbox)
             b == m.batch
  <2>1. /\ m.tag = "Execute" /\ kind' = kind /\ chan' = chan /\ out' = out /\ inbox # <<>>
        /\ engines' = engines /\ cells' = cells
        /\ \/ job' = [job EXCEPT ![b].st = "mail"]
           \/ job' = [job EXCEPT ![b].st = "closed"]
    BY <1>1 DEF WorkerStep, HandleExecute
  <2>2. 1 \in 1..Len(inbox) /\ m = inbox[1] /\ m \in Message
    BY <2>1, <1>j
  <2>3. b \in Batches /\ job[b].st = "posted"
    BY <2>1, <2>2, <1>h, MessageBatch DEF Holding
  <2> HIDE DEF m, b
  <2>4. \A c \in Batches : Still(c) \/ Moves(c)
    BY <2>1, <2>3, <1>j, StatusMovesOn
  <2> QED BY <2>1, <2>4, <1>i, NobodySpeaks DEF Idling
<1>2. CASE WorkerStep /\ HandlePoisoned
  <2>1. /\ kind' = kind /\ chan' = chan /\ out' = out /\ engines' = engines
        /\ cells' = Append(cells, [lock |-> Free, engine |-> 0])
        /\ job' = [b \in Batches |-> IF b \in MailedBatches(ctxbox)
                                     THEN [job[b] EXCEPT !.st = "closed"] ELSE job[b]]
    BY <1>2 DEF HandlePoisoned, SpawnChild
  <2>2. ASSUME NEW c \in Batches PROVE Still(c) \/ Moves(c)
    <3>1. CASE c \in MailedBatches(ctxbox)
      <4>1. PICK i \in 1..Len(ctxbox) : ctxbox[i].tag = "Execute" /\ c = ctxbox[i].batch
        BY <3>1 DEF MailedBatches, Mailed
      <4>2. job[c].st = "mail"
        BY <4>1, <1>h DEF Holding
      <4>3. job'[c] = [job[c] EXCEPT !.st = "closed"] /\ Shaped(job[c])
        BY <2>1, <3>1, <1>j DEF Jobs
      <4>4. job'[c].st = "closed" /\ job'[c].prod = job[c].prod /\ job'[c].fin = job[c].fin
        BY <4>3 DEF Shaped, Fields
      <4>5. job'[c].ids = job[c].ids /\ job'[c].sent = job[c].sent
        BY <4>3 DEF Shaped, Fields
      <4> QED BY <4>2, <4>4, <4>5 DEF Moves
    <3>2. CASE c \notin MailedBatches(ctxbox)
      BY <2>1, <3>2 DEF Still
    <3> QED BY <3>1, <3>2
  <2>3. Idling
    BY <2>1, <1>s
  <2> QED BY <2>1, <2>2, <2>3, NobodySpeaks DEF Idling
<1>3. CASE WorkerStep /\ PreStart
  <2>1. /\ UNCHANGED <<kind, job, chan, out>> /\ engines' = engines
        /\ cells' = Append(cells, [lock |-> Free, engine |-> 0])
    BY <1>3 DEF PreStart, SpawnChild
  <2> QED BY <2>1, <1>0, <1>s
<1>4. CASE WorkerStep /\ HandleRebuild
  BY <1>0, <1>i, <1>4 DEF HandleRebuild, runnerVars
<1>5. CASE ContextStep
  <2>0. kind' = kind /\ chan' = chan /\ out' = out /\ ctxbox # <<>> /\ engines' = engines
        /\ cells' = cells
    BY <1>5 DEF ContextStep
  <2>1. CASE ContextRebuild
    BY <1>0, <1>i, <2>0, <2>1 DEF ContextRebuild
  <2>2. CASE ContextExecute
    <3> DEFINE m == Head(ctxbox)
               b == m.batch
    <3>1. m.tag = "Execute" /\ job' = [job EXCEPT ![b].st = "waiting", ![b].cell = Len(cells)]
      BY <2>2 DEF ContextExecute
    <3>2. 1 \in 1..Len(ctxbox) /\ m = ctxbox[1] /\ m \in Message
      BY <2>0, <1>j
    <3>3. b \in Batches /\ job[b].st = "mail"
      BY <3>1, <3>2, <1>h, MessageBatch DEF Holding
    <3> HIDE DEF m, b
    <3>4. \A c \in Batches \ {b} : job'[c] = job[c]
      BY <3>1, <1>j DEF Jobs
    <3>5. job'[b].st = "waiting" /\ job'[b].prod = job[b].prod /\ job'[b].fin = job[b].fin
      BY <3>1, <3>3, <1>j DEF Jobs, Shaped, Fields
    <3>6. job'[b].rx = job[b].rx
      BY <3>1, <3>3, <1>j DEF Jobs, Shaped, Fields
    <3>7. job'[b].ids = job[b].ids /\ job'[b].sent = job[b].sent
      BY <3>1, <3>3, <1>j DEF Jobs, Shaped, Fields
    <3>8. \A c \in Batches : Still(c) \/ Moves(c)
      BY <3>3, <3>4, <3>5, <3>6, <3>7 DEF Still, Moves
    <3> QED BY <2>0, <3>8, <1>i, NobodySpeaks DEF Idling
  <2> QED BY <1>5, <2>1, <2>2 DEF ContextStep
<1>6. CASE PostContextPoisoned
  BY <1>0, <1>i, <1>6 DEF PostContextPoisoned, runnerVars
<1>7. ASSUME NEW r \in Rebuilds, PostRebuild(r) \/ RebuildTask(r) \/ RebuildTaskFails(r)
      PROVE  TextInv'
  <2>1. CASE PostRebuild(r) \/ RebuildTaskFails(r)
    BY <1>0, <1>i, <2>1 DEF PostRebuild, RebuildTaskFails, runnerVars
  <2>2. CASE RebuildTask(r)
    <3> DEFINE k == rebuild[r].cell
    <3>1. /\ UNCHANGED <<kind, job, chan, out>> /\ engines' = engines
          /\ cells' = cells \/ cells' = [cells EXCEPT ![k].engine = 0]
      BY <2>2 DEF RebuildTask
    <3> HIDE DEF k
    <3>2. CASE cells' = cells
      BY <3>1, <3>2, <1>0, <1>i
    <3>3. CASE cells' = [cells EXCEPT ![k].engine = 0]
      <4>1. 0 \in Nat
        OBVIOUS
      <4>2. Reengined(cells, cells', k, 0)
        BY <4>1, <3>3, <1>j, CellEngine
      <4>3. Len(cells') = Len(cells)
            /\ \A i \in 1..Len(cells) : cells'[i].engine = cells[i].engine \/ cells'[i].engine = 0
        BY <4>2 DEF Reengined
      <4>4. Idling
        BY <4>3, <3>1, RelockIdles
      <4> QED BY <4>4, <3>1, <1>0
    <3> QED BY <3>1, <3>2, <3>3
  <2> QED BY <1>7, <2>1, <2>2
<1>8. ASSUME NEW b \in Batches,
             PostExecute(b) \/ RunnerStep(b) \/ (ReaderDrops(b) /\ UNCHANGED workerVars)
      PROVE  TextInv'
  <2>1. CASE PostExecute(b)
    <3>1. /\ job[b].st = "idle" /\ job' = [job EXCEPT ![b].st = "posted"]
          /\ kind' = kind /\ chan' = chan /\ out' = out /\ engines' = engines /\ cells' = cells
      BY <2>1 DEF PostExecute
    <3>2. \A c \in Batches : Still(c) \/ Moves(c)
      BY <3>1, <1>j, StatusMovesOn
    <3> QED BY <3>1, <3>2, <1>i, NobodySpeaks DEF Idling
  <2>2. CASE TaskStep(b) \/ ProducerStep(b) \/ ReaderDrops(b)
    BY <2>2, RunnerSpeaks
  <2> QED BY <1>8, <2>1, <2>2 DEF RunnerStep
<1>9. CASE UNCHANGED vars
  BY <1>0, <1>i, <1>9 DEF vars, runnerVars
<1> QED BY <1>1, <1>2, <1>3, <1>4, <1>5, <1>6, <1>7, <1>8, <1>9 DEF WorkerNext, WorkerStep

(* At first nothing is said.                                               *)
LEMMA NothingSaid ==
    ASSUME WorkerInit
    PROVE  TextInv
<1>1. /\ job = [b \in Batches |-> NoJob] /\ chan = [b \in Batches |-> <<>>]
      /\ out = [b \in Batches |-> NoOut] /\ cells = <<>> /\ engines = <<>>
  BY DEF WorkerInit, RunnerInit
<1>2. /\ NoJob.st = "idle" /\ NoJob.prod = "none" /\ NoJob.fin = None /\ NoJob.rx = TRUE
      /\ NoJob.ids = <<>> /\ NoJob.sent = <<>>
  BY DEF NoJob
<1>3. Written(NoOut) /\ Quiet(NoOut)
  BY DEF Written, NoOut, Quiet
<1>4. Queued(<<>>)
  <2>1. <<>> \in Seq({})
    OBVIOUS
  <2> QED BY <2>1 DEF Queued
<1>5. Outs /\ Chans
  BY <1>1, <1>3, <1>4 DEF Outs, Chans
<1>6. Len(<<>>) = 0 /\ 1..0 = {}
  BY EmptySeq
<1>7. Launched
  BY <1>1, <1>6 DEF Launched
<1>8. ASSUME NEW b \in Batches PROVE Speaks(b)
  <2>1. ~Wanted(b) /\ Owned(b)
    BY <1>1, <1>6 DEF Wanted, Owned
  <2>2. Placed(b)
    BY <1>1, <1>2 DEF Placed
  <2>3. Untouched(NoJob, <<>>, NoOut)
    BY <1>2, <1>3 DEF Untouched
  <2>4. Lags(kind, <<>>, <<>>)
    BY DecodeEmpty
  <2>5. job[b] = NoJob /\ chan[b] = <<>> /\ out[b] = NoOut
    BY <1>1
  <2>6. Spoken(kind, NoJob, <<>>, NoOut, Wanted(b))
    BY <2>1, <2>3, <2>4, <1>2 DEF Spoken
  <2> QED BY <2>1, <2>2, <2>5, <2>6 DEF Speaks
<1> QED BY <1>5, <1>7, <1>8 DEF TextInv

(* The text's invariant, as it stands in every reachable state.            *)
LEMMA TextInvariance == WorkerSpec => []TextInv
<1>1. WorkerInit => TextInv
  BY NothingSaid
<1>2. WorkerInv /\ TextInv /\ [WorkerNext]_vars => TextInv'
  BY WorkerSpeaks
<1> QED BY <1>1, <1>2, WorkerInvariance, PTL DEF WorkerSpec

(***************************************************************************)
(* worker.rs and the in-process runners: the text a consumer was handed is *)
(* at any time the beginning of what the model generated for its batch -   *)
(* nothing lost, repeated, reordered or half decoded - and it is all of it *)
(* once a finish was handed over.  It holds for vLLM too, whose pollers    *)
(* take each other's outputs, and for the ONNX decoder, which withholds a  *)
(* broken character until it is whole or the generation ends.              *)
(***************************************************************************)
THEOREM TextExact == WorkerSpec => []TextIsExact
<1>1. TextInv => TextIsExact
  BY SpokenExact DEF TextInv, Speaks, TextIsExact
<1> QED BY <1>1, TextInvariance, PTL

-----------------------------------------------------------------------------
(***************************************************************************)
(* The lock of a runner.  A batch whose task is inside execute has the     *)
(* lock of its runner, and whoever has a lock is inside: two batches are   *)
(* never in one runner together, a rebuild never comes in between, and no  *)
(* way out - a failed launch, a rejected batch, a panic on a poisoned      *)
(* context, a child that was replaced meanwhile - keeps a lock.            *)
(***************************************************************************)
LocksExact ==
    \A i \in 1..Len(cells) : \A b \in Batches :
        cells[i].lock = b <=> job[b].st = "locked" /\ job[b].cell = i

(* The locks are those of before, and new runners are free.                *)
SameLocks ==
    /\ Len(cells) \in Nat /\ Len(cells') \in Nat /\ Len(cells) <= Len(cells')
    /\ \A i \in 1..Len(cells) : cells'[i].lock = cells[i].lock
    /\ \A i \in 1..Len(cells') : i > Len(cells) => cells'[i].lock = Free

(* Nobody goes in or out.                                                  *)
Stays(c) ==
    /\ job'[c].st = "locked" <=> job[c].st = "locked"
    /\ job[c].st = "locked" => job'[c].cell = job[c].cell

(* A batch inside has a runner.                                            *)
LEMMA HasRunner ==
    ASSUME WorkerInv, NEW b \in Batches, job[b].st \in {"waiting", "locked"}
    PROVE  job[b].cell \in 1..Len(cells) /\ Len(cells) \in Nat
<1>1. /\ job[b].cell \in Nat /\ job[b].cell # 0 /\ job[b].cell <= Len(cells)
      /\ cells \in Seq(Cell)
  BY DEF WorkerInv, Shapes, Floors, BatchFloor, Active
<1> QED BY <1>1

(* Then the locks stay exact.                                              *)
LEMMA LocksKept ==
    ASSUME WorkerInv, LocksExact, SameLocks, \A c \in Batches : Stays(c)
    PROVE  LocksExact'
<1> SUFFICES ASSUME NEW i \in 1..Len(cells'), NEW b \in Batches
             PROVE  cells'[i].lock = b <=> job'[b].st = "locked" /\ job'[b].cell = i
  BY DEF LocksExact
<1>1. b # Free
  BY BatchesAssumption DEF Free
<1>2. Stays(b)
  OBVIOUS
<1>3. CASE i \in 1..Len(cells)
  BY <1>2, <1>3 DEF LocksExact, SameLocks, Stays
<1>4. CASE i \notin 1..Len(cells)
  <2>1. i > Len(cells)
    BY <1>4 DEF SameLocks
  <2>2. cells'[i].lock # b
    BY <1>1, <2>1 DEF SameLocks
  <2>3. job[b].st = "locked" => job[b].cell \in 1..Len(cells)
    BY HasRunner
  <2> QED BY <2>2, <2>3, <1>2, <1>4 DEF Stays
<1> QED BY <1>3, <1>4

(* A runner's lock changes, and no other one.                              *)
LEMMA LockIs ==
    ASSUME NEW cs \in Seq(Cell), NEW k \in 1..Len(cs), NEW l, NEW ds, ds = [cs EXCEPT ![k].lock = l]
    PROVE  /\ Len(ds) = Len(cs) /\ ds[k].lock = l
           /\ \A i \in 1..Len(cs) : i # k => ds[i].lock = cs[i].lock
<1>1. cs \in [1..Len(cs) -> Cell] /\ Len(cs) \in Nat
  OBVIOUS
<1>2. cs[k] \in Cell
  OBVIOUS
<1>3. ds[k].lock = l /\ \A i \in 1..Len(cs) : i # k => ds[i].lock = cs[i].lock
  BY <1>1, <1>2 DEF Cell
<1>4. ds \in [1..Len(cs) -> {ds[i] : i \in 1..Len(cs)}]
  BY <1>1
<1>5. Len(ds) = Len(cs)
  BY <1>1, <1>4, FromFunction
<1> QED BY <1>3, <1>5

(* A runner's engine changes, and no lock.                                 *)
LEMMA EngineKeepsLocks ==
    ASSUME NEW cs \in Seq(Cell), NEW k, NEW e, NEW ds, ds = [cs EXCEPT ![k].engine = e]
    PROVE  Len(ds) = Len(cs) /\ Len(cs) \in Nat /\ \A i \in 1..Len(cs) : ds[i].lock = cs[i].lock
<1>1. cs \in [1..Len(cs) -> Cell] /\ Len(cs) \in Nat
  OBVIOUS
<1>3. \A i \in 1..Len(cs) : ds[i].lock = cs[i].lock
  BY <1>1 DEF Cell
<1>4. ds \in [1..Len(cs) -> {ds[i] : i \in 1..Len(cs)}]
  BY <1>1
<1>5. Len(ds) = Len(cs)
  BY <1>1, <1>4, FromFunction
<1> QED BY <1>1, <1>3, <1>5

(* One batch gets in.                                                      *)
LEMMA AcquireLocks ==
    ASSUME WorkerInv, LocksExact, NEW b \in Batches, AcquireRunner(b)
    PROVE  LocksExact'
<1> DEFINE k == job[b].cell
<1>1. /\ job[b].st = "waiting" /\ cells[k].lock = Free /\ cells' = [cells EXCEPT ![k].lock = b]
      /\ job' = [job EXCEPT ![b].st = "locked"]
  BY DEF AcquireRunner
<1>2. k \in 1..Len(cells) /\ cells \in Seq(Cell) /\ Jobs
  BY <1>1, HasRunner DEF WorkerInv, Shapes
<1>3. /\ job'[b].st = "locked" /\ job'[b].cell = k /\ \A c \in Batches \ {b} : job'[c] = job[c]
  BY <1>1, <1>2, StatusMoves
<1> HIDE DEF k
<1>4. /\ Len(cells') = Len(cells) /\ cells'[k].lock = b
      /\ \A i \in 1..Len(cells) : i # k => cells'[i].lock = cells[i].lock
  BY <1>1, <1>2, LockIs
<1> SUFFICES ASSUME NEW i \in 1..Len(cells), NEW c \in Batches
             PROVE  cells'[i].lock = c <=> job'[c].st = "locked" /\ job'[c].cell = i
  BY <1>4 DEF LocksExact
<1>5. cells[i].lock = c <=> job[c].st = "locked" /\ job[c].cell = i
  BY DEF LocksExact
<1>6. c # Free
  BY BatchesAssumption DEF Free
<1>7. CASE c = b
  BY <1>1, <1>3, <1>4, <1>5, <1>7
<1>8. CASE c # b
  <2>1. job'[c] = job[c]
    BY <1>3, <1>8
  <2> QED BY <2>1, <1>1, <1>4, <1>5, <1>6, <1>8
<1> QED BY <1>7, <1>8

(* It gets out.                                                            *)
LEMMA ReleaseLocks ==
    ASSUME WorkerInv, LocksExact, NEW b \in Batches, Holds(b), JobsTrack,
           cells' = [cells EXCEPT ![job[b].cell].lock = Free], job'[b].st # "locked",
           \A c \in Batches \ {b} : job'[c] = job[c]
    PROVE  LocksExact'
<1> DEFINE k == job[b].cell
<1>1. job[b].st = "locked"
  BY DEF Holds
<1>2. k \in 1..Len(cells) /\ cells \in Seq(Cell)
  BY <1>1, HasRunner DEF WorkerInv, Shapes
<1> HIDE DEF k
<1>4. /\ Len(cells') = Len(cells) /\ cells'[k].lock = Free
      /\ \A i \in 1..Len(cells) : i # k => cells'[i].lock = cells[i].lock
  BY <1>2, LockIs DEF k
<1> SUFFICES ASSUME NEW i \in 1..Len(cells), NEW c \in Batches
             PROVE  cells'[i].lock = c <=> job'[c].st = "locked" /\ job'[c].cell = i
  BY <1>4 DEF LocksExact
<1>5. /\ cells[i].lock = c <=> job[c].st = "locked" /\ job[c].cell = i
      /\ cells[k].lock = c <=> job[c].st = "locked" /\ job[c].cell = k
      /\ cells[k].lock = b
  BY <1>1, <1>2 DEF LocksExact, k
<1>6. c # Free
  BY BatchesAssumption DEF Free
<1>7. CASE c = b
  <2>1. cells[i].lock = b => i = k
    BY <1>5, <1>7, <1>1 DEF k
  <2> QED BY <2>1, <1>4, <1>6, <1>7
<1>8. CASE c # b
  <2>1. job'[c] = job[c]
    BY <1>8
  <2> QED BY <2>1, <1>4, <1>5, <1>6, <1>8
<1> QED BY <1>7, <1>8

(* Runners as they were.                                                   *)
LEMMA SameCells ==
    ASSUME WorkerInv, cells' = cells
    PROVE  SameLocks
<1>1. Len(cells) \in Nat
  BY DEF WorkerInv, Shapes
<1> QED BY <1>1 DEF SameLocks

(* One more runner.                                                        *)
LEMMA NewCell ==
    ASSUME WorkerInv, SpawnChild
    PROVE  SameLocks
<1> DEFINE new == [lock |-> Free, engine |-> 0]
<1>1. cells \in Seq(Cell) /\ cells' = Append(cells, new) /\ new.lock = Free
  BY DEF WorkerInv, Shapes, SpawnChild
<1> HIDE DEF new
<1>2. /\ Len(cells) \in Nat /\ Len(cells') = Len(cells) + 1 /\ cells'[Len(cells) + 1] = new
      /\ \A i \in 1..Len(cells) : cells'[i] = cells[i]
  BY <1>1, AppendProperties
<1>3. \A i \in 1..Len(cells') : i > Len(cells) => i = Len(cells) + 1
  BY <1>2
<1> QED BY <1>1, <1>2, <1>3 DEF SameLocks

(* Status and runner are written to one batch that is not inside.          *)
LEMMA OutsideStays ==
    ASSUME NEW b \in Batches, \A c \in Batches \ {b} : job'[c] = job[c],
           job[b].st # "locked", job'[b].st # "locked"
    PROVE  \A c \in Batches : Stays(c)
BY DEF Stays

(* A failed execute, whatever failed.                                      *)
LEMMA FailLocks ==
    ASSUME WorkerInv, LocksExact, NEW b \in Batches, Holds(b), NEW k, Fail(b, k)
    PROVE  LocksExact'
<1>1. JobsTrack /\ Jobs
  BY FailTracks DEF WorkerInv, Shapes
<1>2. /\ job' = [job EXCEPT ![b].st = "closed", ![b].eng = cells[job[b].cell].engine, ![b].rx = FALSE]
      /\ cells' = [cells EXCEPT ![job[b].cell].lock = Free]
  BY DEF Fail
<1>3. \A c \in Batches \ {b} : job'[c] = job[c]
  BY <1>1, <1>2 DEF Jobs
<1>4. job'[b].st = "closed"
  BY <1>1, <1>2 DEF Jobs, Shaped, Fields
<1> QED BY <1>1, <1>2, <1>3, <1>4, ReleaseLocks

(* A batch that has its stream.                                            *)
LEMMA SubmitLocks ==
    ASSUME WorkerInv, LocksExact, NEW b \in Batches, Submit(b)
    PROVE  LocksExact'
<1> DEFINE e == cells[job[b].cell].engine
           prod == IF kind = "ort" THEN "session" ELSE "run"
<1>1. JobsTrack /\ Jobs
  BY SubmitTracks DEF WorkerInv, Shapes
<1>2. /\ job' = [job EXCEPT ![b].st = "stream", ![b].eng = e, ![b].prod = prod]
      /\ cells' = [cells EXCEPT ![job[b].cell].lock = Free] /\ Holds(b)
  BY DEF Submit
<1> HIDE DEF e, prod
<1>3. \A c \in Batches \ {b} : job'[c] = job[c]
  BY <1>1, <1>2 DEF Jobs
<1>4. job'[b].st = "stream"
  BY <1>1, <1>2 DEF Jobs, Shaped, Fields
<1> QED BY <1>1, <1>2, <1>3, <1>4, ReleaseLocks

(* An engine is launched inside.                                           *)
LEMMA LaunchLocks ==
    ASSUME WorkerInv, LocksExact, NEW b \in Batches, Launch(b)
    PROVE  LocksExact'
<1>1. cells \in Seq(Cell) /\ cells' = [cells EXCEPT ![job[b].cell].engine = Len(engines')]
      /\ job' = job
  BY DEF WorkerInv, Shapes, Launch
<1>2. /\ Len(cells') = Len(cells) /\ Len(cells) \in Nat
      /\ \A i \in 1..Len(cells) : cells'[i].lock = cells[i].lock
  BY <1>1, EngineKeepsLocks
<1>3. SameLocks
  BY <1>2 DEF SameLocks
<1>4. \A c \in Batches : Stays(c)
  BY <1>1 DEF Stays
<1> QED BY <1>3, <1>4, LocksKept

(* The drain and the consumer that leaves.                                 *)
LEMMA DrainLocks ==
    ASSUME WorkerInv, LocksExact, NEW b \in Batches, Drain(b) \/ DrainEnds(b) \/ ReaderDrops(b)
    PROVE  LocksExact'
<1>1. cells' = cells /\ Jobs
  BY DEF Drain, DrainEnds, ReaderDrops, WorkerInv, Shapes
<1>2. SameLocks
  BY <1>1, SameCells
<1>3. CASE Drain(b) /\ job[b].reader
  <2>1. job' = job
    BY <1>3 DEF Drain
  <2>2. \A c \in Batches : Stays(c)
    BY <2>1 DEF Stays
  <2> QED BY <2>2, <1>2, LocksKept
<1>4. CASE Drain(b) /\ ~job[b].reader
  <2>1. PICK prod : /\ job[b].st = "stream"
                    /\ job' = [job EXCEPT ![b].st = "closed", ![b].rx = FALSE, ![b].prod = prod]
    <3> DEFINE prod == IF ~Unblocked(b) /\ job[b].prod \in {"run", "flush"} THEN "abort" ELSE job[b].prod
    <3>1. job[b].st = "stream" /\ job' = [job EXCEPT ![b].st = "closed", ![b].rx = FALSE,
                              ![b].prod = IF ~Unblocked(b) /\ @ \in {"run", "flush"}
                                          THEN "abort" ELSE @]
      BY <1>4 DEF Drain
    <3>2. [job EXCEPT ![b].st = "closed", ![b].rx = FALSE][b].prod = job[b].prod
      BY <1>1 DEF Jobs, Shaped, Fields
    <3>3. job' = [job EXCEPT ![b].st = "closed", ![b].rx = FALSE, ![b].prod = prod]
      BY <3>1, <3>2
    <3> QED BY <3>1, <3>3
  <2>2. \A c \in Batches \ {b} : job'[c] = job[c]
    BY <2>1, <1>1 DEF Jobs
  <2>3. job'[b].st = "closed"
    BY <2>1, <1>1 DEF Jobs, Shaped, Fields
  <2>4. \A c \in Batches : Stays(c)
    BY <2>1, <2>2, <2>3, OutsideStays
  <2> QED BY <2>4, <1>2, LocksKept
<1>5. CASE DrainEnds(b)
  <2>1. PICK left : /\ job[b].st = "stream"
                    /\ job' = [job EXCEPT ![b].st = "closed", ![b].rx = FALSE,
                                          ![b].ids = IF left THEN <<>> ELSE @,
                                          ![b].sent = IF left THEN <<>> ELSE @,
                                          ![b].eng = IF left THEN 0 ELSE @,
                                          ![b].fin = IF left THEN None ELSE @]
    BY <1>5, Zenon DEF DrainEnds
  <2>2. \A c \in Batches \ {b} : job'[c] = job[c]
    BY <2>1, <1>1 DEF Jobs
  <2>r. PICK ids, sent, eng, fin :
           job'[b] = [job[b] EXCEPT !.st = "closed", !.rx = FALSE, !.ids = ids, !.sent = sent,
                                    !.eng = eng, !.fin = fin]
    BY <1>1, <2>1 DEF Jobs
  <2>s. Shaped(job[b])
    BY <1>1 DEF Jobs
  <2>3. job'[b].st = "closed"
    BY <2>r, <2>s DEF Shaped, Fields
  <2>4. \A c \in Batches : Stays(c)
    BY <2>1, <2>2, <2>3, OutsideStays
  <2> QED BY <2>4, <1>2, LocksKept
<1>6. CASE ReaderDrops(b)
  <2>1. job' = [job EXCEPT ![b].reader = FALSE]
    BY <1>6 DEF ReaderDrops
  <2>2. \A c \in Batches : job'[c].st = job[c].st /\ job'[c].cell = job[c].cell
    BY <2>1, <1>1 DEF Jobs, Shaped, Fields
  <2>3. \A c \in Batches : Stays(c)
    BY <2>2 DEF Stays
  <2> QED BY <2>3, <1>2, LocksKept
<1> QED BY <1>3, <1>4, <1>5, <1>6

(* The producers are outside.                                              *)
LEMMA ProducerLocks ==
    ASSUME WorkerInv, LocksExact, NEW b \in Batches, ProducerStep(b)
    PROVE  LocksExact'
<1>1. cells' = cells
  BY DEF ProducerStep, VllmStep, VllmCheck, VllmStepFails, OrtStart, OrtToken, OrtRunFails,
      OrtFlush,
     OrtRelease, MistralResponse, MockChunk, ProducerAborts, ProducerPanics
<1>2. JobsStand
  BY ProducerStands DEF WorkerInv
<1>3. \A c \in Batches : Stays(c)
  BY <1>2 DEF JobsStand, Stands, Stays
<1> QED BY <1>1, <1>3, SameCells, LocksKept

(* The two actors and those who write to them.                             *)
LEMMA ActorLocks ==
    ASSUME WorkerInv, LocksExact, WorkerStep \/ ContextStep
    PROVE  LocksExact'
<1>t. /\ Jobs /\ inbox \in Seq(Message) /\ ctxbox \in Seq(Message)
      /\ Holding(inbox, job, "posted") /\ Holding(ctxbox, job, "mail")
  BY DEF WorkerInv, Shapes, Mail
<1>h. ASSUME NEW box \in Seq(Message), NEW status, Holding(box, job, status), NEW i \in 1..Len(box),
             box[i].tag = "Execute"
      PROVE  box[i].batch \in Batches /\ job[box[i].batch].st = status
  <2>1. box[i] \in Message
    OBVIOUS
  <2> QED BY <2>1, <1>h, MessageBatch DEF Holding
<1>f. ASSUME NEW box \in Seq(Message), NEW status, Holding(box, job, status), box # <<>>,
             Head(box).tag = "Execute"
      PROVE  Head(box).batch \in Batches /\ job[Head(box).batch].st = status
  <2>1. Head(box) = box[1] /\ 1 \in 1..Len(box)
    BY <1>f
  <2> QED BY <2>1, <1>h, <1>f
<1>1. CASE WorkerStep /\ PreStart
  <2>1. job' = job /\ SameLocks
    BY <1>1, NewCell DEF PreStart
  <2> QED BY <2>1, LocksKept DEF Stays
<1>2. CASE WorkerStep /\ HandleExecute
  <2> DEFINE b == Head(inbox).batch
  <2>1. b \in Batches /\ job[b].st = "posted"
    BY <1>2, <1>t, <1>f DEF WorkerStep, HandleExecute
  <2>2. cells' = cells
    BY <1>2 DEF HandleExecute
  <2>3. PICK status \in {"mail", "closed"} : job' = [job EXCEPT ![b].st = status]
    BY <1>2 DEF HandleExecute
  <2> HIDE DEF b
  <2>4. \A c \in Batches \ {b} : job'[c] = job[c]
    BY <2>1, <2>3, <1>t, StatusMoves
  <2>5. job'[b].st = status
    BY <2>1, <2>3, <1>t, StatusMoves
  <2>6. \A c \in Batches : Stays(c)
    BY <2>1, <2>4, <2>5, OutsideStays
  <2> QED BY <2>2, <2>6, SameCells, LocksKept
<1>3. CASE WorkerStep /\ HandlePoisoned
  <2>1. /\ job' = [b \in Batches |-> IF b \in MailedBatches(ctxbox)
                                     THEN [job[b] EXCEPT !.st = "closed"] ELSE job[b]]
        /\ SameLocks
    BY <1>3, NewCell DEF HandlePoisoned
  <2>2. ASSUME NEW c \in Batches PROVE Stays(c)
    <3>1. CASE c \in MailedBatches(ctxbox)
      <4>1. PICK i \in 1..Len(ctxbox) : ctxbox[i].tag = "Execute" /\ c = ctxbox[i].batch
        BY <3>1 DEF MailedBatches, Mailed
      <4>2. job[c].st = "mail"
        BY <4>1, <1>t, <1>h
      <4>3. job'[c].st = "closed"
        BY <2>1, <3>1, <1>t DEF Jobs, Shaped, Fields
      <4> QED BY <4>2, <4>3 DEF Stays
    <3>2. CASE c \notin MailedBatches(ctxbox)
      BY <2>1, <3>2 DEF Stays
    <3> QED BY <3>1, <3>2
  <2> QED BY <2>1, <2>2, LocksKept
<1>4. CASE WorkerStep /\ HandleRebuild
  <2>1. job' = job /\ cells' = cells
    BY <1>4 DEF HandleRebuild, runnerVars
  <2> QED BY <2>1, SameCells, LocksKept DEF Stays
<1>5. CASE ContextStep /\ ContextExecute
  <2> DEFINE b == Head(ctxbox).batch
  <2>1. b \in Batches /\ job[b].st = "mail"
    BY <1>5, <1>t, <1>f DEF ContextStep, ContextExecute
  <2>2. cells' = cells
    BY <1>5 DEF ContextStep
  <2>3. job' = [job EXCEPT ![b].st = "waiting", ![b].cell = Len(cells)]
    BY <1>5 DEF ContextExecute
  <2> HIDE DEF b
  <2>4. \A c \in Batches \ {b} : job'[c] = job[c]
    BY <2>1, <2>3, <1>t DEF Jobs
  <2>5. job'[b].st = "waiting"
    BY <2>1, <2>3, <1>t DEF Jobs, Shaped, Fields
  <2>6. \A c \in Batches : Stays(c)
    BY <2>1, <2>4, <2>5, OutsideStays
  <2> QED BY <2>2, <2>6, SameCells, LocksKept
<1>6. CASE ContextStep /\ ContextRebuild
  <2>1. job' = job /\ cells' = cells
    BY <1>6 DEF ContextStep, ContextRebuild
  <2> QED BY <2>1, SameCells, LocksKept DEF Stays
<1> QED BY <1>1, <1>2, <1>3, <1>4, <1>5, <1>6 DEF WorkerStep, ContextStep

(* Every step of the worker.                                               *)
LEMMA WorkerLocks ==
    ASSUME WorkerInv, LocksExact, [WorkerNext]_vars
    PROVE  LocksExact'
<1>0. ASSUME job' = job, cells' = cells PROVE LocksExact'
  <2>1. SameLocks
    BY <1>0, SameCells
  <2>2. \A c \in Batches : Stays(c)
    BY <1>0 DEF Stays
  <2> QED BY <2>1, <2>2, LocksKept
<1>1. CASE WorkerStep \/ ContextStep
  BY <1>1, ActorLocks
<1>2. CASE PostContextPoisoned \/ UNCHANGED vars
  BY <1>0, <1>2 DEF PostContextPoisoned, vars, runnerVars
<1>3. ASSUME NEW r \in Rebuilds, PostRebuild(r) \/ RebuildTask(r) \/ RebuildTaskFails(r)
      PROVE  LocksExact'
  <2>1. CASE RebuildTask(r) /\ cells' # cells
    <3>1. cells \in Seq(Cell) /\ cells' = [cells EXCEPT ![rebuild[r].cell].engine = 0] /\ job' = job
      BY <2>1 DEF WorkerInv, Shapes, RebuildTask
    <3>2. /\ Len(cells') = Len(cells) /\ Len(cells) \in Nat
          /\ \A i \in 1..Len(cells) : cells'[i].lock = cells[i].lock
      BY <3>1, EngineKeepsLocks
    <3>3. SameLocks
      BY <3>2 DEF SameLocks
    <3>4. \A c \in Batches : Stays(c)
      BY <3>1 DEF Stays
    <3> QED BY <3>3, <3>4, LocksKept
  <2>2. CASE RebuildTask(r) /\ cells' = cells
    BY <1>0, <2>2 DEF RebuildTask
  <2>3. CASE PostRebuild(r) \/ RebuildTaskFails(r)
    BY <1>0, <2>3 DEF PostRebuild, RebuildTaskFails, runnerVars
  <2> QED BY <1>3, <2>1, <2>2, <2>3
<1>4. ASSUME NEW b \in Batches,
             PostExecute(b) \/ RunnerStep(b) \/ (ReaderDrops(b) /\ UNCHANGED workerVars)
      PROVE  LocksExact'
  <2>1. CASE PostExecute(b)
    <3>1. Jobs /\ job[b].st = "idle" /\ cells' = cells /\ job' = [job EXCEPT ![b].st = "posted"]
      BY <2>1 DEF PostExecute, WorkerInv, Shapes
    <3>2. job'[b].st = "posted" /\ \A c \in Batches \ {b} : job'[c] = job[c]
      BY <3>1, StatusMoves
    <3>3. \A c \in Batches : Stays(c)
      BY <3>1, <3>2, OutsideStays
    <3> QED BY <3>1, <3>3, SameCells, LocksKept
  <2>2. CASE LaunchFails(b) \/ SubmitFails(b)
    <3>1. Holds(b) /\ \E k : Fail(b, k)
      BY <2>2, Zenon DEF LaunchFails, SubmitFails
    <3> QED BY <3>1, FailLocks
  <2> QED BY <1>4, <2>1, <2>2, AcquireLocks, LaunchLocks, SubmitLocks, DrainLocks, ProducerLocks
      DEF RunnerStep, TaskStep
<1> QED BY <1>1, <1>2, <1>3, <1>4 DEF WorkerNext

(***************************************************************************)
(* A runner's lock is held by the batch whose task is inside execute, and  *)
(* by nobody else, for any number of batches, runners and rebuilds: one    *)
(* batch at a time, and no exit of the task leaves the lock behind         *)
(* (worker.rs, the tasks of ContextActor).                                 *)
(***************************************************************************)
THEOREM LocksHeld == WorkerSpec => []LocksExact
<1>1. WorkerInit => LocksExact
  BY DEF WorkerInit, RunnerInit, LocksExact
<1>2. WorkerInv /\ LocksExact /\ [WorkerNext]_vars => LocksExact'
  BY WorkerLocks
<1> QED BY <1>1, <1>2, WorkerInvariance, PTL DEF WorkerSpec

-----------------------------------------------------------------------------
(***************************************************************************)
(* The lock of an ONNX session.  The blocking task of a batch has it from  *)
(* its start to its release, whichever way the generation ends.            *)
(***************************************************************************)
InSession(b) == job[b].prod \in {"run", "flush", "release", "abort"}

SessionsExact ==
    kind = "ort" => \A e \in 1..Len(engines) : \A b \in Batches :
                        engines[e].session = b <=> InSession(b) /\ job[b].eng = e

(* The sessions are those of before, and new engines are free.             *)
SameSessions ==
    /\ Len(engines) \in Nat /\ Len(engines') \in Nat /\ Len(engines) <= Len(engines')
    /\ \A e \in 1..Len(engines) : engines'[e].session = engines[e].session
    /\ \A e \in 1..Len(engines') : e > Len(engines) => engines'[e].session = Free

(* Nobody starts or releases.                                              *)
Remains(c) ==
    /\ InSession(c)' <=> InSession(c)
    /\ InSession(c) => job'[c].eng = job[c].eng

(* Then the sessions stay exact.                                           *)
LEMMA SessionsKept ==
    ASSUME TextInv, SessionsExact, kind' = kind, SameSessions, \A c \in Batches : Remains(c)
    PROVE  SessionsExact'
<1> SUFFICES ASSUME kind = "ort", NEW e \in 1..Len(engines'), NEW b \in Batches
             PROVE  engines'[e].session = b <=> InSession(b)' /\ job'[b].eng = e
  BY DEF SessionsExact
<1>1. b # Free
  BY BatchesAssumption DEF Free
<1>2. Remains(b)
  OBVIOUS
<1>3. CASE e \in 1..Len(engines)
  BY <1>2, <1>3 DEF SessionsExact, SameSessions, Remains
<1>4. CASE e \notin 1..Len(engines)
  <2>1. e > Len(engines)
    BY <1>4 DEF SameSessions
  <2>2. engines'[e].session # b
    BY <1>1, <2>1 DEF SameSessions
  <2>3. InSession(b) => job[b].eng \in 1..Len(engines)
    BY DEF TextInv, Speaks, Placed, InSession
  <2> QED BY <2>2, <2>3, <1>2, <1>4 DEF Remains
<1> QED BY <1>3, <1>4

(* Engines as they were.                                                   *)
LEMMA SameEngines ==
    ASSUME WorkerInv, engines' = engines
    PROVE  SameSessions
<1>1. Len(engines) \in Nat
  BY DEF WorkerInv, Shapes
<1> QED BY <1>1 DEF SameSessions

(* One record is written and keeps what matters here.                      *)
LEMMA OneRemains ==
    ASSUME NEW b \in Batches, \A c \in Batches \ {b} : job'[c] = job[c],
           InSession(b)' <=> InSession(b), InSession(b) => job'[b].eng = job[b].eng
    PROVE  \A c \in Batches : Remains(c)
<1>1. ASSUME NEW c \in Batches \ {b} PROVE Remains(c)
  <2>1. job'[c] = job[c]
    OBVIOUS
  <2> QED BY <2>1 DEF Remains, InSession
<1> QED BY <1>1 DEF Remains

(* An engine's session changes hands, and no other one's.                  *)
LEMMA SessionIs ==
    ASSUME NEW es \in Seq(Engine), NEW k \in 1..Len(es), NEW l, NEW fs, fs = [es EXCEPT ![k].session = l]
    PROVE  /\ Len(fs) = Len(es) /\ fs[k].session = l
           /\ \A i \in 1..Len(es) : i # k => fs[i].session = es[i].session
<1>1. es \in [1..Len(es) -> Engine] /\ Len(es) \in Nat
  OBVIOUS
<1>2. es[k] \in Engine
  OBVIOUS
<1>3. fs[k].session = l /\ \A i \in 1..Len(es) : i # k => fs[i].session = es[i].session
  BY <1>1, <1>2 DEF Engine
<1>4. fs \in [1..Len(es) -> {fs[i] : i \in 1..Len(es)}]
  BY <1>1
<1>5. Len(fs) = Len(es)
  BY <1>1, <1>4, FromFunction
<1> QED BY <1>3, <1>5

(* The blocking task gets the session.                                     *)
LEMMA StartHolds ==
    ASSUME WorkerInv, TextInv, SessionsExact, NEW b \in Batches, OrtStart(b)
    PROVE  SessionsExact'
<1> DEFINE k == job[b].eng
<1>1. /\ kind' = kind /\ kind = "ort" /\ job[b].prod = "session" /\ engines[k].session = Free
      /\ engines' = [engines EXCEPT ![k].session = b]
  BY DEF OrtStart
<1>j. Jobs /\ engines \in Seq(Engine) /\ k \in 1..Len(engines)
  BY <1>1 DEF WorkerInv, Shapes, TextInv, Speaks, Placed
<1>2. PICK prod \in {"release", "run"} : job' = [job EXCEPT ![b].prod = prod]
  BY DEF OrtStart
<1>3. job'[b].prod = prod /\ job'[b].eng = k /\ \A c \in Batches \ {b} : job'[c] = job[c]
  BY <1>2, <1>j DEF Jobs, Shaped, Fields
<1> HIDE DEF k
<1>4. /\ Len(engines') = Len(engines) /\ engines'[k].session = b
      /\ \A i \in 1..Len(engines) : i # k => engines'[i].session = engines[i].session
  BY <1>1, <1>j, SessionIs
<1> SUFFICES ASSUME NEW e \in 1..Len(engines), NEW c \in Batches
             PROVE  engines'[e].session = c <=> InSession(c)' /\ job'[c].eng = e
  BY <1>4 DEF SessionsExact
<1>5. engines[e].session = c <=> InSession(c) /\ job[c].eng = e
  BY <1>1 DEF SessionsExact
<1>6. c # Free
  BY BatchesAssumption DEF Free
<1>7. CASE c = b
  <2>1. ~InSession(b) /\ InSession(b)'
    BY <1>1, <1>3 DEF InSession
  <2> QED BY <2>1, <1>3, <1>4, <1>5, <1>7
<1>8. CASE c # b
  <2>1. job'[c] = job[c]
    BY <1>3, <1>8
  <2>2. InSession(c)' <=> InSession(c)
    BY <2>1 DEF InSession
  <2> QED BY <2>1, <2>2, <1>1, <1>4, <1>5, <1>6, <1>8
<1> QED BY <1>7, <1>8

(* It gives the session back.                                              *)
LEMMA ReleaseHolds ==
    ASSUME WorkerInv, TextInv, SessionsExact, NEW b \in Batches, OrtRelease(b)
    PROVE  SessionsExact'
<1> DEFINE k == job[b].eng
<1>1. /\ kind' = kind /\ kind = "ort" /\ job[b].prod = "release"
      /\ engines' = [engines EXCEPT ![k].session = Free] /\ job' = [job EXCEPT ![b].prod = "done"]
  BY DEF OrtRelease, Producing
<1>j. Jobs /\ engines \in Seq(Engine) /\ k \in 1..Len(engines)
  BY <1>1 DEF WorkerInv, Shapes, TextInv, Speaks, Placed
<1>3. job'[b].prod = "done" /\ job'[b].eng = k /\ \A c \in Batches \ {b} : job'[c] = job[c]
  BY <1>1, <1>j DEF Jobs, Shaped, Fields
<1>s. InSession(b) /\ ~InSession(b)'
  BY <1>1, <1>3 DEF InSession
<1>4. /\ Len(engines') = Len(engines) /\ engines'[k].session = Free
      /\ \A i \in 1..Len(engines) : i # k => engines'[i].session = engines[i].session
  BY <1>1, <1>j, SessionIs
<1> SUFFICES ASSUME NEW e \in 1..Len(engines), NEW c \in Batches
             PROVE  engines'[e].session = c <=> InSession(c)' /\ job'[c].eng = e
  BY <1>4 DEF SessionsExact
<1>5. /\ engines[e].session = c <=> InSession(c) /\ job[c].eng = e
      /\ engines[k].session = b
  BY <1>1, <1>j, <1>s DEF SessionsExact
<1>6. c # Free
  BY BatchesAssumption DEF Free
<1>7. CASE c = b
  <2>1. engines[e].session = b => e = k
    BY <1>5, <1>7
  <2> QED BY <2>1, <1>s, <1>4, <1>6, <1>7
<1>8. CASE c # b
  <2>1. job'[c] = job[c]
    BY <1>3, <1>8
  <2>2. InSession(c)' <=> InSession(c)
    BY <2>1 DEF InSession
  <2>3. e = k => ~(InSession(c) /\ job[c].eng = e)
    BY <1>5, <1>8
  <2> QED BY <2>1, <2>2, <2>3, <1>4, <1>5, <1>6, <1>8
<1> QED BY <1>7, <1>8

(* An engine's requests change, and no session.                            *)
LEMMA ReqsKeepSessions ==
    ASSUME NEW es \in Seq(Engine), NEW k, NEW reqs, NEW fs, fs = [es EXCEPT ![k].reqs = reqs]
    PROVE  Len(fs) = Len(es) /\ Len(es) \in Nat /\ \A i \in 1..Len(es) : fs[i].session = es[i].session
<1>1. es \in [1..Len(es) -> Engine] /\ Len(es) \in Nat
  OBVIOUS
<1>3. \A i \in 1..Len(es) : fs[i].session = es[i].session
  BY <1>1 DEF Engine
<1>4. fs \in [1..Len(es) -> {fs[i] : i \in 1..Len(es)}]
  BY <1>1
<1>5. Len(fs) = Len(es)
  BY <1>1, <1>4, FromFunction
<1> QED BY <1>1, <1>3, <1>5

(* The other steps of the producers: the task stays where it is.           *)
LEMMA ProducerHolds ==
    ASSUME WorkerInv, TextInv, SessionsExact, NEW b \in Batches, ProducerStep(b)
    PROVE  SessionsExact'
<1>k. kind' = kind
  BY DEF ProducerStep, VllmStep, VllmCheck, VllmStepFails, OrtStart, OrtToken, OrtRunFails,
      OrtFlush,
     OrtRelease, MistralResponse, MockChunk, ProducerAborts, ProducerPanics
<1>j. Jobs /\ engines \in Seq(Engine) /\ JobsStand
  BY ProducerStands DEF WorkerInv, Shapes
<1>e. job'[b].eng = job[b].eng
  BY <1>j DEF JobsStand, Stands
<1>1. CASE kind # "ort"
  BY <1>k, <1>1 DEF SessionsExact
<1>2. CASE OrtStart(b) \/ OrtRelease(b)
  BY <1>2, StartHolds, ReleaseHolds
<1>3. CASE OrtToken(b)
  <2>1. PICK t \in Vocabulary :
          LET ids  == Append(job[b].ids, t)
              full == Decode(ids)
              d    == DecodeDelta(job[b].sent, full)
              stop == StopReason(ids, MaxNew)
              gone == d.delta # <<>> /\ ~job[b].rx
          IN  job' = [job EXCEPT
                  ![b].ids = ids,
                  ![b].sent = IF d.advance THEN full ELSE @,
                  ![b].fin = stop,
                  ![b].prod = IF gone THEN "release" ELSE IF stop = None THEN "run" ELSE "flush"]
    BY <1>3 DEF OrtToken
  <2> DEFINE ids  == Append(job[b].ids, t)
             full == Decode(ids)
             d    == DecodeDelta(job[b].sent, full)
             stop == StopReason(ids, MaxNew)
             gone == d.delta # <<>> /\ ~job[b].rx
             sent == IF d.advance THEN full ELSE job[b].sent
             prod == IF gone THEN "release" ELSE IF stop = None THEN "run" ELSE "flush"
  <2>2. job' = [job EXCEPT ![b].ids = ids, ![b].sent = sent, ![b].fin = stop, ![b].prod = prod]
    <3>1. [job EXCEPT ![b].ids = ids][b].sent = job[b].sent
      BY <1>j DEF Jobs, Shaped, Fields
    <3> HIDE DEF ids, full, d, stop, prod
    <3> QED BY <2>1, <3>1 DEF prod, gone, stop, d, full, ids
  <2>p. prod \in {"release", "run", "flush"}
    OBVIOUS
  <2> HIDE DEF ids, sent, stop, prod
  <2>3. Writes(b, prod, ids, sent, stop)
    BY <2>2 DEF Writes
  <2>4. job'[b].prod = prod /\ \A c \in Batches \ {b} : job'[c] = job[c]
    BY <2>3, <1>j, ProducerFields
  <2>5. job[b].prod = "run" /\ engines' = engines
    BY <1>3 DEF OrtToken, Producing
  <2>6. \A c \in Batches : Remains(c)
    BY <2>4, <2>5, <2>p, <1>e, OneRemains DEF InSession
  <2> QED BY <2>5, <2>6, <1>k, SameEngines, SessionsKept
<1>4. CASE OrtRunFails(b) \/ OrtFlush(b)
  <2>1. /\ job' = [job EXCEPT ![b].prod = "release"] /\ engines' = engines
        /\ job[b].prod \in {"run", "flush"}
    BY <1>4 DEF OrtRunFails, OrtFlush, Producing
  <2>2. job'[b].prod = "release" /\ \A c \in Batches \ {b} : job'[c] = job[c]
    BY <2>1, <1>j DEF Jobs, Shaped, Fields
  <2>3. \A c \in Batches : Remains(c)
    BY <2>1, <2>2, <1>e, OneRemains DEF InSession
  <2> QED BY <2>1, <2>3, <1>k, SameEngines, SessionsKept
<1>5. CASE ProducerAborts(b) /\ kind = "ort"
  <2>1. /\ job' = [job EXCEPT ![b].prod = "release"] /\ job[b].prod = "abort"
        /\ engines' = [engines EXCEPT ![job[b].eng].reqs = engines[job[b].eng].reqs \ {b}]
    BY <1>5 DEF ProducerAborts
  <2>2. job'[b].prod = "release" /\ \A c \in Batches \ {b} : job'[c] = job[c]
    BY <2>1, <1>j DEF Jobs, Shaped, Fields
  <2>3. \A c \in Batches : Remains(c)
    BY <2>1, <2>2, <1>e, OneRemains DEF InSession
  <2>4. /\ Len(engines') = Len(engines) /\ Len(engines) \in Nat
        /\ \A i \in 1..Len(engines) : engines'[i].session = engines[i].session
    BY <2>1, <1>j, ReqsKeepSessions
  <2>5. SameSessions
    BY <2>4 DEF SameSessions
  <2> QED BY <2>3, <2>5, <1>k, SessionsKept
<1>6. CASE \/ VllmStep(b) \/ VllmCheck(b) \/ VllmStepFails(b) \/ MistralResponse(b) \/ MockChunk(b)
  <2>1. kind \in {"vllm", "mistralrs", "mock"}
    BY <1>6 DEF VllmStep, VllmCheck, VllmStepFails, MistralResponse, MockChunk
  <2> QED BY <2>1, <1>1
<1>7. CASE ProducerPanics(b) /\ kind = "ort"
  <2>1. /\ job' = [job EXCEPT ![b].prod = "release"] /\ engines' = engines
        /\ job[b].prod = "run"
    BY <1>7 DEF ProducerPanics, Producing
  <2>2. job'[b].prod = "release" /\ \A c \in Batches \ {b} : job'[c] = job[c]
    BY <2>1, <1>j DEF Jobs, Shaped, Fields
  <2>3. \A c \in Batches : Remains(c)
    BY <2>1, <2>2, <1>e, OneRemains DEF InSession
  <2> QED BY <2>1, <2>3, <1>k, SameEngines, SessionsKept
<1> QED BY <1>1, <1>2, <1>3, <1>4, <1>5, <1>6, <1>7 DEF ProducerStep

(* A batch that has no stream yet has no blocking task.                    *)
LEMMA NoTask ==
    ASSUME TextInv, NEW b \in Batches, job[b].st \notin {"stream", "closed"}
    PROVE  job[b].prod = "none"
BY DEF TextInv, Speaks, Spoken, Untouched

(* A batch's status changes, and perhaps its runner.                       *)
LEMMA StatusRemains ==
    ASSUME Jobs, NEW b \in Batches, NEW status, NEW cell,
           \/ job' = [job EXCEPT ![b].st = status]
           \/ job' = [job EXCEPT ![b].st = status, ![b].cell = cell]
    PROVE  \A c \in Batches : Remains(c)
<1>1. \A c \in Batches \ {b} : job'[c] = job[c]
  BY DEF Jobs
<1>2. job'[b].prod = job[b].prod
  BY DEF Jobs, Shaped, Fields
<1>3. job'[b].eng = job[b].eng
  BY DEF Jobs, Shaped, Fields
<1> QED BY <1>1, <1>2, <1>3, OneRemains DEF InSession

(* The task of a batch starts its blocking task and does not hold its lock *)
(* itself.                                                                 *)
LEMMA TaskHolds ==
    ASSUME WorkerInv, TextInv, SessionsExact, NEW b \in Batches, TaskStep(b) \/ ReaderDrops(b)
    PROVE  SessionsExact'
<1>j. Jobs /\ engines \in Seq(Engine)
  BY DEF WorkerInv, Shapes
<1>1. CASE AcquireRunner(b)
  <2>1. job' = [job EXCEPT ![b].st = "locked"] /\ kind' = kind /\ engines' = engines
    BY <1>1 DEF AcquireRunner
  <2> QED BY <2>1, <1>j, StatusRemains, SameEngines, SessionsKept
<1>2. CASE Launch(b)
  <2> DEFINE new == [reqs |-> {}, session |-> Free]
  <2>1. job' = job /\ kind' = kind /\ engines' = Append(engines, new) /\ new.session = Free
    BY <1>2 DEF Launch
  <2> HIDE DEF new
  <2>2. /\ Len(engines) \in Nat /\ Len(engines') = Len(engines) + 1
        /\ engines'[Len(engines) + 1] = new
        /\ \A i \in 1..Len(engines) : engines'[i] = engines[i]
    BY <2>1, <1>j, AppendProperties
  <2>3. \A i \in 1..Len(engines') : i > Len(engines) => i = Len(engines) + 1
    BY <2>2
  <2>4. SameSessions
    BY <2>1, <2>2, <2>3 DEF SameSessions
  <2>5. \A c \in Batches : Remains(c)
    BY <2>1 DEF Remains, InSession
  <2> QED BY <2>1, <2>4, <2>5, SessionsKept
<1>3. CASE LaunchFails(b) \/ SubmitFails(b)
  <2>1. PICK k : Fail(b, k)
    BY <1>3, Zenon DEF LaunchFails, SubmitFails
  <2>2. job[b].st = "locked"
    BY <1>3 DEF LaunchFails, SubmitFails, Holds
  <2>3. /\ job' = [job EXCEPT ![b].st = "closed", ![b].eng = cells[job[b].cell].engine, ![b].rx = FALSE]
        /\ engines' = engines /\ kind' = kind
    BY <2>1 DEF Fail
  <2>4. \A c \in Batches \ {b} : job'[c] = job[c]
    BY <2>3, <1>j DEF Jobs
  <2>5. job'[b].prod = job[b].prod
    BY <2>3, <1>j DEF Jobs, Shaped, Fields
  <2>6. job[b].prod = "none"
    BY <2>2, NoTask
  <2>7. \A c \in Batches : Remains(c)
    BY <2>4, <2>5, <2>6, OneRemains DEF InSession
  <2> QED BY <2>3, <2>7, SameEngines, SessionsKept
<1>4. CASE Submit(b)
  <2> DEFINE e == cells[job[b].cell].engine
             prod == IF kind = "ort" THEN "session" ELSE "run"
  <2>1. /\ job[b].st = "locked" /\ kind' = kind
        /\ job' = [job EXCEPT ![b].st = "stream", ![b].eng = e, ![b].prod = prod]
        /\ kind = "ort" => engines' = engines
    BY <1>4 DEF Submit, Holds
  <2>2. kind = "ort" => prod = "session"
    OBVIOUS
  <2> HIDE DEF e, prod
  <2>3. CASE kind = "ort"
    <3>1. \A c \in Batches \ {b} : job'[c] = job[c]
      BY <2>1, <1>j DEF Jobs
    <3>2. job'[b].prod = "session"
      BY <2>1, <2>2, <2>3, <1>j DEF Jobs, Shaped, Fields
    <3>3. job[b].prod = "none"
      BY <2>1, NoTask
    <3>4. \A c \in Batches : Remains(c)
      BY <3>1, <3>2, <3>3, OneRemains DEF InSession
    <3> QED BY <2>1, <2>3, <3>4, SameEngines, SessionsKept
  <2> QED BY <2>1, <2>3 DEF SessionsExact
<1>5. CASE Drain(b) /\ job[b].reader
  <2>1. job' = job /\ kind' = kind /\ engines' = engines
    BY <1>5 DEF Drain
  <2>2. \A c \in Batches : Remains(c)
    BY <2>1 DEF Remains, InSession
  <2> QED BY <2>1, <2>2, SameEngines, SessionsKept
<1>6. CASE Drain(b) /\ ~job[b].reader
  <2> DEFINE prod == IF ~Unblocked(b) /\ job[b].prod \in {"run", "flush"} THEN "abort" ELSE job[b].prod
  <2>1. job' = [job EXCEPT ![b].st = "closed", ![b].rx = FALSE, ![b].prod = prod]
    <3>1. job' = [job EXCEPT ![b].st = "closed", ![b].rx = FALSE,
                              ![b].prod = IF ~Unblocked(b) /\ @ \in {"run", "flush"}
                                          THEN "abort" ELSE @]
      BY <1>6 DEF Drain
    <3>2. [job EXCEPT ![b].st = "closed", ![b].rx = FALSE][b].prod = job[b].prod
      BY <1>j DEF Jobs, Shaped, Fields
    <3> QED BY <3>1, <3>2
  <2>2. prod \in {"run", "flush", "release", "abort"} <=> InSession(b)
    BY DEF InSession
  <2>3. kind' = kind /\ engines' = engines
    BY <1>6 DEF Drain
  <2> HIDE DEF prod
  <2>4. \A c \in Batches \ {b} : job'[c] = job[c]
    BY <2>1, <1>j DEF Jobs
  <2>5. job'[b].prod = prod
    BY <2>1, <1>j DEF Jobs, Shaped, Fields
  <2>6. job'[b].eng = job[b].eng
    BY <2>1, <1>j DEF Jobs, Shaped, Fields
  <2>7. InSession(b)' <=> InSession(b)
    BY <2>2, <2>5 DEF InSession
  <2>8. \A c \in Batches : Remains(c)
    BY <2>4, <2>6, <2>7, OneRemains
  <2> QED BY <2>3, <2>8, SameEngines, SessionsKept
<1>7. CASE DrainEnds(b)
  <2>1. PICK left : job' = [job EXCEPT ![b].st = "closed", ![b].rx = FALSE,
                                       ![b].ids = IF left THEN <<>> ELSE @,
                                       ![b].sent = IF left THEN <<>> ELSE @,
                                       ![b].eng = IF left THEN 0 ELSE @,
                                       ![b].fin = IF left THEN None ELSE @]
    BY <1>7, Zenon DEF DrainEnds
  <2>2. job[b].prod = "done" /\ kind' = kind /\ engines' = engines
    BY <1>7 DEF DrainEnds
  <2>3. \A c \in Batches \ {b} : job'[c] = job[c]
    BY <2>1, <1>j DEF Jobs
  <2>r. PICK ids, sent, eng, fin :
           job'[b] = [job[b] EXCEPT !.st = "closed", !.rx = FALSE, !.ids = ids, !.sent = sent,
                                    !.eng = eng, !.fin = fin]
    BY <1>j, <2>1 DEF Jobs
  <2>s. Shaped(job[b])
    BY <1>j DEF Jobs
  <2>4. job'[b].prod = job[b].prod
    BY <2>r, <2>s DEF Shaped, Fields
  <2>5. \A c \in Batches : Remains(c)
    BY <2>2, <2>3, <2>4, OneRemains DEF InSession
  <2> QED BY <2>2, <2>5, SameEngines, SessionsKept
<1>8. CASE ReaderDrops(b)
  <2>1. job' = [job EXCEPT ![b].reader = FALSE] /\ kind' = kind /\ engines' = engines
    BY <1>8 DEF ReaderDrops
  <2>2. \A c \in Batches : job'[c].prod = job[c].prod /\ job'[c].eng = job[c].eng
    BY <2>1, <1>j DEF Jobs, Shaped, Fields
  <2>3. \A c \in Batches : Remains(c)
    BY <2>2 DEF Remains, InSession
  <2> QED BY <2>1, <2>3, SameEngines, SessionsKept
<1> QED BY <1>1, <1>2, <1>3, <1>4, <1>5, <1>6, <1>7, <1>8 DEF TaskStep

(* Every step of the worker.                                               *)
LEMMA WorkerHolds ==
    ASSUME WorkerInv, TextInv, SessionsExact, [WorkerNext]_vars
    PROVE  SessionsExact'
<1>j. /\ Jobs /\ inbox \in Seq(Message) /\ ctxbox \in Seq(Message)
  BY DEF WorkerInv, Shapes
<1>0. ASSUME job' = job, engines' = engines, kind' = kind PROVE SessionsExact'
  <2>1. \A c \in Batches : Remains(c)
    BY <1>0 DEF Remains, InSession
  <2> QED BY <1>0, <2>1, SameEngines, SessionsKept
<1>f. ASSUME NEW box \in Seq(Message), box # <<>>, Head(box).tag = "Execute"
      PROVE  Head(box).batch \in Batches
  <2>1. Head(box) \in Message
    BY <1>f
  <2> QED BY <2>1, <1>f, MessageBatch
<1>1. CASE WorkerStep /\ HandleExecute
  <2> DEFINE b == Head(inbox).batch
  <2>1. b \in Batches
    BY <1>1, <1>j, <1>f DEF WorkerStep, HandleExecute
  <2>2. kind' = kind /\ engines' = engines
    BY <1>1 DEF HandleExecute
  <2>3. PICK status \in {"mail", "closed"} : job' = [job EXCEPT ![b].st = status]
    BY <1>1 DEF HandleExecute
  <2> HIDE DEF b
  <2>4. \A c \in Batches : Remains(c)
    BY <2>1, <2>3, <1>j, StatusRemains
  <2> QED BY <2>2, <2>4, SameEngines, SessionsKept
<1>2. CASE WorkerStep /\ HandlePoisoned
  <2>1. /\ job' = [b \in Batches |-> IF b \in MailedBatches(ctxbox)
                                     THEN [job[b] EXCEPT !.st = "closed"] ELSE job[b]]
        /\ kind' = kind /\ engines' = engines
    BY <1>2 DEF HandlePoisoned
  <2>2. ASSUME NEW c \in Batches PROVE Remains(c)
    <3>1. CASE c \in MailedBatches(ctxbox)
      <4>1. job'[c].prod = job[c].prod /\ job'[c].eng = job[c].eng
        BY <2>1, <3>1, <1>j DEF Jobs, Shaped, Fields
      <4> QED BY <4>1 DEF Remains, InSession
    <3>2. CASE c \notin MailedBatches(ctxbox)
      BY <2>1, <3>2 DEF Remains, InSession
    <3> QED BY <3>1, <3>2
  <2> QED BY <2>1, <2>2, SameEngines, SessionsKept
<1>3. CASE WorkerStep /\ (PreStart \/ HandleRebuild)
  BY <1>0, <1>3 DEF PreStart, HandleRebuild, runnerVars
<1>4. CASE ContextStep /\ ContextExecute
  <2> DEFINE b == Head(ctxbox).batch
  <2>1. b \in Batches
    BY <1>4, <1>j, <1>f DEF ContextStep, ContextExecute
  <2>2. kind' = kind /\ engines' = engines
    BY <1>4 DEF ContextStep
  <2>3. job' = [job EXCEPT ![b].st = "waiting", ![b].cell = Len(cells)]
    BY <1>4 DEF ContextExecute
  <2> HIDE DEF b
  <2>4. \A c \in Batches : Remains(c)
    BY <2>1, <2>3, <1>j, StatusRemains
  <2> QED BY <2>2, <2>4, SameEngines, SessionsKept
<1>5. CASE ContextStep /\ ContextRebuild
  BY <1>0, <1>5 DEF ContextStep, ContextRebuild
<1>6. CASE PostContextPoisoned \/ UNCHANGED vars
  BY <1>0, <1>6 DEF PostContextPoisoned, vars, runnerVars
<1>7. ASSUME NEW r \in Rebuilds, PostRebuild(r) \/ RebuildTask(r) \/ RebuildTaskFails(r)
      PROVE  SessionsExact'
  BY <1>0, <1>7 DEF PostRebuild, RebuildTask, RebuildTaskFails, runnerVars
<1>8. ASSUME NEW b \in Batches,
             PostExecute(b) \/ RunnerStep(b) \/ (ReaderDrops(b) /\ UNCHANGED workerVars)
      PROVE  SessionsExact'
  <2>1. CASE PostExecute(b)
    <3>1. kind' = kind /\ engines' = engines /\ job' = [job EXCEPT ![b].st = "posted"]
      BY <2>1 DEF PostExecute
    <3> QED BY <3>1, <1>j, StatusRemains, SameEngines, SessionsKept
  <2> QED BY <1>8, <2>1, TaskHolds, ProducerHolds DEF RunnerStep
<1> QED BY <1>1, <1>2, <1>3, <1>4, <1>5, <1>6, <1>7, <1>8 DEF WorkerNext, WorkerStep, ContextStep

(***************************************************************************)
(* The lock of an ONNX session is held by the one generation that runs on  *)
(* it, from its start until its last item is through, and is given back    *)
(* whether it finishes, fails or loses its consumer in the middle of a     *)
(* send: the batches of a runner use its session one after the other.      *)
(***************************************************************************)
THEOREM SessionsHeld == WorkerSpec => []SessionsExact
<1>1. WorkerInit => SessionsExact
  BY DEF WorkerInit, RunnerInit, SessionsExact
<1>2. WorkerInv /\ TextInv /\ SessionsExact /\ [WorkerNext]_vars => SessionsExact'
  BY WorkerHolds
<1> QED BY <1>1, <1>2, WorkerInvariance, TextInvariance, PTL DEF WorkerSpec
=============================================================================
