----------------------------- MODULE PyCluster ------------------------------
(***************************************************************************)
(* The Python handle Cluster (cluster.rs and errors.rs of                  *)
(* inference-py-bindings): a registry of runners, each behind a lock of    *)
(* its own, the coroutine `execute`, and the async iterator TokenStream,   *)
(* whose state has a lock that its first `__anext__` holds while it calls  *)
(* the runner.                                                             *)
(*                                                                         *)
(* The registry is followed at one name.  A runner is known by the         *)
(* position of the deploy that made it.  asyncio may cancel a coroutine    *)
(* wherever it awaits, which drops the future and the locks it holds.      *)
(***************************************************************************)
EXTENDS Deployments, InferenceErrors

CONSTANTS
    PyCalls,    \* coroutines
    MaxScript,  \* bound: chunks of a runner
    MaxDeploys  \* bound: runners registered

ASSUME PyAssumption == MaxScript \in Nat \ {0} /\ MaxDeploys \in Nat /\ "free" \notin PyCalls

VARIABLES
    registered,   \* PyCluster::runners at the name: a runner, 0 if none
    scripts,      \* the runners made so far: how many chunks, and where they fail
    cells,        \* who holds the lock of each runner
    tokens,       \* the TokenStream: state, runner, chunks pulled, who holds its lock
    py,           \* each coroutine: where it is, its runner, the chunks it has
    heard         \* history: what the calls of __anext__ gave, in order

pyVars == <<registered, scripts, cells, tokens, py, heard>>

Free == "free"
Runners == 1..MaxDeploys

(* errors::map: one exception per variant, the base class for the rest.    *)
PyException(kind) ==
    IF kind \in {"Unsupported", "UnsupportedAudioFormat", "RealtimeClosed"}
    THEN "InferenceError" ELSE kind

(* errors::map_str.                                                        *)
BaseException == "InferenceError"

(* What a failing runner raises; which error it met makes no difference.   *)
RunnerError == PyException("ServerError")

PyInit ==
    /\ registered = 0 /\ scripts = <<>>
    /\ cells = [r \in Runners |-> Free]
    /\ tokens = [state |-> "none", runner |-> 0, pulled |-> 0, lock |-> Free]
    /\ py = [c \in PyCalls |-> [pc |-> "idle", runner |-> 0, has |-> 0, gave |-> "nothing"]]
    /\ heard = <<>>

-----------------------------------------------------------------------------
(* deploy.                                                                 *)

(* What a Python program may deploy: a mock with some chunks in its        *)
(* configuration or with one that does not parse, and other runtimes.      *)
PyDeployments ==
    [base : {Deployment("m", {"gpt"}, 1), Deployment("m", {}, 1), Deployment("m", {}, 0),
             [Deployment("m", {}, 1) EXCEPT !.runtime = "Python"],
             [Deployment("m", {}, 1) EXCEPT !.runtime_config = "Custom"]},
     custom : {"mock", "other"}, parses : BOOLEAN, chunks : 0..MaxScript]

(* build_runner: only the mock is wired.                                   *)
BuildRunner(d) ==
    IF EffectiveRuntime(d.base) = "Custom" /\ d.custom = "mock" /\ d.parses
    THEN "Ok" ELSE "BadRequest"

(* A mock without chunks says one thing.                                   *)
Script(d) == IF d.chunks = 0 THEN 1 ELSE d.chunks

(* A deployment that is refused raises, and leaves the registry as it is.  *)
(* fails is where the runner fails, 0 in the call itself, beyond its last  *)
(* chunk if it never does; the cells hold any ModelRunner, and the mock is *)
(* one that never fails.                                                   *)
Deploy(d, fails) ==
    /\ Len(scripts) < MaxDeploys
    /\ Validate(d.base) = "Ok" /\ BuildRunner(d) = "Ok"
    /\ scripts' = Append(scripts, [chunks |-> Script(d), fails |-> fails])
    /\ registered' = Len(scripts')
    /\ UNCHANGED <<cells, tokens, py, heard>>

-----------------------------------------------------------------------------
(* execute.  The runner is the one registered when the call is made.       *)

Moves(c, pc) == py' = [py EXCEPT ![c].pc = pc]

(* Of a call that has ended only a result is remembered.                   *)
Ends(c, what) ==
    py' = [py EXCEPT ![c] = IF what = "tokens" THEN [@ EXCEPT !.pc = "ended", !.gave = what]
                            ELSE [pc |-> "ended", runner |-> 0, has |-> 0, gave |-> "nothing"]]

(* lookup.                                                                 *)
Execute(c) ==
    /\ py[c].pc = "idle"
    /\ IF registered = 0 THEN Ends(c, BaseException)
       ELSE py' = [py EXCEPT ![c].pc = "queued", ![c].runner = registered]
    /\ UNCHANGED <<registered, scripts, cells, tokens, heard>>

Locks(c, from, to) ==
    /\ py[c].pc = from /\ cells[py[c].runner] = Free
    /\ cells' = [cells EXCEPT ![py[c].runner] = c]
    /\ Moves(c, to)
    /\ UNCHANGED <<registered, scripts, tokens, heard>>

(* The lock is released when the runner has answered, before the drain.    *)
ExecuteAnswers(c) ==
    /\ py[c].pc = "executing"
    /\ cells' = [cells EXCEPT ![py[c].runner] = Free]
    /\ IF scripts[py[c].runner].fails = 0 THEN Ends(c, RunnerError) ELSE Moves(c, "draining")
    /\ UNCHANGED <<registered, scripts, tokens, heard>>

ExecuteDrains(c) ==
    /\ py[c].pc = "draining"
    /\ LET script == scripts[py[c].runner] IN
         IF py[c].has = script.chunks THEN Ends(c, "tokens")
         ELSE IF py[c].has + 1 = script.fails THEN Ends(c, RunnerError)
         ELSE py' = [py EXCEPT ![c].has = @ + 1]
    /\ UNCHANGED <<registered, scripts, cells, tokens, heard>>

-----------------------------------------------------------------------------
(* execute_stream and __anext__.                                           *)

ExecuteStream ==
    /\ tokens.state = "none" /\ registered # 0
    /\ tokens' = [tokens EXCEPT !.state = "pending", !.runner = registered]
    /\ UNCHANGED <<registered, scripts, cells, py, heard>>

Anext(c) ==
    /\ py[c].pc = "idle" /\ tokens.state # "none"
    /\ py' = [py EXCEPT ![c].pc = "first", ![c].runner = tokens.runner]
    /\ UNCHANGED <<registered, scripts, cells, tokens, heard>>

(* Fault: the lock of the state is not kept over the call of the runner.   *)
FirstStepUnlocks(c) ==
    /\ py[c].pc = "first" /\ tokens.lock = Free
    /\ IF tokens.state = "pending"
       THEN tokens' = [tokens EXCEPT !.state = "done"] /\ Moves(c, "starting")
       ELSE tokens' = tokens /\ Moves(c, "second")
    /\ UNCHANGED <<registered, scripts, cells, heard>>

(* The first step: mem::replace leaves Done, a state that was not Pending  *)
(* is put back, and one that was keeps the lock until the runner answers.  *)
FirstStep(c) ==
    /\ py[c].pc = "first" /\ tokens.lock = Free
    /\ IF tokens.state = "pending"
       THEN tokens' = [tokens EXCEPT !.state = "done", !.lock = c] /\ Moves(c, "starting")
       ELSE tokens' = tokens /\ Moves(c, "second")
    /\ UNCHANGED <<registered, scripts, cells, heard>>

StreamAnswers(c) ==
    /\ py[c].pc = "answering"
    /\ cells' = [cells EXCEPT ![py[c].runner] = Free]
    /\ IF scripts[py[c].runner].fails = 0
       THEN /\ tokens' = [tokens EXCEPT !.lock = Free]
            /\ Ends(c, RunnerError) /\ heard' = Append(heard, RunnerError)
       ELSE /\ tokens' = [tokens EXCEPT !.lock = Free, !.state = "active"]
            /\ Moves(c, "second") /\ heard' = heard
    /\ UNCHANGED <<registered, scripts>>

(* The second step takes the lock again.                                   *)
SecondStep(c) ==
    /\ py[c].pc = "second" /\ tokens.lock = Free
    /\ IF tokens.state = "active"
       THEN tokens' = [tokens EXCEPT !.lock = c] /\ Moves(c, "pulling") /\ heard' = heard
       ELSE tokens' = tokens /\ Ends(c, "stop") /\ heard' = Append(heard, "stop")
    /\ UNCHANGED <<registered, scripts, cells>>

Pull(c) ==
    /\ py[c].pc = "pulling"
    /\ LET script == scripts[tokens.runner]
           what == CASE tokens.pulled = script.chunks -> "stop"
                     [] tokens.pulled + 1 = script.fails -> RunnerError
                     [] OTHER -> "chunk"
       IN  /\ Ends(c, what) /\ heard' = Append(heard, what)
           /\ tokens' = IF what = "chunk" THEN [tokens EXCEPT !.lock = Free, !.pulled = @ + 1]
                        ELSE [tokens EXCEPT !.lock = Free, !.state = "done"]
    /\ UNCHANGED <<registered, scripts, cells>>

(* A dropped future drops its guards.  Dropped while it starts the runner  *)
(* it leaves the state Done; dropped while it waits for a chunk it leaves  *)
(* the chunk to the next call.                                             *)
CancelCall(c) ==
    /\ py[c].pc \notin {"idle", "ended"}
    /\ cells' = [r \in Runners |-> IF cells[r] = c THEN Free ELSE cells[r]]
    /\ tokens' = IF tokens.lock = c THEN [tokens EXCEPT !.lock = Free] ELSE tokens
    /\ heard' = IF py[c].pc \in {"starting", "answering"} THEN Append(heard, "abandoned") ELSE heard
    /\ Ends(c, "cancelled")
    /\ UNCHANGED <<registered, scripts>>

-----------------------------------------------------------------------------
Coroutine(c) ==
    \/ Locks(c, "queued", "executing") \/ ExecuteAnswers(c) \/ ExecuteDrains(c)
    \/ Locks(c, "starting", "answering")
    \/ FirstStep(c) \/ StreamAnswers(c) \/ SecondStep(c) \/ Pull(c)

PyNext ==
    \/ \E d \in PyDeployments : \E fails \in 0..(Script(d) + 1) : Deploy(d, fails)
    \/ ExecuteStream
    \/ \E c \in PyCalls : Execute(c) \/ Anext(c) \/ CancelCall(c) \/ Coroutine(c)

(* A coroutine that can go on is polled, by the runtime of the bindings.   *)
PyFairness == \A c \in PyCalls : WF_pyVars(Coroutine(c))

-----------------------------------------------------------------------------
(* Properties.                                                             *)

(* However calls of __anext__ overlap, the iterator gives a chunk once and *)
(* says stop only when it has given every chunk, has raised the failure,   *)
(* or has lost the call that was starting it to a cancellation, in which   *)
(* case the stream ends early and without an error; and then it gives      *)
(* nothing more.  The result of an execute has every chunk of the runner   *)
(* it was made for, though another was deployed meanwhile.                 *)
PyResultsWhole ==
    LET chunks == Cardinality({i \in DOMAIN heard : heard[i] = "chunk"}) IN
    /\ \A i \in DOMAIN heard : heard[i] # "chunk" =>
          \A j \in DOMAIN heard : j > i => heard[j] = "stop"
    /\ \A i \in DOMAIN heard : heard[i] = "stop" =>
          \/ chunks = scripts[tokens.runner].chunks
          \/ \E j \in DOMAIN heard : j < i /\ heard[j] \in {RunnerError, "abandoned"}
    /\ chunks = tokens.pulled
    /\ \A c \in PyCalls : py[c].gave = "tokens" => py[c].has = scripts[py[c].runner].chunks
=============================================================================
