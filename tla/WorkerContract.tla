--------------------------- MODULE WorkerContract ---------------------------
(***************************************************************************)
(* What RemoteEngine relies on in one of its workers (engine.rs:133-142    *)
(* and 182-190): requests are taken in the order they were told, one at a  *)
(* time, and each one that was taken is answered by exactly one () on the  *)
(* idle channel, sent after the worker has let the request go.             *)
(***************************************************************************)
EXTENDS Naturals, Sequences

CONSTANTS Requests, NoRequest

VARIABLES
    inbox,      \* requests told to the worker and not yet taken
    running,    \* the request it is working on
    signals     \* idle signals sent so far

vars == <<inbox, running, signals>>

Init == inbox = <<>> /\ running = NoRequest /\ signals = 0

Tell(r) == inbox' = Append(inbox, r) /\ UNCHANGED <<running, signals>>

Start ==
    /\ running = NoRequest /\ inbox # <<>>
    /\ running' = Head(inbox)
    /\ inbox' = Tail(inbox)
    /\ UNCHANGED signals

Finish ==
    /\ running # NoRequest
    /\ running' = NoRequest
    /\ signals' = signals + 1
    /\ UNCHANGED inbox

Next == (\E r \in Requests : Tell(r)) \/ Start \/ Finish

Spec == Init /\ [][Next]_vars
=============================================================================
