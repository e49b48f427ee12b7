-------------------------- MODULE AdmissionEngine ---------------------------
(***************************************************************************)
(* What the engine actors of inference-runtime promise their callers: a    *)
(* request occupies one of max_concurrent slots from its admission to its  *)
(* end, it is refused only when every slot is occupied, and each request   *)
(* gets one verdict.                                                       *)
(***************************************************************************)
EXTENDS Naturals, FiniteSets

CONSTANTS Requests, MaxConcurrent

VARIABLES
    busy,     \* requests that occupy a slot
    verdict   \* what try_admit answered to each request

vars == <<busy, verdict>>

Init == busy = {} /\ verdict = [r \in Requests |-> "none"]

Admit(r) ==
    /\ verdict[r] = "none" /\ Cardinality(busy) < MaxConcurrent
    /\ busy' = busy \cup {r}
    /\ verdict' = [verdict EXCEPT ![r] = "Ok"]

Reject(r) ==
    /\ verdict[r] = "none" /\ Cardinality(busy) >= MaxConcurrent
    /\ busy' = busy
    /\ verdict' = [verdict EXCEPT ![r] = "Backpressure"]

Free(r) ==
    /\ r \in busy
    /\ busy' = busy \ {r}
    /\ verdict' = verdict

Next == \E r \in Requests : Admit(r) \/ Reject(r) \/ Free(r)

Spec == Init /\ [][Next]_vars
=============================================================================
