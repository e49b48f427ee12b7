---------------------------- MODULE RateLimiter -----------------------------
(***************************************************************************)
(* RateLimiterActor (inference-remote-core, rate_limit.rs), one per node,  *)
(* and the GCounters through which the nodes tell each other their spend.  *)
(* StrictRateLimiterActor is the same code on one node.                    *)
(*                                                                         *)
(* The GCounter and its replication belong to atomr_distributed_data: a    *)
(* counter is a function from nodes to naturals and a delta is the state   *)
(* of a peer, possibly an old one, merged by the pointwise maximum.  Only  *)
(* the request counter is kept; the token counter is handled alongside it. *)
(*                                                                         *)
(* Both limits are set here; one that is None is not tested by acquire.    *)
(*                                                                         *)
(* Time advances in ticks, Window of them to the minute.  A window's start *)
(* is an age, kept up to Window.  The two histories say, for every age a,  *)
(* what a node has granted in its last a ticks: the current one for a = 0, *)
(* the whole last minute for a = Window - 1.                               *)
(***************************************************************************)
EXTENDS Integers, FiniteSets

CONSTANTS
    Nodes,
    RequestsPerMinute,  \* RateLimits::requests_per_minute
    TokensPerMinute,    \* RateLimits::tokens_per_minute
    Costs,              \* estimated tokens of the requests clients make
    Window,             \* ticks in 60 seconds
    MaxCount,           \* bound: counts up to which deltas are published
    MaxDeltas           \* bound: deltas on the network at a time

ASSUME LimiterAssumption ==
    /\ RequestsPerMinute \in Nat /\ TokensPerMinute \in Nat
    /\ Costs \subseteq Nat /\ Window \in Nat \ {0} /\ MaxCount \in Nat
    /\ MaxDeltas \in Nat

NotStarted == -1

VARIABLES
    started,   \* age of Window::started_at on each node, or NotStarted
    requests,  \* Window::requests
    tokens,    \* Window::tokens
    counter,   \* requests_counter of each node
    sent,      \* deltas on the network: a node's counter as it once was
    permit,   \* what the last acquire of each node returned
    recentRequests,  \* history: permits a node granted in its last a ticks
    recentTokens     \* history: the tokens those permits were for

history == <<recentRequests, recentTokens>>
limiterVars == <<started, requests, tokens, counter, sent, permit, history>>

Zero == [n \in Nodes |-> 0]

Spans == 0 .. Window - 1

LimiterInit ==
    /\ started = [n \in Nodes |-> NotStarted]
    /\ requests = Zero
    /\ tokens = Zero
    /\ counter = [n \in Nodes |-> Zero]
    /\ sent = {}
    /\ permit = [n \in Nodes |-> "none"]
    /\ recentRequests = [n \in Nodes |-> [a \in Spans |-> 0]]
    /\ recentTokens = [n \in Nodes |-> [a \in Spans |-> 0]]

(* Fault: only the first window is ever started.                           *)
NeedsResetOnce(n) == started[n] = NotStarted

(* rotate_window_if_needed resets the window and the node's counter.       *)
NeedsReset(n) == started[n] = NotStarted \/ started[n] >= Window

Rotate(n) == started' = [started EXCEPT ![n] = IF NeedsReset(n) THEN 0 ELSE @]

Spent(n, spend) == IF NeedsReset(n) THEN 0 ELSE spend[n]
View(n) == IF NeedsReset(n) THEN Zero ELSE counter[n]

(* The limits as acquire sees them, after the rotation.                    *)
Fits(n, cost) ==
    /\ Spent(n, requests) + 1 <= RequestsPerMinute
    /\ Spent(n, tokens) + cost <= TokensPerMinute

(* History: every span of time up to now has one permit more in it.        *)
Granted(n, cost) ==
    /\ recentRequests' =
          [recentRequests EXCEPT ![n] = [a \in Spans |-> recentRequests[n][a] + 1]]
    /\ recentTokens' =
          [recentTokens EXCEPT ![n] = [a \in Spans |-> recentTokens[n][a] + cost]]

(* Fault: the request is booked before the token limit is looked at.       *)
AcquireBooksEarly(n, cost) ==
    /\ Rotate(n)
    /\ Spent(n, requests) + 1 <= RequestsPerMinute
    /\ requests' = [requests EXCEPT ![n] = Spent(n, requests) + 1]
    /\ IF Spent(n, tokens) + cost <= TokensPerMinute
       THEN /\ tokens' = [tokens EXCEPT ![n] = Spent(n, tokens) + cost]
            /\ counter' = [counter EXCEPT ![n] = [View(n) EXCEPT ![n] = @ + 1]]
            /\ permit' = [permit EXCEPT ![n] = "Ok"]
            /\ Granted(n, cost)
       ELSE /\ tokens' = [tokens EXCEPT ![n] = Spent(n, tokens)]
            /\ counter' = [counter EXCEPT ![n] = View(n)]
            /\ permit' = [permit EXCEPT ![n] = "Backpressure"]
            /\ UNCHANGED history
    /\ UNCHANGED sent

(* AcquirePermit for one request of an estimated cost.                     *)
Acquire(n, cost) ==
    /\ Rotate(n)
    /\ \/ /\ Fits(n, cost)
          /\ requests' = [requests EXCEPT ![n] = Spent(n, requests) + 1]
          /\ tokens' = [tokens EXCEPT ![n] = Spent(n, tokens) + cost]
          /\ counter' = [counter EXCEPT ![n] = [View(n) EXCEPT ![n] = @ + 1]]
          /\ permit' = [permit EXCEPT ![n] = "Ok"]
          /\ Granted(n, cost)
       \/ /\ ~Fits(n, cost)
          /\ requests' = [requests EXCEPT ![n] = Spent(n, requests)]
          /\ tokens' = [tokens EXCEPT ![n] = Spent(n, tokens)]
          /\ counter' = [counter EXCEPT ![n] = View(n)]
          /\ permit' = [permit EXCEPT ![n] = "Backpressure"]
          /\ UNCHANGED history
    /\ UNCHANGED sent

(* The replicator publishes a node's counter.                              *)
Publish(n) ==
    /\ Cardinality(sent) < MaxDeltas
    /\ \A m \in Nodes : counter[n][m] <= MaxCount
    /\ sent' = sent \cup {[from |-> n, count |-> counter[n]]}
    /\ UNCHANGED <<started, requests, tokens, counter, permit, history>>

(* merge_remote_delta_requests: deltas arrive late, repeatedly, in any     *)
(* order or not at all.                                                    *)
Merge(n, delta) ==
    /\ delta.from # n
    /\ counter' = [counter EXCEPT ![n] =
                      [m \in Nodes |-> IF delta.count[m] > @[m] THEN delta.count[m] ELSE @[m]]]
    /\ UNCHANGED <<started, requests, tokens, sent, permit, history>>

Lose(delta) ==
    /\ sent' = sent \ {delta}
    /\ UNCHANGED <<started, requests, tokens, counter, permit, history>>

(* History: what was granted in the last a ticks, one tick later.          *)
Aged(recent) == [a \in Spans |-> IF a = 0 THEN 0 ELSE recent[a - 1]]

(* The monotonic clock advances.                                           *)
TimePasses ==
    /\ started' = [n \in Nodes |-> IF started[n] \in {NotStarted, Window} THEN started[n]
                                   ELSE started[n] + 1]
    /\ recentRequests' = [n \in Nodes |-> Aged(recentRequests[n])]
    /\ recentTokens' = [n \in Nodes |-> Aged(recentTokens[n])]
    /\ UNCHANGED <<requests, tokens, counter, sent, permit>>

LimiterNext ==
    \/ \E n \in Nodes, cost \in Costs : Acquire(n, cost)
    \/ \E n \in Nodes : Publish(n)
    \/ \E delta \in sent : Lose(delta) \/ \E n \in Nodes : Merge(n, delta)
    \/ TimePasses

LimiterSpec == LimiterInit /\ [][LimiterNext]_limiterVars

(* The clock runs and every node's workers keep asking.                    *)
LimiterFairSpec ==
    /\ LimiterSpec
    /\ WF_limiterVars(TimePasses)
    /\ \A n \in Nodes, cost \in Costs : WF_limiterVars(Acquire(n, cost))

-----------------------------------------------------------------------------
(* Properties.                                                             *)

LimiterTypeOK ==
    /\ started \in [Nodes -> NotStarted..Window]
    /\ requests \in [Nodes -> 0..RequestsPerMinute]
    /\ tokens \in [Nodes -> 0..TokensPerMinute]
    /\ counter \in [Nodes -> [Nodes -> Nat]]
    /\ sent \subseteq [from : Nodes, count : [Nodes -> Nat]]
    /\ permit \in [Nodes -> {"none", "Ok", "Backpressure"}]
    /\ recentRequests \in [Nodes -> [Spans -> Nat]]
    /\ recentTokens \in [Nodes -> [Spans -> Nat]]

(* The window's two counters are what was really granted since it began:   *)
(* a refusal, for either limit, spends nothing of the other, and a         *)
(* rotation forgets nothing that is younger than the window.               *)
SpendMatchesGrants ==
    \A n \in Nodes :
        started[n] \in 0 .. Window - 1 =>
            /\ requests[n] = recentRequests[n][started[n]]
            /\ tokens[n] = recentTokens[n][started[n]]

(* The over-spend a node can cause by asking around a window boundary is   *)
(* one budget: in any minute it is granted at most twice its limits.       *)
TwiceTheBudget ==
    \A n \in Nodes :
        /\ recentRequests[n][Window - 1] <= 2 * RequestsPerMinute
        /\ recentTokens[n][Window - 1] <= 2 * TokensPerMinute

(* What a node spends is what it grants, in its window and in any minute   *)
(* across a boundary.                                                      *)
SpendIsBounded == SpendMatchesGrants /\ TwiceTheBudget

(* A refused node is granted a permit again: the windows roll over however *)
(* the requests and the deltas of peers interleave with the clock.         *)
Replenished == \A n \in Nodes : permit[n] = "Backpressure" ~> permit[n] = "Ok"
=============================================================================
