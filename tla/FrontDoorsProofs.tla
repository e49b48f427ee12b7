-------------------------- MODULE FrontDoorsProofs --------------------------
(***************************************************************************)
(* Proofs about the three front doors, for any number of engines,          *)
(* requests, calls and coroutines: nobody is routed to an engine that had  *)
(* gone, what clients receive is well formed, the deployments on record    *)
(* are the last valid ones, and the results of the Python handle are       *)
(* whole.  Only one door is open in a behaviour; each proof has a part     *)
(* for the door its property is about, and the others leave its            *)
(* variables alone.                                                        *)
(***************************************************************************)
EXTENDS FrontDoors, FiniteSetTheorems, SequenceTheorems, WellFoundedInduction, TLAPS

-----------------------------------------------------------------------------
(* A set of natural numbers has a least one.                               *)
LEMMA Least ==
    ASSUME NEW S, S \subseteq Nat, S # {}
    PROVE  \E m \in S : \A x \in S : m <= x
<1> DEFINE R == OpToRel(<, Nat)
<1>1. IsWellFoundedOn(R, Nat)
  BY NatLessThanWellFounded
<1>2. \A x, y \in Nat : <<y, x>> \in R <=> y < x
  BY DEF OpToRel
<1> HIDE DEF R
<1>3. PICK m \in S : \A y \in S : ~(<<y, m>> \in R)
  BY <1>1, WFMin
<1>4. \A y \in S : ~(y < m)
  BY <1>2, <1>3
<1>5. \A y \in S : m <= y
  BY <1>4
<1> QED BY <1>5

(* What is known of a sequence.                                            *)
LEMMA Entries ==
    ASSUME NEW S, NEW s \in Seq(S)
    PROVE  /\ Len(s) \in Nat /\ DOMAIN s = 1 .. Len(s) /\ \A i \in DOMAIN s : s[i] \in S
           /\ s # <<>> => 1 \in DOMAIN s
BY LenProperties, ElementOfSeq, EmptySeq

(* A function on 1 .. n is a sequence.                                     *)
LEMMA FunctionIsSeq ==
    ASSUME NEW S, NEW n \in Nat, NEW f \in [1 .. n -> S]
    PROVE  f \in Seq(S)
BY SeqDef

(* Of a sequence, how many items are in a set.                             *)
Count(s, P) == Cardinality({i \in DOMAIN s : s[i] \in P})

(* Of the empty sequence, none.                                            *)
LEMMA CountEmpty ==
    ASSUME NEW P
    PROVE  Count(<<>>, P) = 0
<1>1. {i \in DOMAIN <<>> : <<>>[i] \in P} = {}
  OBVIOUS
<1> QED BY <1>1, FS_EmptySet DEF Count

(* Appending an item counts it, or does not.                               *)
LEMMA CountAppend ==
    ASSUME NEW S, NEW s \in Seq(S), NEW x \in S, NEW P
    PROVE  /\ Count(s, P) \in Nat
           /\ Count(Append(s, x), P) = IF x \in P THEN Count(s, P) + 1 ELSE Count(s, P)
<1> DEFINE A == {i \in DOMAIN s : s[i] \in P}
           t == Append(s, x)
           B == {i \in DOMAIN t : t[i] \in P}
           n == Len(s) + 1
<1>1. /\ Len(s) \in Nat /\ DOMAIN s = 1 .. Len(s) /\ t \in Seq(S) /\ Len(t) = n
      /\ DOMAIN t = 1 .. n /\ t[n] = x /\ \A i \in 1 .. Len(s) : t[i] = s[i]
  BY AppendProperties, LenProperties
<1> HIDE DEF t
<1>2. IsFiniteSet(A)
  <2>1. IsFiniteSet(1 .. Len(s)) /\ A \subseteq 1 .. Len(s)
    BY <1>1, FS_Interval
  <2> QED BY <2>1, FS_Subset
<1>3. n \notin A
  BY <1>1
<1>4. B = IF x \in P THEN A \cup {n} ELSE A
  BY <1>1
<1>5. Cardinality(A) \in Nat
  BY <1>2, FS_CardinalityType
<1> HIDE DEF A, n
<1>7. Cardinality(A \cup {n}) = Cardinality(A) + 1
  BY <1>2, <1>3, FS_AddElement
<1>8. Cardinality(B) = IF x \in P THEN Cardinality(A) + 1 ELSE Cardinality(A)
  BY <1>4, <1>7
<1>9. Count(s, P) = Cardinality(A) /\ Count(Append(s, x), P) = Cardinality(B)
  BY DEF Count, A, t
<1> QED BY <1>5, <1>8, <1>9

-----------------------------------------------------------------------------
(***************************************************************************)
(* The routing table holds members only, an ask that is pending has seen   *)
(* every member there is, and an actor that was not dispatched has no      *)
(* answer.                                                                 *)
(***************************************************************************)
TableInv ==
    /\ routes \in Seq([engine : Engines, load : Nat])
    /\ \A i \in DOMAIN routes : routes[i].engine \in members

AskInv(r) ==
    /\ pc[r] = "asking" => dispatched[r] /\ members \subseteq present[r]
    /\ ~dispatched[r] => answer[r] = NoRoute
    /\ answer[r] \in Engines => answer[r] \in present[r]

RouteTypes ==
    /\ pc \in [Requests -> {"ready", "asking", "stopped"}]
    /\ dispatched \in [Requests -> BOOLEAN]
    /\ answer = [r \in Requests |-> answer[r]]
    /\ present = [r \in Requests |-> present[r]]

RouteInv == TableInv /\ RouteTypes /\ \A r \in Requests : AskInv(r)

(* The pick is an entry of the table.                                      *)
LEMMA PickInTable ==
    ASSUME TableInv, routes # <<>>
    PROVE  Pick \in DOMAIN routes
<1> DEFINE L == {routes[i].load : i \in DOMAIN routes}
<1>1. DOMAIN routes = 1 .. Len(routes) /\ Len(routes) \in Nat
  BY Entries DEF TableInv
<1>2. 1 \in DOMAIN routes
  BY Entries DEF TableInv
<1>3. \A i \in DOMAIN routes : routes[i].load \in Nat
  <2>1. \A i \in DOMAIN routes : routes[i] \in [engine : Engines, load : Nat]
    BY Entries DEF TableInv
  <2> QED BY <2>1
<1>4. L \subseteq Nat /\ L # {}
  BY <1>2, <1>3
<1>5. PICK m \in L : \A x \in L : m <= x
  BY <1>4, Least
<1> DEFINE F == {i \in DOMAIN routes : routes[i].load = m}
<1>6. F \subseteq Nat /\ F # {}
  BY <1>1, <1>5
<1>7. PICK i \in F : \A j \in F : i <= j
  BY <1>6, Least
<1>8. \A j \in DOMAIN routes : routes[i].load <= routes[j].load
  BY <1>5, <1>7
<1>9. \A j \in 1 .. i - 1 : routes[j].load # routes[i].load
  <2> SUFFICES ASSUME NEW j \in 1 .. i - 1, routes[j].load = routes[i].load PROVE FALSE
    OBVIOUS
  <2>1. j \in DOMAIN routes /\ i \in Nat /\ j \in Nat /\ j < i
    BY <1>1, <1>6, <1>7
  <2>2. j \in F
    BY <2>1, <1>7
  <2> QED BY <1>7, <2>1, <2>2
<1> QED BY <1>7, <1>8, <1>9 DEF Pick

(* Whatever becomes of the members, the asks keep up.                      *)
LEMMA MembersAsk ==
    ASSUME RouteTypes, NEW new, Members(new), UNCHANGED requestVars, \A r \in Requests : AskInv(r)
    PROVE  RouteTypes' /\ \A r \in Requests : AskInv(r)'
<1>1. /\ members' = new /\ pc' = pc /\ dispatched' = dispatched /\ answer' = answer
      /\ present' = [r \in Requests |-> IF pc[r] = "asking" THEN present[r] \cup new ELSE present[r]]
  BY DEF Members, requestVars
<1>2. RouteTypes'
  BY <1>1 DEF RouteTypes
<1>3. ASSUME NEW r \in Requests PROVE AskInv(r)'
  <2>1. present'[r] = IF pc[r] = "asking" THEN present[r] \cup new ELSE present[r]
    BY <1>1
  <2> QED BY <2>1, <1>1 DEF AskInv
<1> QED BY <1>2, <1>3

(* The coordinator keeps its table.                                        *)
LEMMA CoordinatorRoutes ==
    ASSUME RouteInv, CoordinatorNext
    PROVE  RouteInv' /\ (routes' = <<>> \/ members' # {})
<1>t. /\ routes \in Seq([engine : Engines, load : Nat]) /\ RouteTypes /\ \A r \in Requests : AskInv(r)
      /\ DOMAIN routes = 1 .. Len(routes) /\ Len(routes) \in Nat
      /\ \A i \in DOMAIN routes : routes[i].engine \in members /\ routes[i] \in [engine : Engines, load : Nat]
  BY Entries DEF RouteInv, TableInv
<1>n. TableInv' => (routes' = <<>> \/ members' # {})
  <2> SUFFICES ASSUME TableInv', routes' # <<>> PROVE members' # {}
    OBVIOUS
  <2>1. 1 \in DOMAIN routes'
    BY Entries DEF TableInv
  <2> QED BY <2>1 DEF TableInv
<1>1. ASSUME NEW e \in Engines, Deregister(e) PROVE RouteInv'
  <2> DEFINE stay == {i \in DOMAIN routes : routes[i].engine # e}
             n == Cardinality(stay)
  <2>1. PICK at \in [1 .. n -> stay] : routes' = [i \in 1 .. n |-> routes[at[i]]]
    BY <1>1, Zenon DEF Deregister
  <2>2. members' = members \ {e}
    BY <1>1 DEF Deregister, Members
  <2>3. n \in Nat
    <3>1. IsFiniteSet(1 .. Len(routes)) /\ stay \subseteq 1 .. Len(routes)
      BY <1>t, FS_Interval
    <3> QED BY <3>1, FS_Subset, FS_CardinalityType
  <2> HIDE DEF n
  <2>4. \A i \in 1 .. n : at[i] \in DOMAIN routes /\ routes[at[i]].engine # e
    OBVIOUS
  <2>5. \A i \in 1 .. n : routes'[i] \in [engine : Engines, load : Nat] /\ routes'[i].engine \in members'
    BY <2>1, <2>2, <2>4, <1>t
  <2>6. routes' \in Seq([engine : Engines, load : Nat]) /\ DOMAIN routes' = 1 .. n
    <3>1. routes' \in [1 .. n -> [engine : Engines, load : Nat]]
      BY <2>1, <2>5
    <3>2. DOMAIN routes' = 1 .. n
      BY <2>1
    <3> HIDE DEF stay
    <3> QED BY <3>1, <3>2, <2>3, FunctionIsSeq
  <2>7. TableInv'
    BY <2>5, <2>6 DEF TableInv
  <2> QED BY <2>7, <1>1, <1>t, MembersAsk DEF Deregister, RouteInv
<1>2. ASSUME NEW e \in Engines, NEW load \in Loads, Register(e, load) PROVE RouteInv'
  <2>1. routes' = Append(routes, [engine |-> e, load |-> load]) /\ members' = members \cup {e}
    BY <1>2 DEF Register, Members
  <2>2. [engine |-> e, load |-> load] \in [engine : Engines, load : Nat]
    BY RoutingAssumption
  <2>3. TableInv'
    BY <2>1, <2>2, <1>t, AppendProperties DEF TableInv
  <2> QED BY <2>3, <1>2, <1>t, MembersAsk DEF Register, RouteInv
<1>3. ASSUME NEW e \in Engines, NEW load \in Loads, ReportLoad(e, load) PROVE RouteInv'
  <2>1. /\ routes' = [i \in DOMAIN routes |-> IF routes[i].engine = e THEN [routes[i] EXCEPT !.load = load]
                                              ELSE routes[i]]
        /\ UNCHANGED <<requestVars, members, present>>
    BY <1>3 DEF ReportLoad
  <2>2. load \in Nat
    BY RoutingAssumption
  <2>3. \A i \in DOMAIN routes : routes'[i] \in [engine : Engines, load : Nat] /\ routes'[i].engine = routes[i].engine
    BY <2>1, <2>2, <1>t
  <2>4. routes' \in [1 .. Len(routes) -> [engine : Engines, load : Nat]]
    BY <2>1, <2>3, <1>t
  <2>5. routes' \in Seq([engine : Engines, load : Nat]) /\ DOMAIN routes' = DOMAIN routes
    BY <2>4, <1>t
  <2>6. TableInv'
    BY <2>1, <2>3, <2>5, <1>t DEF TableInv
  <2> QED BY <2>1, <2>6, <1>t DEF RouteInv, RouteTypes, AskInv, requestVars
<1> QED BY <1>1, <1>2, <1>3, <1>n DEF CoordinatorNext, RouteInv

(* The actors: whatever an actor does leaves the other actors' asks alone. *)
LEMMA RequestRoutes ==
    ASSUME RouteInv, NEW q \in Requests, RequestNext(q)
    PROVE  RouteInv'
<1>t. /\ TableInv /\ RouteTypes /\ \A r \in Requests : AskInv(r)
      /\ pc \in [Requests -> {"ready", "asking", "stopped"}] /\ dispatched \in [Requests -> BOOLEAN]
      /\ answer = [r \in Requests |-> answer[r]] /\ present = [r \in Requests |-> present[r]]
  BY DEF RouteInv, RouteTypes
<1>0. ASSUME UNCHANGED <<routes, members, dispatched, answer, present>>,
             pc' = pc \/ (\E p \in {"ready", "stopped"} : pc' = [pc EXCEPT ![q] = p])
      PROVE  RouteInv'
  <2>1. TableInv'
    BY <1>0, <1>t DEF TableInv
  <2>2. RouteTypes'
    BY <1>0, <1>t DEF RouteTypes
  <2>3. ASSUME NEW r \in Requests PROVE AskInv(r)'
    <3>1. pc'[r] = "asking" => pc[r] = "asking"
      BY <1>0, <1>t
    <3> QED BY <3>1, <1>0, <1>t DEF AskInv
  <2> QED BY <2>1, <2>2, <2>3 DEF RouteInv
<1>1. CASE Answer(q)
  <2> DEFINE a == IF routes = <<>> THEN "no engine" ELSE routes[Pick].engine
  <2>1. /\ pc[q] = "asking" /\ UNCHANGED <<routes, members, dispatched, present, pc>>
        /\ answer' = [answer EXCEPT ![q] = a]
    BY <1>1 DEF Answer
  <2>2. a \in Engines => a \in members
    BY <1>t, PickInTable, RoutingAssumption DEF TableInv
  <2> HIDE DEF a
  <2>3. TableInv' /\ RouteTypes'
    BY <2>1, <1>t DEF TableInv, RouteTypes
  <2>4. ASSUME NEW r \in Requests PROVE AskInv(r)'
    <3>1. CASE r = q
      <4>1. answer'[r] = a
        BY <2>1, <3>1, <1>t
      <4> QED BY <4>1, <2>1, <2>2, <3>1, <1>t DEF AskInv
    <3>2. CASE r # q
      <4>1. answer'[r] = answer[r]
        BY <2>1, <3>2, <1>t
      <4> QED BY <4>1, <2>1, <1>t DEF AskInv
    <3> QED BY <3>1, <3>2
  <2> QED BY <2>3, <2>4 DEF RouteInv
<1>2. CASE Dispatch(q)
  <2>1. CASE dispatched[q]
    <3>1. UNCHANGED <<routes, members, dispatched, answer, present, pc>>
      BY <1>2, <2>1 DEF Dispatch
    <3> QED BY <1>0, <3>1
  <2>2. CASE ~dispatched[q]
    <3>1. /\ UNCHANGED <<routes, members, answer>>
          /\ pc' = [pc EXCEPT ![q] = "asking"] /\ dispatched' = [dispatched EXCEPT ![q] = TRUE]
          /\ present' = [present EXCEPT ![q] = members]
      BY <1>2, <2>2 DEF Dispatch
    <3>2. TableInv' /\ RouteTypes'
      BY <3>1, <1>t DEF TableInv, RouteTypes
    <3>3. ASSUME NEW r \in Requests PROVE AskInv(r)'
      <4>1. CASE r = q
        <5>1. dispatched'[r] /\ present'[r] = members /\ answer'[r] = NoRoute
          BY <3>1, <4>1, <2>2, <1>t DEF AskInv
        <5> QED BY <5>1, <3>1, RoutingAssumption DEF AskInv
      <4>2. CASE r # q
        <5>1. pc'[r] = pc[r] /\ dispatched'[r] = dispatched[r] /\ present'[r] = present[r]
          BY <3>1, <4>2, <1>t
        <5> QED BY <5>1, <3>1, <1>t DEF AskInv
      <4> QED BY <4>1, <4>2
    <3> QED BY <3>2, <3>3 DEF RouteInv
  <2> QED BY <2>1, <2>2
<1>3. CASE Routed(q) \/ RouteFails(q) \/ Cancel(q)
  BY <1>0, <1>3 DEF Routed, RouteFails, Cancel, Finish
<1>4. ASSUME NEW item, Chunk(q, item) PROVE RouteInv'
  BY <1>0, <1>4 DEF Chunk, Finish
<1>5. ASSUME NEW msg, Tell(q, msg) PROVE RouteInv'
  BY <1>0, <1>5 DEF Tell
<1>6. CASE ClientLeaves(q)
  BY <1>0, <1>6 DEF ClientLeaves
<1> QED BY <1>1, <1>2, <1>3, <1>4, <1>5, <1>6 DEF RequestNext, Handle

-----------------------------------------------------------------------------
(***************************************************************************)
(* The gateway's calls.  One that is asking has witnessed every member; at *)
(* the other doors there are none.                                         *)
(***************************************************************************)
CallInv(c) ==
    /\ call[c] = [f \in {"api", "model", "stage", "status"} |-> call[c][f]]
    /\ call[c].stage \in {"idle", "asking"} => call[c].status # "ok"
    /\ call[c].stage = "asking" => members \subseteq witnessed[c]
    /\ call[c].status = "ok" => call[c].model = Served /\ witnessed[c] # {}
    /\ door # "gateway" => call[c].stage = "idle"

GatewayInv ==
    /\ call = [c \in Calls |-> call[c]] /\ witnessed = [c \in Calls |-> witnessed[c]]
    /\ \A c \in Calls : CallInv(c)

(* The coordinator moves under the calls that are asking.                  *)
LEMMA CoordinatorCalls ==
    ASSUME GatewayInv, CoordinatorStep, door' = door
    PROVE  GatewayInv'
<1>1. /\ call' = call
      /\ witnessed' = [c \in Calls |-> IF call[c].stage = "asking" THEN witnessed[c] \cup members' ELSE witnessed[c]]
  BY DEF CoordinatorStep, callVars
<1>2. ASSUME NEW c \in Calls PROVE CallInv(c)'
  <2>1. witnessed'[c] = IF call[c].stage = "asking" THEN witnessed[c] \cup members' ELSE witnessed[c]
    BY <1>1
  <2>2. CallInv(c)
    BY DEF GatewayInv
  <2> QED BY <1>1, <2>1, <2>2 DEF CallInv
<1>3. call' = [c \in Calls |-> call'[c]] /\ witnessed' = [c \in Calls |-> witnessed'[c]]
  BY <1>1 DEF GatewayInv
<1> QED BY <1>2, <1>3 DEF GatewayInv

(* A handler moves its own call only.                                      *)
LEMMA HandlerCalls ==
    ASSUME RouteInv, GatewayInv, door = "gateway", door' = door, NEW c \in Calls,
           \/ Handler(c)
           \/ \E api \in Apis : \E m \in Asked(api) : Accept(c, api, m)
    PROVE  GatewayInv'
<1>g. /\ call = [d \in Calls |-> call[d]] /\ witnessed = [d \in Calls |-> witnessed[d]]
      /\ \A d \in Calls : CallInv(d)
  BY DEF GatewayInv
<1>0. ASSUME NEW new, CallInv(c)', call' = [call EXCEPT ![c] = new], members' = members,
             \A d \in Calls \ {c} : witnessed'[d] = witnessed[d],
             witnessed' = [d \in Calls |-> witnessed'[d]]
      PROVE  GatewayInv'
  <2>1. ASSUME NEW d \in Calls PROVE CallInv(d)'
    <3>1. d # c => call'[d] = call[d] /\ witnessed'[d] = witnessed[d]
      BY <1>0, <1>g
    <3> QED BY <3>1, <1>0, <1>g DEF CallInv
  <2>2. call' = [d \in Calls |-> call'[d]]
    BY <1>0, <1>g
  <2> QED BY <2>1, <2>2, <1>0 DEF GatewayInv
<1>c. CallInv(c)
  BY <1>g
<1>1. ASSUME NEW status, Finished(c, status), call[c].stage = "asking",
             status = "ok" => call[c].model = Served /\ witnessed[c] # {}
      PROVE  GatewayInv'
  <2> DEFINE new == [call[c] EXCEPT !.stage = "answered", !.status = status]
  <2>1. call' = [call EXCEPT ![c] = new] /\ members' = members /\ witnessed' = witnessed
    BY <1>1 DEF Finished, vars
  <2>2. new = [f \in {"api", "model", "stage", "status"} |-> new[f]]
    BY <1>c DEF CallInv
  <2>3. new.stage = "answered" /\ new.status = status /\ new.model = call[c].model
    BY <1>c DEF CallInv
  <2> HIDE DEF new
  <2>4. call'[c] = new
    BY <2>1, <1>g
  <2>5. CallInv(c)'
    BY <2>1, <2>2, <2>3, <2>4, <1>1 DEF CallInv
  <2> QED BY <2>1, <2>5, <1>0, <1>g
<1>2. CASE RouteFound(c)
  <2> DEFINE status == IF call[c].model = Served /\ routes # <<>> THEN "ok" ELSE "no_route"
  <2>1. Finished(c, status) /\ call[c].stage = "asking"
    BY <1>2 DEF RouteFound
  <2>2. routes # <<>> => members # {}
    BY Entries DEF RouteInv, TableInv
  <2>3. status = "ok" => call[c].model = Served /\ witnessed[c] # {}
    BY <2>1, <2>2, <1>c DEF CallInv
  <2> HIDE DEF status
  <2> QED BY <2>1, <2>3, <1>1
<1>3. CASE RouteTimeout(c)
  BY <1>1, <1>3 DEF RouteTimeout
<1>4. CASE SocketEnd(c)
  <2> DEFINE new == [call[c] EXCEPT !.stage = "answered", !.status = "closed"]
  <2>1. call' = [call EXCEPT ![c] = new] /\ members' = members /\ witnessed' = witnessed
    BY <1>4 DEF SocketEnd, vars
  <2>2. new = [f \in {"api", "model", "stage", "status"} |-> new[f]]
    BY <1>c DEF CallInv
  <2>3. new.stage = "answered" /\ new.status = "closed"
    BY <1>c DEF CallInv
  <2> HIDE DEF new
  <2>4. call'[c] = new
    BY <2>1, <1>g
  <2>5. CallInv(c)'
    BY <2>2, <2>3, <2>4 DEF CallInv
  <2> QED BY <2>1, <2>5, <1>0, <1>g
<1>5. ASSUME NEW k, SocketFrame(c, k) PROVE GatewayInv'
  BY <1>5 DEF SocketFrame, vars, GatewayInv, CallInv
<1>6. ASSUME NEW api \in Apis, NEW m, Accept(c, api, m) PROVE GatewayInv'
  <2> DEFINE lacks == m \in {"no model", "no file"}
             stage == IF lacks THEN "answered" ELSE IF api \in SocketApis THEN "socket" ELSE "asking"
             status == IF lacks THEN "invalid_request" ELSE None
             new == [api |-> api, model |-> m, status |-> status, stage |-> stage]
  <2>n. call' = [call EXCEPT ![c] = new]
    BY <1>6 DEF Accept
  <2>s. status # "ok" /\ stage \in {"answered", "socket", "asking"}
    BY DEF None
  <2> HIDE DEF stage, status
  <2>f. new = [f \in {"api", "model", "stage", "status"} |-> new[f]]
    OBVIOUS
  <2>e. new.status # "ok" /\ new.stage \in {"answered", "socket", "asking"}
    BY <2>s
  <2> HIDE DEF new
  <2>1. /\ call' = [call EXCEPT ![c] = new]
        /\ new = [f \in {"api", "model", "stage", "status"} |-> new[f]]
        /\ new.status # "ok" /\ new.stage \in {"answered", "socket", "asking"}
    BY <2>n, <2>f, <2>e
  <2>2. members' = members /\ witnessed' = [witnessed EXCEPT ![c] = members]
    BY <1>6 DEF Accept, vars
  <2>3. call'[c] = new /\ witnessed'[c] = members
    BY <2>1, <2>2, <1>g
  <2>4. CallInv(c)'
    BY <2>1, <2>2, <2>3 DEF CallInv
  <2>5. witnessed' = [d \in Calls |-> witnessed'[d]] /\ \A d \in Calls \ {c} : witnessed'[d] = witnessed[d]
    BY <2>2, <1>g
  <2> QED BY <2>1, <2>2, <2>4, <2>5, <1>0
<1> QED BY <1>2, <1>3, <1>4, <1>5, <1>6 DEF Handler

(* Every step at every door.                                               *)
LEMMA FrontRoutes ==
    ASSUME RouteInv, GatewayInv, [FrontNext]_frontVars
    PROVE  RouteInv' /\ GatewayInv'
<1>0. ASSUME UNCHANGED vars PROVE RouteInv'
  BY <1>0 DEF vars, requestVars, RouteInv, TableInv, RouteTypes, AskInv
<1>1. ASSUME UNCHANGED <<members, call, witnessed, door>> PROVE GatewayInv'
  BY <1>1 DEF GatewayInv, CallInv
<1>2. CASE UNCHANGED frontVars
  BY <1>0, <1>1, <1>2 DEF frontVars, allVars, servingVars, callVars, vars
<1>3. CASE door = "python" /\ UNCHANGED allVars /\ UNCHANGED door
  BY <1>0, <1>1, <1>3 DEF allVars, servingVars, callVars, vars
<1>4. CASE door = "requests" /\ Next /\ UNCHANGED servingVars /\ UNCHANGED door
  <2>1. RouteInv'
    BY <1>4, CoordinatorRoutes, RequestRoutes DEF Next
  <2>2. call' = call /\ witnessed' = witnessed /\ door' = door
    BY <1>4 DEF servingVars, callVars
  <2>3. GatewayInv'
    BY <1>4, <2>2 DEF GatewayInv, CallInv
  <2> QED BY <2>1, <2>3
<1>5. CASE door = "gateway" /\ ServingNext /\ UNCHANGED door
  <2>1. CASE CoordinatorStep
    BY <1>5, <2>1, CoordinatorRoutes, CoordinatorCalls DEF CoordinatorStep
  <2>2. CASE \E c \in Calls : \/ Handler(c)
                              \/ \E api \in Apis : \E m \in Asked(api) : Accept(c, api, m)
    <3>1. UNCHANGED vars
      BY <2>2 DEF Handler, RouteFound, RouteTimeout, Finished, SocketEnd, SocketFrame, Accept
    <3> QED BY <3>1, <1>0, <1>5, <2>2, HandlerCalls
  <2>3. CASE \/ \E d \in Declarable : ApplyDeclared(d)
             \/ \E name \in {Served, GemmaName} : RemoveDeployment(name)
             \/ Provision \/ StopGateway \/ Terminate \/ Exit
             \/ \E bound \in BOOLEAN : Mount(bound)
    <3>1. UNCHANGED <<vars, call, witnessed>>
      BY <2>3 DEF ApplyDeclared, RemoveDeployment, Provision, StopGateway, Terminate, Exit, Mount, callVars
    <3> QED BY <3>1, <1>0, <1>1, <1>5 DEF vars
  <2> QED BY <1>5, <2>1, <2>2, <2>3 DEF ServingNext
<1> QED BY <1>2, <1>3, <1>4, <1>5 DEF FrontNext

(* So both hold throughout.                                                *)
LEMMA RouteInvariance == FrontSpec => [](RouteInv /\ GatewayInv)
<1>1. FrontInit => RouteInv /\ GatewayInv
  <2> SUFFICES ASSUME FrontInit PROVE RouteInv /\ GatewayInv
    OBVIOUS
  <2>1. Init /\ ServingInit
    BY DEF FrontInit, ServingInit
  <2>2. TableInv
    BY <2>1, EmptySeq DEF Init, TableInv
  <2>3. RouteTypes /\ \A r \in Requests : AskInv(r)
    BY <2>1, RoutingAssumption DEF Init, Each, RouteTypes, AskInv
  <2>4. /\ call = [c \in Calls |-> Idle] /\ witnessed = [c \in Calls |-> {}]
    BY <2>1 DEF ServingInit
  <2>5. Idle.stage = "idle" /\ Idle.status # "ok" /\ Idle = [f \in {"api", "model", "stage", "status"} |-> Idle[f]]
    BY DEF Idle, None
  <2>6. GatewayInv
    BY <2>4, <2>5 DEF GatewayInv, CallInv
  <2> QED BY <2>2, <2>3, <2>6 DEF RouteInv
<1>2. RouteInv /\ GatewayInv /\ [FrontNext]_frontVars => (RouteInv /\ GatewayInv)'
  BY FrontRoutes
<1> QED BY <1>1, <1>2, PTL DEF FrontSpec

(***************************************************************************)
(* Nobody who asks for a route is given an engine that had gone before it  *)
(* asked, for any number of engines, registrations, requests and calls     *)
(* (dp_coordinator.rs; gateway.rs, the chat, transcription and speech      *)
(* handlers; the socket handlers do not ask).                              *)
(***************************************************************************)
THEOREM RoutesLive == FrontSpec => []RouteWasLive
<1>1. RouteInv /\ GatewayInv => RouteWasLive
  BY DEF RouteInv, AskInv, GatewayInv, CallInv, RouteWasLive, RouteWasPresent, AnsweredHadEngine
<1> QED BY <1>1, RouteInvariance, PTL

-----------------------------------------------------------------------------
(***************************************************************************)
(* What the iterator said, and why it may say no more.                     *)
(***************************************************************************)
Starting == {"starting", "answering"}
Said == {"chunk", "stop", RunnerError, "abandoned"}

Over ==
    \/ tokens.pulled = scripts[tokens.runner].chunks
    \/ \E j \in DOMAIN heard : heard[j] \in {RunnerError, "abandoned"}

HeardInv ==
    /\ heard \in Seq(Said) /\ Count(heard, {"chunk"}) = tokens.pulled
    /\ \A i \in DOMAIN heard : heard[i] # "chunk" =>
          \A j \in DOMAIN heard : j > i => heard[j] = "stop"
    /\ \A i \in DOMAIN heard : heard[i] = "stop" =>
          \/ tokens.pulled = scripts[tokens.runner].chunks
          \/ \E j \in DOMAIN heard : j < i /\ heard[j] \in {RunnerError, "abandoned"}

(* The state of the TokenStream, and who is at its runner.                 *)
StreamInv ==
    /\ tokens = [f \in {"state", "runner", "pulled", "lock"} |-> tokens[f]]
    /\ tokens.state \in {"none", "pending", "active", "done"}
    /\ tokens.state # "none" => tokens.runner \in DOMAIN scripts
    /\ tokens.state \in {"none", "pending"} => heard = <<>>
    /\ tokens.state = "active" => \A i \in DOMAIN heard : heard[i] = "chunk"
    /\ tokens.state = "done" => Over \/ \E c \in PyCalls : py[c].pc \in Starting

(* A coroutine of __anext__ that has come to the runner holds the lock of  *)
(* the state; one of execute keeps the runner it was made for.             *)
PyCallInv(c) ==
    /\ py[c] = [f \in {"pc", "runner", "has", "gave"} |-> py[c][f]]
    /\ py[c].pc = "first" => tokens.state # "none"
    /\ py[c].pc = "second" => tokens.state \in {"active", "done"}
    /\ py[c].pc \in Starting => tokens.lock = c /\ tokens.state = "done" /\ heard = <<>>
    /\ py[c].pc = "pulling" => tokens.lock = c /\ tokens.state = "active"
    /\ py[c].pc \in {"queued", "executing", "draining"} => py[c].runner \in DOMAIN scripts
    /\ py[c].gave = "tokens" => /\ py[c].pc = "ended" /\ py[c].runner \in DOMAIN scripts
                                /\ py[c].has = scripts[py[c].runner].chunks

ScriptInv ==
    /\ scripts \in Seq([chunks : Nat, fails : Nat])
    /\ registered \in 0 .. Len(scripts)
    /\ py = [c \in PyCalls |-> py[c]]

PyInv == HeardInv /\ StreamInv /\ ScriptInv /\ \A c \in PyCalls : PyCallInv(c)

(* One more thing is said: a stop when all is over, anything as long as    *)
(* there were only chunks.                                                 *)
LEMMA OneMoreSaid ==
    ASSUME HeardInv, NEW x \in Said, heard' = Append(heard, x), scripts' = scripts,
           tokens'.runner = tokens.runner,
           tokens'.pulled = IF x = "chunk" THEN tokens.pulled + 1 ELSE tokens.pulled,
           (x = "stop" /\ Over) \/ (x # "stop" /\ \A i \in DOMAIN heard : heard[i] = "chunk")
    PROVE  HeardInv' /\ (x # "chunk" => Over') /\ DOMAIN heard \subseteq DOMAIN heard'
<1> DEFINE n == Len(heard) + 1
<1>1. /\ Len(heard) \in Nat /\ DOMAIN heard = 1 .. Len(heard) /\ heard' \in Seq(Said)
      /\ DOMAIN heard' = 1 .. n /\ heard'[n] = x /\ \A i \in 1 .. Len(heard) : heard'[i] = heard[i]
  BY AppendProperties, LenProperties DEF HeardInv
<1>2. Count(heard', {"chunk"}) = tokens'.pulled
  BY CountAppend DEF HeardInv
<1>3. RunnerError \notin {"chunk", "stop"}
  BY DEF RunnerError, PyException
<1>4. ASSUME NEW i \in DOMAIN heard', heard'[i] # "chunk", NEW j \in DOMAIN heard', j > i
      PROVE  heard'[j] = "stop"
  <2>1. i \in DOMAIN heard /\ heard[i] # "chunk"
    BY <1>1, <1>4
  <2>2. x = "stop"
    BY <2>1
  <2>3. CASE j = n
    BY <2>2, <2>3, <1>1
  <2>4. CASE j \in DOMAIN heard
    BY <2>1, <2>4, <1>1, <1>4 DEF HeardInv
  <2> QED BY <2>3, <2>4, <1>1
<1>5. x # "chunk" => Over'
  <2>1. CASE x = "stop" /\ Over
    BY <2>1, <1>1 DEF Over
  <2>2. CASE x \in {RunnerError, "abandoned"}
    BY <2>2, <1>1 DEF Over
  <2> QED BY <2>1, <2>2 DEF Said
<1>6. ASSUME NEW i \in DOMAIN heard', heard'[i] = "stop"
      PROVE  \/ tokens'.pulled = scripts'[tokens'.runner].chunks
             \/ \E j \in DOMAIN heard' : j < i /\ heard'[j] \in {RunnerError, "abandoned"}
  <2>1. x = "stop" /\ Over
    BY <1>1, <1>6
  <2>2. CASE tokens.pulled = scripts[tokens.runner].chunks
    BY <2>1, <2>2
  <2>3. CASE tokens.pulled # scripts[tokens.runner].chunks
    <3>1. CASE i = n
      <4>1. PICK j \in DOMAIN heard : heard[j] \in {RunnerError, "abandoned"}
        BY <2>1, <2>3 DEF Over
      <4>2. j \in DOMAIN heard' /\ j < i /\ heard'[j] = heard[j]
        BY <3>1, <1>1
      <4> QED BY <4>1, <4>2
    <3>2. CASE i # n
      <4>1. i \in DOMAIN heard /\ heard[i] = "stop"
        BY <3>2, <1>1, <1>6
      <4>2. PICK j \in DOMAIN heard : j < i /\ heard[j] \in {RunnerError, "abandoned"}
        BY <4>1, <2>3 DEF HeardInv
      <4>3. j \in DOMAIN heard' /\ heard'[j] = heard[j]
        BY <1>1
      <4> QED BY <4>2, <4>3
    <3> QED BY <3>1, <3>2
  <2> QED BY <2>2, <2>3
<1> QED BY <1>1, <1>2, <1>4, <1>5, <1>6 DEF HeardInv

(* A coroutine moves on: nothing else of it changes.                       *)
LEMMA Moved ==
    ASSUME PyInv, NEW c \in PyCalls, NEW to, Moves(c, to)
    PROVE  /\ py' = [py EXCEPT ![c] = py'[c]]
           /\ py'[c] = [f \in {"pc", "runner", "has", "gave"} |-> py'[c][f]]
           /\ py'[c].pc = to /\ py'[c].runner = py[c].runner
           /\ py'[c].has = py[c].has /\ py'[c].gave = py[c].gave
<1> DEFINE new == [py[c] EXCEPT !.pc = to]
<1>1. py = [d \in PyCalls |-> py[d]] /\ py[c] = [f \in {"pc", "runner", "has", "gave"} |-> py[c][f]]
  BY DEF PyInv, ScriptInv, PyCallInv
<1>2. py' = [py EXCEPT ![c] = new]
  BY DEF Moves
<1>3. new = [f \in {"pc", "runner", "has", "gave"} |-> new[f]]
  BY <1>1
<1>4. new.pc = to /\ new.runner = py[c].runner /\ new.has = py[c].has /\ new.gave = py[c].gave
  BY <1>1
<1> HIDE DEF new
<1>5. py'[c] = new
  BY <1>1, <1>2
<1> QED BY <1>2, <1>3, <1>4, <1>5

(* Of a coroutine that ends without a result nothing is kept.              *)
LEMMA Ended ==
    ASSUME PyInv, NEW c \in PyCalls, NEW what, what # "tokens", Ends(c, what)
    PROVE  /\ py' = [py EXCEPT ![c] = py'[c]]
           /\ py'[c] = [f \in {"pc", "runner", "has", "gave"} |-> py'[c][f]]
           /\ py'[c].pc = "ended" /\ py'[c].gave = "nothing"
<1> DEFINE new == [pc |-> "ended", runner |-> 0, has |-> 0, gave |-> "nothing"]
<1>1. py = [d \in PyCalls |-> py[d]]
  BY DEF PyInv, ScriptInv
<1>2. py' = [py EXCEPT ![c] = new]
  BY DEF Ends
<1>3. /\ new = [f \in {"pc", "runner", "has", "gave"} |-> new[f]]
      /\ new.pc = "ended" /\ new.gave = "nothing"
  OBVIOUS
<1> HIDE DEF new
<1>4. py'[c] = new
  BY <1>1, <1>2
<1> QED BY <1>2, <1>3, <1>4

(* One coroutine steps: what the others know of the stream still holds.    *)
LEMMA OneSteps ==
    ASSUME PyInv, NEW c \in PyCalls, py' = [py EXCEPT ![c] = py'[c]], HeardInv', StreamInv', PyCallInv(c)',
           scripts' = scripts, registered' = registered,
           \A d \in PyCalls \ {c} : py[d].pc \in Starting \cup {"pulling"} =>
               tokens'.lock = tokens.lock /\ tokens'.state = tokens.state /\ heard' = heard,
           tokens.state # "none" => tokens'.state # "none",
           tokens.state \in {"active", "done"} => tokens'.state \in {"active", "done"}
    PROVE  PyInv'
<1>1. py = [d \in PyCalls |-> py[d]]
  BY DEF PyInv, ScriptInv
<1>2. \A d \in PyCalls \ {c} : py'[d] = py[d]
  BY <1>1
<1>3. ASSUME NEW d \in PyCalls \ {c} PROVE PyCallInv(d)'
  <2>1. PyCallInv(d) /\ py'[d] = py[d]
    BY <1>2 DEF PyInv
  <2> QED BY <2>1 DEF PyCallInv
<1>4. py' = [d \in PyCalls |-> py'[d]]
  BY <1>1
<1> QED BY <1>3, <1>4 DEF PyInv, ScriptInv

(* Execute, up to its result, does not touch the stream.                   *)
LEMMA ExecuteSteps ==
    ASSUME PyInv, NEW c \in PyCalls, py' = [py EXCEPT ![c] = py'[c]], PyCallInv(c)',
           UNCHANGED <<registered, scripts, tokens, heard>>,
           py[c].pc \in Starting => py'[c].pc \in Starting
    PROVE  PyInv'
<1>1. HeardInv'
  BY DEF PyInv, HeardInv
<1>2. py = [d \in PyCalls |-> py[d]]
  BY DEF PyInv, ScriptInv
<1>3. \A d \in PyCalls \ {c} : py'[d] = py[d]
  BY <1>2
<1>4. (\E d \in PyCalls : py[d].pc \in Starting) => \E d \in PyCalls : py'[d].pc \in Starting
  BY <1>3
<1>5. StreamInv'
  BY <1>4 DEF PyInv, StreamInv, Over
<1> QED BY <1>1, <1>5, OneSteps

(* Deploy adds a runner and changes none.                                  *)
LEMMA DeployKeeps ==
    ASSUME PyInv, NEW d \in PyDeployments, NEW fails \in 0..(Script(d) + 1), Deploy(d, fails)
    PROVE  PyInv'
<1> DEFINE R == [chunks : Nat, fails : Nat]
           new == [chunks |-> Script(d), fails |-> fails]
<1>1. Script(d) \in Nat
  BY PyAssumption DEF PyDeployments, Script
<1>2. new \in R
  BY <1>1
<1>3. scripts \in Seq(R) /\ scripts' = Append(scripts, new) /\ registered' = Len(scripts')
      /\ UNCHANGED <<tokens, py, heard>>
  BY DEF PyInv, ScriptInv, Deploy
<1> HIDE DEF new
<1>4. /\ scripts' \in Seq(R) /\ Len(scripts') = Len(scripts) + 1 /\ Len(scripts) \in Nat
      /\ DOMAIN scripts = 1 .. Len(scripts) /\ DOMAIN scripts' = 1 .. Len(scripts')
      /\ \A i \in 1 .. Len(scripts) : scripts'[i] = scripts[i]
  BY <1>2, <1>3, AppendProperties, LenProperties
<1>5. DOMAIN scripts \subseteq DOMAIN scripts' /\ \A i \in DOMAIN scripts : scripts'[i] = scripts[i]
  BY <1>4
<1>6. ScriptInv'
  BY <1>3, <1>4 DEF PyInv, ScriptInv
<1>7. ASSUME NEW c \in PyCalls PROVE PyCallInv(c)'
  BY <1>3, <1>5 DEF PyInv, PyCallInv
<1>8. tokens.state = "none" \/ scripts'[tokens.runner] = scripts[tokens.runner]
  BY <1>5 DEF PyInv, StreamInv
<1>9. HeardInv'
  <2>1. CASE tokens.state = "none"
    <3>1. heard = <<>>
      BY <2>1 DEF PyInv, StreamInv
    <3>2. DOMAIN heard = {}
      BY <3>1
    <3> QED BY <3>2, <1>3 DEF PyInv, HeardInv
  <2>2. CASE scripts'[tokens.runner] = scripts[tokens.runner]
    BY <2>2, <1>3 DEF PyInv, HeardInv
  <2> QED BY <2>1, <2>2, <1>8
<1>10. StreamInv'
  BY <1>3, <1>5, <1>8 DEF PyInv, StreamInv, Over
<1> QED BY <1>6, <1>7, <1>9, <1>10 DEF PyInv

(* The coroutine `execute`.                                                *)
LEMMA ExecuteKeeps ==
    ASSUME PyInv, NEW c \in PyCalls,
           Execute(c) \/ Locks(c, "queued", "executing") \/ ExecuteAnswers(c) \/ ExecuteDrains(c)
    PROVE  PyInv'
<1>c. PyCallInv(c)
  BY DEF PyInv
<1>u. UNCHANGED <<registered, scripts, tokens, heard>>
  BY DEF Execute, Locks, ExecuteAnswers, ExecuteDrains
<1>p. py[c].pc \in {"idle", "queued", "executing", "draining"}
  BY DEF Execute, Locks, ExecuteAnswers, ExecuteDrains
<1>g. py[c].gave # "tokens" /\ py[c].pc \notin Starting
  BY <1>c, <1>p DEF PyCallInv, Starting
<1>s. py = [d \in PyCalls |-> py[d]] /\ py[c] = [f \in {"pc", "runner", "has", "gave"} |-> py[c][f]]
  BY <1>c DEF PyInv, ScriptInv, PyCallInv
<1>1. ASSUME NEW what, what # "tokens", Ends(c, what) PROVE PyInv'
  <2>1. /\ py' = [py EXCEPT ![c] = py'[c]]
        /\ py'[c] = [f \in {"pc", "runner", "has", "gave"} |-> py'[c][f]]
        /\ py'[c].pc = "ended" /\ py'[c].gave = "nothing"
    BY <1>1, Ended
  <2>2. PyCallInv(c)'
    BY <2>1 DEF PyCallInv, Starting
  <2> QED BY <2>1, <2>2, <1>u, <1>g, ExecuteSteps
<1>2. ASSUME NEW to \in {"executing", "draining"}, Moves(c, to), py[c].pc \in {"queued", "executing"}
      PROVE  PyInv'
  <2>1. /\ py' = [py EXCEPT ![c] = py'[c]]
        /\ py'[c] = [f \in {"pc", "runner", "has", "gave"} |-> py'[c][f]]
        /\ py'[c].pc = to /\ py'[c].runner = py[c].runner /\ py'[c].gave = py[c].gave
    BY <1>2, Moved
  <2>2. PyCallInv(c)'
    BY <2>1, <1>2, <1>c, <1>g, <1>u DEF PyCallInv, Starting
  <2> QED BY <2>1, <2>2, <1>u, <1>g, ExecuteSteps
<1>3. CASE Execute(c)
  <2>1. CASE registered = 0
    BY <1>1, <1>3, <2>1 DEF Execute, BaseException
  <2>2. CASE registered # 0
    <3> DEFINE new == [py[c] EXCEPT !.pc = "queued", !.runner = registered]
    <3>1. py' = [py EXCEPT ![c] = new]
      BY <1>3, <2>2 DEF Execute
    <3>2. new = [f \in {"pc", "runner", "has", "gave"} |-> new[f]]
      BY <1>s
    <3>3. new.pc = "queued" /\ new.runner = registered /\ new.gave = py[c].gave
      BY <1>s
    <3> HIDE DEF new
    <3>4. py'[c] = new
      BY <1>s, <3>1
    <3>5. registered \in DOMAIN scripts
      BY <2>2, LenProperties DEF PyInv, ScriptInv
    <3>6. PyCallInv(c)'
      BY <3>2, <3>3, <3>4, <3>5, <1>u, <1>g DEF PyCallInv, Starting
    <3> QED BY <3>1, <3>4, <3>6, <1>u, <1>g, ExecuteSteps
  <2> QED BY <2>1, <2>2
<1>4. CASE Locks(c, "queued", "executing")
  BY <1>2, <1>4 DEF Locks
<1>5. CASE ExecuteAnswers(c)
  <2>1. CASE Ends(c, RunnerError)
    BY <1>1, <2>1 DEF RunnerError, PyException
  <2>2. CASE Moves(c, "draining")
    BY <1>2, <1>5, <2>2 DEF ExecuteAnswers
  <2> QED BY <1>5, <2>1, <2>2 DEF ExecuteAnswers
<1>6. CASE ExecuteDrains(c)
  <2>1. CASE Ends(c, RunnerError)
    BY <1>1, <2>1 DEF RunnerError, PyException
  <2>2. CASE py' = [py EXCEPT ![c].has = @ + 1]
    <3> DEFINE new == [py[c] EXCEPT !.has = @ + 1]
    <3>1. py' = [py EXCEPT ![c] = new]
      BY <2>2
    <3>2. new = [f \in {"pc", "runner", "has", "gave"} |-> new[f]]
      BY <1>s
    <3>3. new.pc = py[c].pc /\ new.runner = py[c].runner /\ new.gave = py[c].gave
      BY <1>s
    <3> HIDE DEF new
    <3>4. py'[c] = new
      BY <1>s, <3>1
    <3>5. py[c].pc = "draining"
      BY <1>6 DEF ExecuteDrains
    <3>6. PyCallInv(c)'
      BY <3>2, <3>3, <3>4, <3>5, <1>c, <1>u, <1>g DEF PyCallInv, Starting
    <3> QED BY <3>1, <3>4, <3>6, <1>u, <1>g, ExecuteSteps
  <2>3. CASE py[c].has = scripts[py[c].runner].chunks /\ Ends(c, "tokens")
    <3> DEFINE new == [py[c] EXCEPT !.pc = "ended", !.gave = "tokens"]
    <3>1. py' = [py EXCEPT ![c] = new]
      BY <2>3 DEF Ends
    <3>2. new = [f \in {"pc", "runner", "has", "gave"} |-> new[f]]
      BY <1>s
    <3>3. new.pc = "ended" /\ new.runner = py[c].runner /\ new.has = py[c].has
      BY <1>s
    <3> HIDE DEF new
    <3>4. py'[c] = new
      BY <1>s, <3>1
    <3>5. py[c].runner \in DOMAIN scripts
      BY <1>6, <1>c DEF ExecuteDrains, PyCallInv
    <3>6. PyCallInv(c)'
      BY <3>2, <3>3, <3>4, <3>5, <2>3, <1>u DEF PyCallInv, Starting
    <3> QED BY <3>1, <3>4, <3>6, <1>u, <1>g, ExecuteSteps
  <2> QED BY <1>6, <2>1, <2>2, <2>3 DEF ExecuteDrains
<1> QED BY <1>3, <1>4, <1>5, <1>6

(* Who is at the runner of the stream holds its lock, so there is one.     *)
LEMMA Alone ==
    ASSUME PyInv
    PROVE  /\ \A c, d \in PyCalls : py[c].pc \in Starting \cup {"pulling"} /\ py[d].pc \in Starting \cup {"pulling"}
                                      => c = d
           /\ tokens.lock = Free => \A c \in PyCalls : py[c].pc \notin Starting \cup {"pulling"}
<1>1. \A c \in PyCalls : py[c].pc \in Starting \cup {"pulling"} => tokens.lock = c
  BY DEF PyInv, PyCallInv
<1>2. Free \notin PyCalls
  BY PyAssumption DEF Free
<1> QED BY <1>1, <1>2

(* The stream is made, pending.                                            *)
LEMMA StreamBegins ==
    ASSUME PyInv, ExecuteStream
    PROVE  PyInv'
<1>t. tokens = [f \in {"state", "runner", "pulled", "lock"} |-> tokens[f]]
  BY DEF PyInv, StreamInv
<1> DEFINE new == [tokens EXCEPT !.state = "pending", !.runner = registered]
<1>1. tokens' = new /\ UNCHANGED <<registered, scripts, py, heard>> /\ tokens.state = "none"
  BY DEF ExecuteStream
<1>2. new = [f \in {"state", "runner", "pulled", "lock"} |-> new[f]]
  BY <1>t
<1>3. new.state = "pending" /\ new.runner = registered /\ new.pulled = tokens.pulled /\ new.lock = tokens.lock
  BY <1>t
<1> HIDE DEF new
<1>4. registered \in DOMAIN scripts
  BY LenProperties DEF PyInv, ScriptInv, ExecuteStream
<1>5. heard = <<>> /\ DOMAIN heard = {}
  BY <1>1 DEF PyInv, StreamInv
<1>6. HeardInv'
  BY <1>1, <1>3, <1>5 DEF PyInv, HeardInv
<1>7. StreamInv'
  BY <1>1, <1>2, <1>3, <1>4, <1>5 DEF StreamInv
<1>8. ASSUME NEW c \in PyCalls PROVE PyCallInv(c)'
  <2>1. PyCallInv(c)
    BY DEF PyInv
  <2> QED BY <1>1, <1>3, <2>1 DEF PyCallInv
<1> QED BY <1>1, <1>6, <1>7, <1>8 DEF PyInv, ScriptInv

(* A call of __anext__ is made, and one gets the lock of the runner.       *)
LEMMA StreamEntered ==
    ASSUME PyInv, NEW c \in PyCalls, Anext(c) \/ Locks(c, "starting", "answering")
    PROVE  PyInv'
<1>c. PyCallInv(c) /\ py = [d \in PyCalls |-> py[d]] /\ py[c] = [f \in {"pc", "runner", "has", "gave"} |-> py[c][f]]
  BY DEF PyInv, ScriptInv, PyCallInv
<1>u. UNCHANGED <<registered, scripts, tokens, heard>>
  BY DEF Anext, Locks
<1>1. CASE Anext(c)
  <2> DEFINE new == [py[c] EXCEPT !.pc = "first", !.runner = tokens.runner]
  <2>1. py' = [py EXCEPT ![c] = new] /\ py[c].pc = "idle" /\ tokens.state # "none"
    BY <1>1 DEF Anext
  <2>2. new = [f \in {"pc", "runner", "has", "gave"} |-> new[f]]
    BY <1>c
  <2>3. new.pc = "first" /\ new.gave = py[c].gave
    BY <1>c
  <2> HIDE DEF new
  <2>4. py'[c] = new
    BY <1>c, <2>1
  <2>5. PyCallInv(c)' /\ py[c].pc \notin Starting
    BY <2>1, <2>2, <2>3, <2>4, <1>c, <1>u DEF PyCallInv, Starting
  <2> QED BY <2>1, <2>4, <2>5, <1>u, ExecuteSteps
<1>2. CASE Locks(c, "starting", "answering")
  <2>1. /\ py' = [py EXCEPT ![c] = py'[c]]
        /\ py'[c] = [f \in {"pc", "runner", "has", "gave"} |-> py'[c][f]]
        /\ py'[c].pc = "answering" /\ py'[c].gave = py[c].gave
    BY <1>2, Moved DEF Locks
  <2>2. py[c].pc = "starting"
    BY <1>2 DEF Locks
  <2>3. PyCallInv(c)' /\ py'[c].pc \in Starting
    BY <2>1, <2>2, <1>c, <1>u DEF PyCallInv, Starting
  <2> QED BY <2>1, <2>3, <1>u, ExecuteSteps
<1> QED BY <1>1, <1>2

(* The first step: one that finds the stream pending starts it.            *)
LEMMA FirstStepKeeps ==
    ASSUME PyInv, NEW c \in PyCalls, FirstStep(c)
    PROVE  PyInv'
<1>c. PyCallInv(c) /\ py[c].pc = "first" /\ tokens.lock = Free /\ UNCHANGED <<registered, scripts, heard>>
  BY DEF PyInv, FirstStep
<1>1. CASE tokens.state = "pending"
  <2> DEFINE new == [tokens EXCEPT !.state = "done", !.lock = c]
  <2>t. tokens = [f \in {"state", "runner", "pulled", "lock"} |-> tokens[f]]
    BY DEF PyInv, StreamInv
  <2>1. tokens' = new /\ Moves(c, "starting")
    BY <1>1 DEF FirstStep
  <2>2. new = [f \in {"state", "runner", "pulled", "lock"} |-> new[f]]
    BY <2>t
  <2>3. new.state = "done" /\ new.lock = c /\ new.pulled = tokens.pulled /\ new.runner = tokens.runner
    BY <2>t
  <2> HIDE DEF new
  <2>4. /\ py' = [py EXCEPT ![c] = py'[c]]
        /\ py'[c] = [f \in {"pc", "runner", "has", "gave"} |-> py'[c][f]]
        /\ py'[c].pc = "starting" /\ py'[c].gave = py[c].gave
    BY <2>1, Moved
  <2>5. heard = <<>>
    BY <1>1 DEF PyInv, StreamInv
  <2>6. HeardInv'
    BY <2>1, <2>3, <1>c DEF PyInv, HeardInv
  <2>7. PyCallInv(c)'
    BY <2>1, <2>3, <2>4, <2>5, <1>c DEF PyCallInv, Starting
  <2>8. StreamInv'
    BY <2>1, <2>2, <2>3, <2>4, <1>1, <1>c DEF PyInv, StreamInv, Starting
  <2>9. \A d \in PyCalls : py[d].pc \notin Starting \cup {"pulling"}
    BY <1>c, Alone
  <2> QED BY <2>1, <2>3, <2>4, <2>6, <2>7, <2>8, <2>9, <1>1, <1>c, OneSteps
<1>2. CASE tokens.state # "pending"
  <2>1. tokens' = tokens /\ Moves(c, "second")
    BY <1>2 DEF FirstStep
  <2>2. /\ py' = [py EXCEPT ![c] = py'[c]]
        /\ py'[c] = [f \in {"pc", "runner", "has", "gave"} |-> py'[c][f]]
        /\ py'[c].pc = "second" /\ py'[c].gave = py[c].gave
    BY <2>1, Moved
  <2>3. tokens.state \in {"active", "done"}
    BY <1>2, <1>c DEF PyInv, StreamInv, PyCallInv
  <2>4. PyCallInv(c)' /\ py[c].pc \notin Starting
    BY <2>1, <2>2, <2>3, <1>c DEF PyCallInv, Starting
  <2> QED BY <2>1, <2>2, <2>4, <1>c, ExecuteSteps
<1> QED BY <1>1, <1>2

(* A call of __anext__ that has the runner to itself says one more thing.  *)
LEMMA Speaks ==
    ASSUME PyInv, NEW c \in PyCalls, NEW x \in Said, heard' = Append(heard, x), UNCHANGED <<registered, scripts>>,
           py' = [py EXCEPT ![c] = py'[c]], py'[c] = [f \in {"pc", "runner", "has", "gave"} |-> py'[c][f]],
           py'[c].pc = "ended", py'[c].gave = "nothing",
           \A d \in PyCalls \ {c} : py[d].pc \notin Starting \cup {"pulling"},
           tokens' = [f \in {"state", "runner", "pulled", "lock"} |-> tokens'[f]],
           tokens'.runner = tokens.runner,
           tokens'.pulled = IF x = "chunk" THEN tokens.pulled + 1 ELSE tokens.pulled,
           tokens'.state = IF x = "chunk" THEN "active" ELSE "done",
           tokens.state \in {"active", "done"}, x = "chunk" => tokens.state = "active",
           (x = "stop" /\ Over) \/ (x # "stop" /\ \A i \in DOMAIN heard : heard[i] = "chunk")
    PROVE  PyInv'
<1>1. HeardInv' /\ (x # "chunk" => Over')
  BY OneMoreSaid DEF PyInv
<1>2. PyCallInv(c)'
  BY DEF PyCallInv, Starting
<1>3. x = "chunk" => \A i \in DOMAIN heard' : heard'[i] = "chunk"
  <2>1. heard \in Seq(Said)
    BY DEF PyInv, HeardInv
  <2>2. /\ Len(heard) \in Nat /\ DOMAIN heard = 1 .. Len(heard)
        /\ DOMAIN heard' = 1 .. (Len(heard) + 1) /\ heard'[Len(heard) + 1] = x
        /\ \A i \in 1 .. Len(heard) : heard'[i] = heard[i]
    BY <2>1, AppendProperties, LenProperties
  <2> QED BY <2>2
<1>4. StreamInv'
  <2>1. tokens.runner \in DOMAIN scripts
    BY DEF PyInv, StreamInv
  <2> QED BY <1>1, <1>3, <2>1 DEF StreamInv
<1> QED BY <1>1, <1>2, <1>4, OneSteps

(* The runner has answered.                                                *)
LEMMA StreamAnswersKeeps ==
    ASSUME PyInv, NEW c \in PyCalls, StreamAnswers(c)
    PROVE  PyInv'
<1>c. /\ PyCallInv(c) /\ py[c].pc = "answering" /\ UNCHANGED <<registered, scripts>>
      /\ tokens.state = "done" /\ heard = <<>> /\ tokens.lock = c
  BY DEF PyInv, PyCallInv, StreamAnswers, Starting
<1>t. tokens = [f \in {"state", "runner", "pulled", "lock"} |-> tokens[f]]
  BY DEF PyInv, StreamInv
<1>a. \A d \in PyCalls \ {c} : py[d].pc \notin Starting \cup {"pulling"}
  BY <1>c, Alone DEF Starting
<1>1. CASE scripts[py[c].runner].fails = 0
  <2> DEFINE new == [tokens EXCEPT !.lock = Free]
  <2>1. tokens' = new /\ Ends(c, RunnerError) /\ heard' = Append(heard, RunnerError)
    BY <1>1 DEF StreamAnswers
  <2>2. new = [f \in {"state", "runner", "pulled", "lock"} |-> new[f]]
    BY <1>t
  <2>3. new.state = tokens.state /\ new.pulled = tokens.pulled /\ new.runner = tokens.runner
    BY <1>t
  <2> HIDE DEF new
  <2>4. RunnerError \in Said /\ RunnerError \notin {"chunk", "stop", "tokens"}
    BY DEF Said, RunnerError, PyException
  <2>5. DOMAIN heard = {}
    BY <1>c
  <2>6. /\ py' = [py EXCEPT ![c] = py'[c]]
        /\ py'[c] = [f \in {"pc", "runner", "has", "gave"} |-> py'[c][f]]
        /\ py'[c].pc = "ended" /\ py'[c].gave = "nothing"
    BY <2>1, <2>4, Ended
  <2> QED BY <2>1, <2>2, <2>3, <2>4, <2>5, <2>6, <1>c, <1>a, Speaks
<1>2. CASE scripts[py[c].runner].fails # 0
  <2> DEFINE new == [tokens EXCEPT !.lock = Free, !.state = "active"]
  <2>1. tokens' = new /\ Moves(c, "second") /\ heard' = heard
    BY <1>2 DEF StreamAnswers
  <2>2. new = [f \in {"state", "runner", "pulled", "lock"} |-> new[f]]
    BY <1>t
  <2>3. new.state = "active" /\ new.pulled = tokens.pulled /\ new.runner = tokens.runner
    BY <1>t
  <2> HIDE DEF new
  <2>4. DOMAIN heard = {}
    BY <1>c
  <2>5. /\ py' = [py EXCEPT ![c] = py'[c]]
        /\ py'[c] = [f \in {"pc", "runner", "has", "gave"} |-> py'[c][f]]
        /\ py'[c].pc = "second" /\ py'[c].gave = py[c].gave
    BY <2>1, Moved
  <2>6. HeardInv'
    BY <2>1, <2>3, <1>c DEF PyInv, HeardInv
  <2>7. StreamInv'
    BY <2>1, <2>2, <2>3, <2>4, <1>c DEF PyInv, StreamInv
  <2>8. PyCallInv(c)'
    BY <2>1, <2>3, <2>5, <1>c DEF PyCallInv, Starting
  <2> QED BY <2>1, <2>3, <2>5, <2>6, <2>7, <2>8, <1>a, <1>c, OneSteps
<1> QED BY <1>1, <1>2

(* The second step: pull from a stream that is active, stop otherwise.     *)
LEMMA SecondStepKeeps ==
    ASSUME PyInv, NEW c \in PyCalls, SecondStep(c)
    PROVE  PyInv'
<1>c. /\ PyCallInv(c) /\ py[c].pc = "second" /\ UNCHANGED <<registered, scripts>>
      /\ tokens.state \in {"active", "done"} /\ tokens.lock = Free
  BY DEF PyInv, PyCallInv, SecondStep
<1>t. tokens = [f \in {"state", "runner", "pulled", "lock"} |-> tokens[f]]
  BY DEF PyInv, StreamInv
<1>a. \A d \in PyCalls : py[d].pc \notin Starting \cup {"pulling"}
  BY <1>c, Alone
<1>1. CASE tokens.state = "active"
  <2> DEFINE new == [tokens EXCEPT !.lock = c]
  <2>1. tokens' = new /\ Moves(c, "pulling") /\ heard' = heard
    BY <1>1 DEF SecondStep
  <2>2. new = [f \in {"state", "runner", "pulled", "lock"} |-> new[f]]
    BY <1>t
  <2>3. new.state = tokens.state /\ new.lock = c /\ new.pulled = tokens.pulled /\ new.runner = tokens.runner
    BY <1>t
  <2> HIDE DEF new
  <2>4. /\ py' = [py EXCEPT ![c] = py'[c]]
        /\ py'[c] = [f \in {"pc", "runner", "has", "gave"} |-> py'[c][f]]
        /\ py'[c].pc = "pulling" /\ py'[c].gave = py[c].gave
    BY <2>1, Moved
  <2>5. HeardInv'
    BY <2>1, <2>3, <1>c DEF PyInv, HeardInv
  <2>6. StreamInv'
    BY <2>1, <2>2, <2>3, <1>1, <1>c DEF PyInv, StreamInv
  <2>7. PyCallInv(c)'
    BY <2>1, <2>3, <2>4, <1>1, <1>c DEF PyCallInv, Starting
  <2> QED BY <2>1, <2>3, <2>4, <2>5, <2>6, <2>7, <1>a, <1>c, OneSteps
<1>2. CASE tokens.state = "done"
  <2>1. tokens' = tokens /\ Ends(c, "stop") /\ heard' = Append(heard, "stop")
    BY <1>2 DEF SecondStep
  <2>2. Over
    BY <1>2, <1>a DEF PyInv, StreamInv
  <2>3. /\ py' = [py EXCEPT ![c] = py'[c]]
        /\ py'[c] = [f \in {"pc", "runner", "has", "gave"} |-> py'[c][f]]
        /\ py'[c].pc = "ended" /\ py'[c].gave = "nothing"
    BY <2>1, Ended
  <2>4. "stop" \in Said
    BY DEF Said
  <2> QED BY <2>1, <2>2, <2>3, <2>4, <1>2, <1>a, <1>c, <1>t, Speaks
<1> QED BY <1>1, <1>2, <1>c

(* A pull: a chunk, the end or the failure.                                *)
LEMMA PullKeeps ==
    ASSUME PyInv, NEW c \in PyCalls, Pull(c)
    PROVE  PyInv'
<1>c. /\ PyCallInv(c) /\ py[c].pc = "pulling" /\ UNCHANGED <<registered, scripts>>
      /\ tokens.state = "active" /\ tokens.lock = c
  BY DEF PyInv, PyCallInv, Pull
<1>t. tokens = [f \in {"state", "runner", "pulled", "lock"} |-> tokens[f]]
  BY DEF PyInv, StreamInv
<1>a. \A d \in PyCalls \ {c} : py[d].pc \notin Starting \cup {"pulling"}
  BY <1>c, Alone
<1>h. \A i \in DOMAIN heard : heard[i] = "chunk"
  BY <1>c DEF PyInv, StreamInv
<1>r. RunnerError \in Said /\ RunnerError \notin {"chunk", "stop", "tokens"} /\ "chunk" \in Said /\ "stop" \in Said
  BY DEF Said, RunnerError, PyException
<1>1. PICK what \in {"stop", RunnerError, "chunk"} :
         /\ Ends(c, what) /\ heard' = Append(heard, what)
         /\ tokens' = IF what = "chunk" THEN [tokens EXCEPT !.lock = Free, !.pulled = @ + 1]
                      ELSE [tokens EXCEPT !.lock = Free, !.state = "done"]
         /\ what = "stop" => tokens.pulled = scripts[tokens.runner].chunks
  <2> DEFINE script == scripts[tokens.runner]
             what == CASE tokens.pulled = script.chunks -> "stop"
                       [] tokens.pulled + 1 = script.fails -> RunnerError
                       [] OTHER -> "chunk"
  <2>1. /\ Ends(c, what) /\ heard' = Append(heard, what)
        /\ tokens' = IF what = "chunk" THEN [tokens EXCEPT !.lock = Free, !.pulled = @ + 1]
                     ELSE [tokens EXCEPT !.lock = Free, !.state = "done"]
    BY Zenon DEF Pull
  <2>2. what \in {"stop", RunnerError, "chunk"} /\ (what = "stop" => tokens.pulled = script.chunks)
    BY <1>r
  <2> QED BY <2>1, <2>2
<1>2. /\ py' = [py EXCEPT ![c] = py'[c]]
      /\ py'[c] = [f \in {"pc", "runner", "has", "gave"} |-> py'[c][f]]
      /\ py'[c].pc = "ended" /\ py'[c].gave = "nothing"
  BY <1>1, <1>r, Ended
<1>3. tokens' = [f \in {"state", "runner", "pulled", "lock"} |-> tokens'[f]]
  BY <1>1, <1>t
<1>4. /\ tokens'.runner = tokens.runner
      /\ tokens'.pulled = IF what = "chunk" THEN tokens.pulled + 1 ELSE tokens.pulled
      /\ tokens'.state = IF what = "chunk" THEN "active" ELSE "done"
  BY <1>1, <1>t, <1>c
<1>5. what \in Said /\ (what = "stop" => Over)
  BY <1>1, <1>r DEF Over
<1> QED BY <1>1, <1>2, <1>3, <1>4, <1>5, <1>a, <1>c, <1>h, Speaks

(* A coroutine is cancelled, wherever it awaits.                           *)
LEMMA CancelKeeps ==
    ASSUME PyInv, NEW c \in PyCalls, CancelCall(c)
    PROVE  PyInv'
<1>t. tokens = [f \in {"state", "runner", "pulled", "lock"} |-> tokens[f]]
  BY DEF PyInv, StreamInv
<1>e. /\ py' = [py EXCEPT ![c] = py'[c]]
      /\ py'[c] = [f \in {"pc", "runner", "has", "gave"} |-> py'[c][f]]
      /\ py'[c].pc = "ended" /\ py'[c].gave = "nothing"
  BY Ended DEF CancelCall
<1>n. /\ tokens' = IF tokens.lock = c THEN [tokens EXCEPT !.lock = Free] ELSE tokens
      /\ UNCHANGED <<registered, scripts>> /\ PyCallInv(c)
  BY DEF CancelCall, PyInv
<1>s. tokens' = [f \in {"state", "runner", "pulled", "lock"} |-> tokens'[f]]
  BY <1>n, <1>t
<1>f. /\ tokens'.runner = tokens.runner /\ tokens'.pulled = tokens.pulled /\ tokens'.state = tokens.state
      /\ tokens.lock # c => tokens'.lock = tokens.lock
  BY <1>n, <1>t
<1>1. CASE py[c].pc \in Starting
  <2>1. heard' = Append(heard, "abandoned") /\ heard = <<>> /\ tokens.state = "done"
    BY <1>1, <1>n DEF CancelCall, Starting, PyCallInv
  <2>2. \A d \in PyCalls \ {c} : py[d].pc \notin Starting \cup {"pulling"}
    BY <1>1, Alone
  <2>3. DOMAIN heard = {} /\ "abandoned" \in Said
    BY <2>1 DEF Said
  <2> QED BY <1>e, <1>n, <1>s, <1>f, <2>1, <2>2, <2>3, Speaks
<1>2. CASE py[c].pc \notin Starting
  <2>1. heard' = heard
    BY <1>2 DEF CancelCall, Starting
  <2>2. \A d \in PyCalls \ {c} : py[d].pc \in Starting \cup {"pulling"} => tokens.lock # c
    BY DEF PyInv, PyCallInv
  <2>3. HeardInv'
    BY <2>1, <1>n, <1>f DEF PyInv, HeardInv
  <2>4. \A d \in PyCalls \ {c} : py'[d] = py[d]
    BY <1>e DEF PyInv, ScriptInv
  <2>5. (\E d \in PyCalls : py[d].pc \in Starting) => \E d \in PyCalls : py'[d].pc \in Starting
    BY <2>4, <1>2
  <2>6. StreamInv'
    BY <2>1, <2>5, <1>n, <1>s, <1>f DEF PyInv, StreamInv, Over
  <2>7. PyCallInv(c)'
    BY <1>e DEF PyCallInv, Starting
  <2> QED BY <2>1, <2>2, <2>3, <2>6, <2>7, <1>e, <1>f, <1>n, OneSteps
<1> QED BY <1>1, <1>2

(***************************************************************************)
(* Whatever is deployed, called and cancelled, by any number of            *)
(* coroutines: the TokenStream gives each chunk once, and stops only when  *)
(* it has given all, has raised the failure, or had the call that was      *)
(* starting it cancelled (what is left of that stream is lost, and later   *)
(* calls are told to stop, not why); and an execute returns all of its     *)
(* runner's chunks (cluster.rs of inference-py-bindings).                  *)
(***************************************************************************)
THEOREM PythonWhole == FrontSpec => []PyResultsWhole
<1>1. FrontInit => PyInv
  <2> SUFFICES ASSUME PyInit PROVE PyInv
    BY DEF FrontInit
  <2>1. heard = <<>> /\ scripts = <<>> /\ registered = 0
    BY DEF PyInit
  <2>2. /\ tokens.state = "none" /\ tokens.pulled = 0
        /\ tokens = [f \in {"state", "runner", "pulled", "lock"} |-> tokens[f]]
    BY DEF PyInit
  <2>3. \A c \in PyCalls : /\ py[c].pc = "idle" /\ py[c].gave = "nothing"
                           /\ py[c] = [f \in {"pc", "runner", "has", "gave"} |-> py[c][f]]
    BY DEF PyInit
  <2>4. py = [c \in PyCalls |-> py[c]]
    BY DEF PyInit
  <2>5. HeardInv
    <3>1. "chunk" \in Said /\ <<>> \in Seq(Said)
      BY DEF Said
    <3>2. Count(<<>>, {"chunk"}) = 0
      BY CountEmpty
    <3> QED BY <2>1, <2>2, <3>1, <3>2 DEF HeardInv
  <2>6. StreamInv
    BY <2>1, <2>2 DEF StreamInv
  <2>7. ScriptInv
    BY <2>1, <2>4 DEF ScriptInv
  <2>8. \A c \in PyCalls : PyCallInv(c)
    BY <2>3 DEF PyCallInv, Starting
  <2> QED BY <2>5, <2>6, <2>7, <2>8 DEF PyInv
<1>2. PyInv /\ [FrontNext]_frontVars => PyInv'
  <2> SUFFICES ASSUME PyInv, [FrontNext]_frontVars PROVE PyInv'
    OBVIOUS
  <2>1. CASE UNCHANGED pyVars
    BY <2>1 DEF pyVars, PyInv, HeardInv, StreamInv, ScriptInv, PyCallInv, Over
  <2>2. CASE PyNext
    BY <2>2, DeployKeeps, StreamBegins, ExecuteKeeps, StreamEntered, FirstStepKeeps, StreamAnswersKeeps,
       SecondStepKeeps, PullKeeps, CancelKeeps DEF PyNext, Coroutine
  <2> QED BY <2>1, <2>2 DEF FrontNext, frontVars
<1>3. PyInv => PyResultsWhole
  <2> SUFFICES ASSUME PyInv PROVE PyResultsWhole
    OBVIOUS
  <2>1. Cardinality({i \in DOMAIN heard : heard[i] = "chunk"}) = tokens.pulled
    <3>1. {i \in DOMAIN heard : heard[i] = "chunk"} = {i \in DOMAIN heard : heard[i] \in {"chunk"}}
      OBVIOUS
    <3> QED BY <3>1 DEF PyInv, HeardInv, Count
  <2> QED BY <2>1 DEF PyInv, HeardInv, PyCallInv, PyResultsWhole
<1> QED BY <1>1, <1>2, <1>3, PTL DEF FrontSpec

-----------------------------------------------------------------------------
(***************************************************************************)
(* What a RequestActor has sent and reported.  Until it stops it has sent  *)
(* chunks that end nothing, so that whatever it sends next is well formed. *)
(***************************************************************************)
Items == {"Ok", "Final", "Err"}

ReplyInv(r) ==
    /\ done[r] \in {0, 1} /\ (done[r] = 1 <=> pc[r] = "stopped")
    /\ asks[r] \in {0, 1} /\ (~dispatched[r] => asks[r] = 0)
    /\ output[r] \in Seq(Items) /\ accumulator[r] \in Nat
    /\ Count(output[r], {"Ok", "Final"}) <= accumulator[r]
    /\ ~gone[r] => Count(output[r], {"Ok", "Final"}) = accumulator[r]
    /\ \A i \in 1 .. Len(output[r]) - 1 : output[r][i] = "Ok"
    /\ pc[r] # "stopped" => \A i \in DOMAIN output[r] : output[r][i] = "Ok"

RepliesInv ==
    /\ \A r \in Requests : ReplyInv(r)
    /\ pc = [r \in Requests |-> pc[r]] /\ dispatched = [r \in Requests |-> dispatched[r]]
    /\ done = [r \in Requests |-> done[r]] /\ asks = [r \in Requests |-> asks[r]]
    /\ output = [r \in Requests |-> output[r]] /\ accumulator = [r \in Requests |-> accumulator[r]]
    /\ gone = [r \in Requests |-> gone[r]]

(* One actor sends an item.                                                *)
LEMMA ItemSent ==
    ASSUME NEW s \in Seq(Items), \A i \in DOMAIN s : s[i] = "Ok", NEW x \in Items
    PROVE  /\ Append(s, x) \in Seq(Items)
           /\ \A i \in 1 .. Len(Append(s, x)) - 1 : Append(s, x)[i] = "Ok"
           /\ x = "Ok" => \A i \in DOMAIN Append(s, x) : Append(s, x)[i] = "Ok"
           /\ Count(Append(s, x), {"Ok", "Final"}) =
                 IF x = "Err" THEN Count(s, {"Ok", "Final"}) ELSE Count(s, {"Ok", "Final"}) + 1
<1> DEFINE t == Append(s, x)
<1>1. /\ Len(s) \in Nat /\ DOMAIN s = 1 .. Len(s) /\ t \in Seq(Items) /\ Len(t) = Len(s) + 1
      /\ DOMAIN t = 1 .. Len(s) + 1 /\ t[Len(s) + 1] = x /\ \A i \in 1 .. Len(s) : t[i] = s[i]
  BY AppendProperties, LenProperties
<1>2. Count(t, {"Ok", "Final"}) = IF x \in {"Ok", "Final"} THEN Count(s, {"Ok", "Final"}) + 1
                                  ELSE Count(s, {"Ok", "Final"})
  BY CountAppend
<1> HIDE DEF t
<1>3. Count(t, {"Ok", "Final"}) = IF x = "Err" THEN Count(s, {"Ok", "Final"}) ELSE Count(s, {"Ok", "Final"}) + 1
  BY <1>2 DEF Items
<1>4. \A i \in 1 .. Len(t) - 1 : t[i] = "Ok"
  BY <1>1
<1>5. x = "Ok" => \A i \in DOMAIN t : t[i] = "Ok"
  BY <1>1
<1> QED BY <1>1, <1>3, <1>4, <1>5 DEF t

(* Whatever an actor does, its reply stays well formed, and the replies of *)
(* the others are left alone.                                              *)
LEMMA RequestReplies ==
    ASSUME RepliesInv, NEW q \in Requests, RequestNext(q)
    PROVE  RepliesInv'
<1>q. ReplyInv(q)
  BY DEF RepliesInv
<1>t. /\ pc = [r \in Requests |-> pc[r]] /\ dispatched = [r \in Requests |-> dispatched[r]]
      /\ done = [r \in Requests |-> done[r]] /\ asks = [r \in Requests |-> asks[r]]
      /\ output = [r \in Requests |-> output[r]] /\ accumulator = [r \in Requests |-> accumulator[r]]
      /\ gone = [r \in Requests |-> gone[r]]
  BY DEF RepliesInv
<1>0. ASSUME ReplyInv(q)',
             pc' = [pc EXCEPT ![q] = pc'[q]], dispatched' = [dispatched EXCEPT ![q] = dispatched'[q]],
             done' = [done EXCEPT ![q] = done'[q]], asks' = [asks EXCEPT ![q] = asks'[q]],
             output' = [output EXCEPT ![q] = output'[q]], accumulator' = [accumulator EXCEPT ![q] = accumulator'[q]],
             gone' = gone
      PROVE  RepliesInv'
  <2>1. ASSUME NEW r \in Requests, r # q PROVE ReplyInv(r)'
    <3>1. /\ pc'[r] = pc[r] /\ dispatched'[r] = dispatched[r] /\ done'[r] = done[r] /\ asks'[r] = asks[r]
          /\ output'[r] = output[r] /\ accumulator'[r] = accumulator[r] /\ gone'[r] = gone[r]
      BY <1>0, <1>t, <2>1
    <3>2. ReplyInv(r)
      BY DEF RepliesInv
    <3> QED BY <3>1, <3>2 DEF ReplyInv
  <2>2. /\ pc' = [r \in Requests |-> pc'[r]] /\ dispatched' = [r \in Requests |-> dispatched'[r]]
        /\ done' = [r \in Requests |-> done'[r]] /\ asks' = [r \in Requests |-> asks'[r]]
    BY <1>0, <1>t
  <2>3. /\ output' = [r \in Requests |-> output'[r]] /\ accumulator' = [r \in Requests |-> accumulator'[r]]
        /\ gone' = [r \in Requests |-> gone'[r]]
    BY <1>0, <1>t
  <2>4. \A r \in Requests : ReplyInv(r)'
    BY <2>1, <1>0
  <2> QED BY <2>2, <2>3, <2>4 DEF RepliesInv
<1>s. ASSUME NEW x \in Items, pc[q] # "stopped", Send(q, x)
      PROVE  /\ output' = [output EXCEPT ![q] = output'[q]] /\ output'[q] \in Seq(Items)
             /\ \A i \in 1 .. Len(output'[q]) - 1 : output'[q][i] = "Ok"
             /\ x = "Ok" => \A i \in DOMAIN output'[q] : output'[q][i] = "Ok"
             /\ Count(output'[q], {"Ok", "Final"}) <= IF x = "Err" THEN accumulator[q] ELSE accumulator[q] + 1
             /\ ~gone[q] => Count(output'[q], {"Ok", "Final"}) =
                               IF x = "Err" THEN accumulator[q] ELSE accumulator[q] + 1
  <2>2. output[q] \in Seq(Items) /\ \A i \in DOMAIN output[q] : output[q][i] = "Ok"
    BY <1>q, <1>s DEF ReplyInv
  <2>3. Count(output[q], {"Ok", "Final"}) \in Nat
    BY <2>2, CountAppend
  <2>4. CASE gone[q]
    <3>1. output' = output
      BY <1>s, <2>4 DEF Send
    <3> QED BY <3>1, <2>2, <2>3, <2>4, <1>q, <1>t DEF ReplyInv
  <2>5. CASE ~gone[q]
    <3>1. output' = [output EXCEPT ![q] = Append(@, x)]
      BY <1>s, <2>5 DEF Send
    <3>2. output'[q] = Append(output[q], x)
      BY <3>1, <1>t
    <3>3. output' = [output EXCEPT ![q] = output'[q]]
      BY <3>1, <3>2, <1>t
    <3>4. /\ output'[q] \in Seq(Items)
          /\ \A i \in 1 .. Len(output'[q]) - 1 : output'[q][i] = "Ok"
          /\ x = "Ok" => \A i \in DOMAIN output'[q] : output'[q][i] = "Ok"
          /\ Count(output'[q], {"Ok", "Final"}) = IF x = "Err" THEN Count(output[q], {"Ok", "Final"})
                                                  ELSE Count(output[q], {"Ok", "Final"}) + 1
      BY <3>2, <2>2, ItemSent
    <3>5. Count(output[q], {"Ok", "Final"}) = accumulator[q] /\ accumulator[q] \in Nat
      BY <2>5, <1>q DEF ReplyInv
    <3> QED BY <3>3, <3>4, <3>5
  <2> QED BY <2>4, <2>5
<1>1. CASE Answer(q) \/ \E msg \in Messages : Tell(q, msg)
  <2>1. UNCHANGED <<pc, dispatched, accumulator, done, output, gone, asks>>
    BY <1>1 DEF Answer, Tell
  <2> QED BY <2>1 DEF RepliesInv, ReplyInv
<1>l. CASE ClientLeaves(q)
  <2>1. /\ UNCHANGED <<pc, dispatched, accumulator, done, output, asks>>
        /\ gone' = [gone EXCEPT ![q] = TRUE]
    BY <1>l DEF ClientLeaves
  <2>2. gone' = [r \in Requests |-> gone'[r]] /\ \A r \in Requests : gone[r] => gone'[r]
    BY <2>1, <1>t
  <2>3. ASSUME NEW r \in Requests PROVE ReplyInv(r)'
    <3>1. ReplyInv(r)
      BY DEF RepliesInv
    <3> QED BY <2>1, <2>2, <3>1 DEF ReplyInv
  <2> QED BY <2>1, <2>2, <2>3 DEF RepliesInv
<1>2. CASE Dispatch(q)
  <2>1. UNCHANGED <<accumulator, done, output, gone>> /\ pc[q] = "ready"
    BY <1>2 DEF Dispatch, Take
  <2>2. CASE dispatched[q]
    <3>1. UNCHANGED <<pc, dispatched, accumulator, done, output, gone, asks>>
      BY <1>2, <2>1, <2>2 DEF Dispatch
    <3> QED BY <3>1 DEF RepliesInv, ReplyInv
  <2>3. CASE ~dispatched[q]
    <3>1. /\ pc' = [pc EXCEPT ![q] = "asking"] /\ dispatched' = [dispatched EXCEPT ![q] = TRUE]
          /\ asks' = [asks EXCEPT ![q] = @ + 1]
      BY <1>2, <2>3 DEF Dispatch
    <3>2. pc'[q] = "asking" /\ dispatched'[q] = TRUE /\ asks'[q] = asks[q] + 1
      BY <3>1, <1>t
    <3>3. ReplyInv(q)'
      BY <2>1, <2>3, <3>2, <1>q DEF ReplyInv
    <3>4. output' = [output EXCEPT ![q] = output'[q]] /\ accumulator' = [accumulator EXCEPT ![q] = accumulator'[q]]
      BY <2>1, <1>t
    <3>5. done' = [done EXCEPT ![q] = done'[q]]
      BY <2>1, <1>t
    <3> QED BY <2>1, <3>1, <3>2, <3>3, <3>4, <3>5, <1>0
  <2> QED BY <2>2, <2>3
<1>3. CASE Routed(q)
  <2>1. /\ UNCHANGED <<dispatched, accumulator, done, output, gone, asks>>
        /\ pc[q] = "asking" /\ pc' = [pc EXCEPT ![q] = "ready"]
    BY <1>3 DEF Routed
  <2>2. pc'[q] = "ready"
    BY <2>1, <1>t
  <2>3. ReplyInv(q)'
    BY <2>1, <2>2, <1>q DEF ReplyInv
  <2>4. output' = [output EXCEPT ![q] = output'[q]] /\ accumulator' = [accumulator EXCEPT ![q] = accumulator'[q]]
    BY <2>1, <1>t
  <2>5. /\ done' = [done EXCEPT ![q] = done'[q]] /\ asks' = [asks EXCEPT ![q] = asks'[q]]
        /\ dispatched' = [dispatched EXCEPT ![q] = dispatched'[q]]
    BY <2>1, <1>t
  <2> QED BY <2>1, <2>2, <2>3, <2>4, <2>5, <1>0
<1>f. ASSUME Finish(q), pc[q] # "stopped"
      PROVE  /\ done'[q] = 1 /\ pc'[q] = "stopped"
             /\ pc' = [pc EXCEPT ![q] = pc'[q]] /\ done' = [done EXCEPT ![q] = done'[q]]
  <2>1. done[q] = 0
    BY <1>f, <1>q DEF ReplyInv
  <2>2. pc' = [pc EXCEPT ![q] = "stopped"] /\ done' = [done EXCEPT ![q] = 1]
    BY <1>f, <2>1, <1>t DEF Finish
  <2> QED BY <2>2, <1>t
<1>4. CASE RouteFails(q)
  <2>1. /\ UNCHANGED <<dispatched, accumulator, gone, asks>> /\ pc[q] # "stopped" /\ Finish(q)
        /\ Send(q, "Err")
    BY <1>4 DEF RouteFails
  <2>2. "Err" \in Items
    BY DEF Items
  <2>3. ReplyInv(q)'
    BY <2>1, <2>2, <1>f, <1>s, <1>q DEF ReplyInv
  <2>4. output' = [output EXCEPT ![q] = output'[q]]
    BY <2>1, <2>2, <1>s
  <2>5. /\ accumulator' = [accumulator EXCEPT ![q] = accumulator'[q]] /\ asks' = [asks EXCEPT ![q] = asks'[q]]
        /\ dispatched' = [dispatched EXCEPT ![q] = dispatched'[q]]
    BY <2>1, <1>t
  <2> QED BY <2>1, <2>3, <2>4, <2>5, <1>f, <1>0
<1>5. CASE Cancel(q)
  <2>1. UNCHANGED <<dispatched, accumulator, asks, output, gone>> /\ pc[q] # "stopped" /\ Finish(q)
    BY <1>5 DEF Cancel, Take
  <2>2. ReplyInv(q)'
    BY <2>1, <1>f, <1>q DEF ReplyInv
  <2>3. output' = [output EXCEPT ![q] = output'[q]]
    BY <2>1, <1>t
  <2>4. /\ accumulator' = [accumulator EXCEPT ![q] = accumulator'[q]] /\ asks' = [asks EXCEPT ![q] = asks'[q]]
        /\ dispatched' = [dispatched EXCEPT ![q] = dispatched'[q]]
    BY <2>1, <1>t
  <2> QED BY <2>1, <2>2, <2>3, <2>4, <1>f, <1>0
<1>6. ASSUME NEW item \in Items, Chunk(q, item) PROVE RepliesInv'
  <2>1. /\ UNCHANGED <<dispatched, asks, gone>> /\ pc[q] # "stopped" /\ Send(q, item)
        /\ accumulator' = [accumulator EXCEPT ![q] = IF item = "Err" THEN @ ELSE @ + 1]
    BY <1>6 DEF Chunk, Take
  <2>2. accumulator'[q] = IF item = "Err" THEN accumulator[q] ELSE accumulator[q] + 1
    BY <2>1, <1>t
  <2>3. /\ output' = [output EXCEPT ![q] = output'[q]] /\ accumulator' = [accumulator EXCEPT ![q] = accumulator'[q]]
    BY <2>1, <1>s, <1>t
  <2>4. asks' = [asks EXCEPT ![q] = asks'[q]] /\ dispatched' = [dispatched EXCEPT ![q] = dispatched'[q]]
    BY <2>1, <1>t
  <2>5. CASE Finish(q)
    <3>1. ReplyInv(q)'
      BY <2>1, <2>2, <2>5, <1>f, <1>s, <1>q DEF ReplyInv
    <3> QED BY <3>1, <2>1, <2>3, <2>4, <2>5, <1>f, <1>0
  <2>6. CASE item = "Ok" /\ UNCHANGED <<done, pc>>
    <3>0. /\ accumulator[q] \in Nat /\ accumulator'[q] = accumulator[q] + 1
          /\ Count(output'[q], {"Ok", "Final"}) <= accumulator'[q]
          /\ ~gone[q] => Count(output'[q], {"Ok", "Final"}) = accumulator'[q]
      BY <2>1, <2>2, <2>6, <1>s, <1>q DEF ReplyInv
    <3>1. ReplyInv(q)'
      BY <2>1, <2>6, <3>0, <1>s, <1>q DEF ReplyInv
    <3>2. pc' = [pc EXCEPT ![q] = pc'[q]] /\ done' = [done EXCEPT ![q] = done'[q]]
      BY <2>6, <1>t
    <3> QED BY <3>1, <3>2, <2>1, <2>3, <2>4, <1>0
  <2> QED BY <2>5, <2>6, <1>6 DEF Chunk, Items
<1> QED BY <1>1, <1>l, <1>2, <1>3, <1>4, <1>5, <1>6 DEF RequestNext, Handle, Items

(***************************************************************************)
(* What a socket has been sent: an echo for each text frame on the         *)
(* realtime route, and at the end the tail of its route.                   *)
(***************************************************************************)
FrameKinds == {"text", "binary"}

Echoes(n) == [i \in 1 .. n |-> "echo"]

TextsOf(k, f) == IF k.api = "realtime" THEN Count(f, {"text"}) ELSE 0

TailOf(k) ==
    IF k.stage # "answered" THEN <<>>
    ELSE IF k.api = "transcriptions_stream" THEN <<"final", "close">> ELSE <<"close">>

SocketInv(k, f, s) ==
    /\ f \in Seq(FrameKinds)
    /\ k.stage = "idle" => f = <<>> /\ s = <<>>
    /\ k.stage = "asking" => k.api \notin SocketApis
    /\ k.stage = "socket" => k.api \in SocketApis
    /\ k.api \in SocketApis => s = Echoes(TextsOf(k, f)) \o TailOf(k)

SocketsInv ==
    /\ \A c \in Calls : SocketInv(call[c], frames[c], sent[c])
    /\ sent = [c \in Calls |-> sent[c]] /\ frames = [c \in Calls |-> frames[c]]

(* Echoes are a sequence, and one more is appended.                        *)
LEMMA EchoesGrow ==
    ASSUME NEW n \in Nat
    PROVE  /\ Echoes(n) \in Seq({"echo"}) /\ Echoes(n) \o <<>> = Echoes(n)
           /\ Append(Echoes(n), "echo") = Echoes(n + 1) /\ Echoes(0) = <<>>
<1>1. Echoes(n) \in [1 .. n -> {"echo"}] /\ DOMAIN Echoes(n) = 1 .. n
  BY DEF Echoes
<1>2. Echoes(n) \in Seq({"echo"})
  BY <1>1, FunctionIsSeq
<1>3. Len(Echoes(n)) = n
  BY <1>1, <1>2, LenProperties
<1>4. Append(Echoes(n), "echo") = Echoes(n + 1)
  BY <1>2, <1>3 DEF Echoes
<1>5. Echoes(n) \o <<>> = Echoes(n)
  BY <1>2, ConcatEmptySeq
<1>6. Echoes(0) = <<>>
  BY DEF Echoes
<1> QED BY <1>2, <1>4, <1>5, <1>6

(* One more frame is received.                                             *)
LEMMA FrameCounted ==
    ASSUME NEW f \in Seq(FrameKinds), NEW kind \in FrameKinds
    PROVE  /\ Append(f, kind) \in Seq(FrameKinds)
           /\ Count(f, {"text"}) \in Nat /\ Count(Append(f, kind), {"text"}) \in Nat
           /\ Count(Append(f, kind), {"text"}) =
                 IF kind = "text" THEN Count(f, {"text"}) + 1 ELSE Count(f, {"text"})
<1>1. Append(f, kind) \in Seq(FrameKinds)
  BY AppendProperties
<1>2. /\ Count(f, {"text"}) \in Nat
      /\ Count(Append(f, kind), {"text"}) =
            IF kind \in {"text"} THEN Count(f, {"text"}) + 1 ELSE Count(f, {"text"})
  BY CountAppend
<1> QED BY <1>1, <1>2

(* A handler keeps its socket well formed.                                 *)
LEMMA HandlerSockets ==
    ASSUME GatewayInv, SocketsInv, NEW c \in Calls,
           \/ Handler(c)
           \/ \E api \in Apis : \E m \in Asked(api) : Accept(c, api, m)
    PROVE  SocketsInv'
<1>t. /\ call = [d \in Calls |-> call[d]] /\ sent = [d \in Calls |-> sent[d]] /\ frames = [d \in Calls |-> frames[d]]
      /\ call[c] = [f \in {"api", "model", "stage", "status"} |-> call[c][f]]
      /\ SocketInv(call[c], frames[c], sent[c])
  BY DEF GatewayInv, CallInv, SocketsInv
<1>n. TextsOf(call[c], frames[c]) \in Nat
  <2>1. "text" \in FrameKinds /\ frames[c] \in Seq(FrameKinds)
    BY <1>t DEF FrameKinds, SocketInv
  <2>2. Count(frames[c], {"text"}) \in Nat
    BY <2>1, FrameCounted
  <2> QED BY <2>2 DEF TextsOf
<1>0. ASSUME SocketInv(call'[c], frames'[c], sent'[c]),
             call' = [call EXCEPT ![c] = call'[c]], sent' = [sent EXCEPT ![c] = sent'[c]],
             frames' = [frames EXCEPT ![c] = frames'[c]]
      PROVE  SocketsInv'
  <2>1. ASSUME NEW d \in Calls, d # c PROVE SocketInv(call'[d], frames'[d], sent'[d])
    <3>1. call'[d] = call[d] /\ sent'[d] = sent[d] /\ frames'[d] = frames[d]
      BY <1>0, <1>t, <2>1
    <3>2. SocketInv(call[d], frames[d], sent[d])
      BY DEF SocketsInv
    <3> QED BY <3>1, <3>2
  <2>2. sent' = [d \in Calls |-> sent'[d]] /\ frames' = [d \in Calls |-> frames'[d]]
    BY <1>0, <1>t
  <2>3. \A d \in Calls : SocketInv(call'[d], frames'[d], sent'[d])
    BY <2>1, <1>0
  <2> QED BY <2>2, <2>3 DEF SocketsInv
<1>u. ASSUME UNCHANGED <<sent, frames>>
      PROVE  sent' = [sent EXCEPT ![c] = sent'[c]] /\ frames' = [frames EXCEPT ![c] = frames'[c]]
  BY <1>t, <1>u
<1>1. ASSUME NEW status, Finished(c, status), call[c].stage = "asking" PROVE SocketsInv'
  <2> DEFINE new == [call[c] EXCEPT !.stage = "answered", !.status = status]
  <2>1. call' = [call EXCEPT ![c] = new] /\ UNCHANGED <<sent, frames>>
    BY <1>1 DEF Finished
  <2>2. new.stage = "answered" /\ new.api = call[c].api
    BY <1>t
  <2> HIDE DEF new
  <2>3. call'[c] = new
    BY <2>1, <1>t
  <2>4. SocketInv(call'[c], frames'[c], sent'[c])
    BY <2>1, <2>2, <2>3, <1>1, <1>t DEF SocketInv
  <2> QED BY <2>1, <2>3, <2>4, <1>u, <1>0
<1>2. CASE RouteFound(c)
  BY <1>1, <1>2 DEF RouteFound
<1>3. CASE RouteTimeout(c)
  BY <1>1, <1>3 DEF RouteTimeout
<1>4. CASE SocketEnd(c)
  <2> DEFINE new == [call[c] EXCEPT !.stage = "answered", !.status = "closed"]
             tail == IF call[c].api = "transcriptions_stream" THEN <<"final", "close">> ELSE <<"close">>
  <2>1. call' = [call EXCEPT ![c] = new] /\ sent' = [sent EXCEPT ![c] = @ \o tail] /\ UNCHANGED frames
        /\ call[c].stage = "socket"
    BY <1>4 DEF SocketEnd
  <2>2. new.stage = "answered" /\ new.api = call[c].api
    BY <1>t
  <2> HIDE DEF new
  <2>3. call'[c] = new
    BY <2>1, <1>t
  <2>4. sent[c] = Echoes(TextsOf(call[c], frames[c]))
    <3>1. sent[c] = Echoes(TextsOf(call[c], frames[c])) \o <<>>
      BY <2>1, <1>t DEF SocketInv, TailOf
    <3> QED BY <3>1, <1>n, EchoesGrow
  <2>5. TailOf(call'[c]) = tail /\ TextsOf(call'[c], frames'[c]) = TextsOf(call[c], frames[c])
    BY <2>1, <2>2, <2>3 DEF TailOf, TextsOf
  <2> HIDE DEF tail
  <2>6. sent'[c] = Echoes(TextsOf(call[c], frames[c])) \o tail /\ sent' = [sent EXCEPT ![c] = sent'[c]]
    BY <2>1, <2>4, <1>t
  <2>7. SocketInv(call'[c], frames'[c], sent'[c])
    BY <2>1, <2>2, <2>3, <2>5, <2>6, <1>t DEF SocketInv
  <2>8. frames' = [frames EXCEPT ![c] = frames'[c]]
    BY <2>1, <1>t
  <2> QED BY <2>1, <2>3, <2>6, <2>7, <2>8, <1>0
<1>5. ASSUME NEW k \in FrameKinds, SocketFrame(c, k) PROVE SocketsInv'
  <2> DEFINE echoed == call[c].api = "realtime" /\ k = "text"
  <2>1. /\ frames' = [frames EXCEPT ![c] = Append(@, k)] /\ UNCHANGED call /\ call[c].stage = "socket"
        /\ sent' = [sent EXCEPT ![c] = IF echoed THEN Append(@, "echo") ELSE @]
    BY <1>5 DEF SocketFrame
  <2>2. frames'[c] = Append(frames[c], k) /\ sent'[c] = IF echoed THEN Append(sent[c], "echo") ELSE sent[c]
    BY <2>1, <1>t
  <2>3. sent[c] = Echoes(TextsOf(call[c], frames[c]))
    <3>1. sent[c] = Echoes(TextsOf(call[c], frames[c])) \o <<>>
      BY <2>1, <1>t DEF SocketInv, TailOf
    <3> QED BY <3>1, <1>n, EchoesGrow
  <2>4. /\ frames'[c] \in Seq(FrameKinds) /\ Count(frames'[c], {"text"}) \in Nat
        /\ Count(frames'[c], {"text"}) =
              IF k = "text" THEN Count(frames[c], {"text"}) + 1 ELSE Count(frames[c], {"text"})
    <3>1. frames[c] \in Seq(FrameKinds)
      BY <1>t DEF SocketInv
    <3>2. frames'[c] = Append(frames[c], k)
      BY <2>2
    <3> QED BY <3>1, <3>2, FrameCounted
  <2>5. TextsOf(call'[c], frames'[c]) = IF echoed THEN TextsOf(call[c], frames[c]) + 1 ELSE TextsOf(call[c], frames[c])
    BY <2>1, <2>4 DEF TextsOf
  <2>6. sent'[c] = Echoes(TextsOf(call'[c], frames'[c]))
    BY <2>2, <2>3, <2>5, <1>n, EchoesGrow
  <2>7. TextsOf(call'[c], frames'[c]) \in Nat
    BY <2>4, Zenon DEF TextsOf
  <2>t. TailOf(call'[c]) = <<>>
    BY <2>1 DEF TailOf
  <2>8. sent'[c] = Echoes(TextsOf(call'[c], frames'[c])) \o TailOf(call'[c])
    BY <2>6, <2>7, <2>t, EchoesGrow
  <2>9. SocketInv(call'[c], frames'[c], sent'[c])
    BY <2>1, <2>4, <2>8, <1>t DEF SocketInv
  <2>10. call' = [call EXCEPT ![c] = call'[c]] /\ frames' = [frames EXCEPT ![c] = frames'[c]]
    BY <2>1, <1>t
  <2>11. sent' = [sent EXCEPT ![c] = sent'[c]]
    BY <2>1, <2>2, <1>t
  <2> QED BY <2>9, <2>10, <2>11, <1>0
<1>6. ASSUME NEW api \in Apis, NEW m \in Asked(api), Accept(c, api, m) PROVE SocketsInv'
  <2> DEFINE lacks == m \in {"no model", "no file"}
             stage == IF lacks THEN "answered" ELSE IF api \in SocketApis THEN "socket" ELSE "asking"
             status == IF lacks THEN "invalid_request" ELSE None
             new == [api |-> api, model |-> m, status |-> status, stage |-> stage]
  <2>1. call' = [call EXCEPT ![c] = new] /\ UNCHANGED <<sent, frames>> /\ call[c].stage = "idle"
    BY <1>6 DEF Accept
  <2>2. stage = "socket" <=> api \in SocketApis
    BY DEF SocketApis, Asked, None
  <2>3. stage \in {"answered", "socket", "asking"}
    OBVIOUS
  <2> HIDE DEF stage, status
  <2>4. new.stage = stage /\ new.api = api
    OBVIOUS
  <2> HIDE DEF new
  <2>5. call'[c] = new
    BY <2>1, <1>t
  <2>6. frames[c] = <<>> /\ sent[c] = <<>>
    BY <2>1, <1>t DEF SocketInv
  <2>7. api \in SocketApis => TextsOf(call'[c], frames'[c]) = 0 /\ TailOf(call'[c]) = <<>>
    <3>1. Count(<<>>, {"text"}) = 0
      BY CountEmpty
    <3> QED BY <2>1, <2>2, <2>4, <2>5, <2>6, <3>1 DEF TextsOf, TailOf
  <2>8. Echoes(0) \o <<>> = <<>>
    BY EchoesGrow
  <2>9. SocketInv(call'[c], frames'[c], sent'[c])
    BY <2>1, <2>2, <2>3, <2>4, <2>5, <2>6, <2>7, <2>8, <1>t DEF SocketInv
  <2> QED BY <2>1, <2>5, <2>9, <1>u, <1>0
<1> QED BY <1>2, <1>3, <1>4, <1>5, <1>6 DEF Handler, FrameKinds

(***************************************************************************)
(* What a client receives is well formed, for any number of requests,      *)
(* calls, chunks and frames (request.rs, gateway.rs).                      *)
(***************************************************************************)
THEOREM RepliesWellFormed == FrontSpec => []ReplyWellFormed
<1> DEFINE Inv == RepliesInv /\ SocketsInv
<1>1. FrontInit => Inv
  <2> SUFFICES ASSUME FrontInit PROVE Inv
    OBVIOUS
  <2>1. Init /\ ServingInit
    BY DEF FrontInit, ServingInit
  <2>2. <<>> \in Seq(Items) /\ <<>> \in Seq(FrameKinds) /\ DOMAIN <<>> = {} /\ Len(<<>>) = 0
    OBVIOUS
  <2>3. Count(<<>>, {"Ok", "Final"}) = 0
    BY CountEmpty
  <2>4. /\ \A r \in Requests : /\ done[r] = 0 /\ pc[r] = "ready" /\ asks[r] = 0
                               /\ output[r] = <<>> /\ accumulator[r] = 0
    BY <2>1 DEF Init, Each
  <2>5. ASSUME NEW r \in Requests PROVE ReplyInv(r)
    <3>1. /\ done[r] = 0 /\ pc[r] = "ready" /\ asks[r] = 0 /\ output[r] = <<>> /\ accumulator[r] = 0
      BY <2>4
    <3> QED BY <3>1, <2>2, <2>3 DEF ReplyInv
  <2>6. RepliesInv
    BY <2>1, <2>5 DEF Init, Each, RepliesInv
  <2>7. Idle.stage = "idle" /\ Idle.api \notin SocketApis
    BY DEF Idle, None, SocketApis
  <2>8. \A c \in Calls : call[c] = Idle /\ sent[c] = <<>> /\ frames[c] = <<>>
    BY <2>1 DEF ServingInit
  <2>9. \A c \in Calls : SocketInv(call[c], frames[c], sent[c])
    BY <2>2, <2>7, <2>8 DEF SocketInv
  <2>10. SocketsInv
    BY <2>1, <2>9 DEF ServingInit, SocketsInv
  <2> QED BY <2>6, <2>10
<1>2. Inv /\ GatewayInv /\ [FrontNext]_frontVars => Inv'
  <2> SUFFICES ASSUME Inv, GatewayInv, [FrontNext]_frontVars PROVE Inv'
    OBVIOUS
  <2>1. ASSUME UNCHANGED requestVars PROVE RepliesInv'
    BY <2>1 DEF requestVars, RepliesInv, ReplyInv
  <2>2. ASSUME UNCHANGED callVars PROVE SocketsInv'
    BY <2>2 DEF callVars, SocketsInv, SocketInv, TextsOf, TailOf
  <2>3. ASSUME CoordinatorNext PROVE UNCHANGED requestVars
    BY <2>3 DEF CoordinatorNext, Register, Deregister, ReportLoad, Members
  <2>4. CASE door = "requests" /\ Next /\ UNCHANGED servingVars
    <3>1. RepliesInv'
      BY <2>1, <2>3, <2>4, RequestReplies DEF Next
    <3>2. UNCHANGED callVars
      BY <2>4 DEF servingVars
    <3> QED BY <3>1, <3>2, <2>2
  <2>5. CASE ServingNext
    <3>1. CASE CoordinatorStep
      BY <3>1, <2>1, <2>2, <2>3 DEF CoordinatorStep
    <3>2. CASE \E c \in Calls : \/ Handler(c)
                                \/ \E api \in Apis : \E m \in Asked(api) : Accept(c, api, m)
      <4>1. UNCHANGED vars
        BY <3>2 DEF Handler, RouteFound, RouteTimeout, Finished, SocketEnd, SocketFrame, Accept
      <4> QED BY <4>1, <3>2, <2>1, HandlerSockets DEF vars
    <3>3. CASE \/ \E d \in Declarable : ApplyDeclared(d)
               \/ \E name \in {Served, GemmaName} : RemoveDeployment(name)
               \/ Provision \/ StopGateway \/ Terminate \/ Exit
               \/ \E bound \in BOOLEAN : Mount(bound)
      <4>1. UNCHANGED <<vars, callVars>>
        BY <3>3 DEF ApplyDeclared, RemoveDeployment, Provision, StopGateway, Terminate, Exit, Mount
      <4> QED BY <4>1, <2>1, <2>2 DEF vars
    <3> QED BY <2>5, <3>1, <3>2, <3>3 DEF ServingNext
  <2>6. CASE UNCHANGED allVars
    BY <2>6, <2>1, <2>2 DEF allVars, vars, servingVars
  <2> QED BY <2>4, <2>5, <2>6 DEF FrontNext, frontVars
<1>3. Inv => ReplyWellFormed
  <2> SUFFICES ASSUME Inv PROVE ReplyWellFormed
    OBVIOUS
  <2>1. DoneOnceAtTheEnd
    <3>1. ASSUME NEW r \in Requests
          PROVE  (done[r] = 1 <=> pc[r] = "stopped") /\ asks[r] \in {0, 1}
      BY DEF RepliesInv, ReplyInv
    <3> QED BY <3>1 DEF DoneOnceAtTheEnd
  <2>2. ASSUME NEW r \in Requests
        PROVE  /\ LET forwarded == Cardinality({i \in DOMAIN output[r] : output[r][i] # "Err"})
                  IN  forwarded <= accumulator[r] /\ (~gone[r] => forwarded = accumulator[r])
               /\ \A i \in 1 .. Len(output[r]) - 1 : output[r][i] = "Ok"
    <3>1. ReplyInv(r)
      BY DEF RepliesInv
    <3>2. \A i \in DOMAIN output[r] : output[r][i] \in Items
      BY <3>1, Entries DEF ReplyInv
    <3>3. {i \in DOMAIN output[r] : output[r][i] # "Err"} = {i \in DOMAIN output[r] : output[r][i] \in {"Ok", "Final"}}
      BY <3>2 DEF Items
    <3> QED BY <3>1, <3>3 DEF ReplyInv, Count
  <2>3. ASSUME NEW c \in Calls, call[c].api \in SocketApis
        PROVE  /\ sent[c] = [i \in 1 .. TextsOf(call[c], frames[c]) |-> "echo"] \o TailOf(call[c])
               /\ TextsOf(call[c], frames[c]) = IF call[c].api = "realtime"
                               THEN Cardinality({i \in DOMAIN frames[c] : frames[c][i] = "text"}) ELSE 0
    <3>1. {i \in DOMAIN frames[c] : frames[c][i] = "text"} = {i \in DOMAIN frames[c] : frames[c][i] \in {"text"}}
      OBVIOUS
    <3> QED BY <2>3, <3>1 DEF SocketsInv, SocketInv, Echoes, TextsOf, Count
  <2>4. OutputWellFormed
    BY <2>2 DEF OutputWellFormed
  <2>5. SocketWellFormed
    BY <2>3, Zenon DEF SocketWellFormed, TailOf
  <2> QED BY <2>1, <2>4, <2>5 DEF ReplyWellFormed
<1> QED BY <1>1, <1>2, <1>3, RouteInvariance, PTL DEF FrontSpec

-----------------------------------------------------------------------------
(***************************************************************************)
(* The manager's records.  Of a list of messages, the positions of those   *)
(* that count under a name, and what the last of them leaves.              *)
(***************************************************************************)
IsValid(d) == d.name # "" /\ d.has_model /\ d.replicas > 0

Counts(m) == m.msg = "Remove" \/ IsValid(m.deployment)

Named(ms, n) == {i \in DOMAIN ms : Counts(ms[i]) /\ ms[i].name = n}

Latest(ms, n) ==
    {ms[i].deployment : i \in {j \in Named(ms, n) : ms[j].msg = "Apply" /\ \A k \in Named(ms, n) : k <= j}}

Gemma == GemmaDeployment(GemmaName)

(* What may be applied, and what is known of it.                           *)
LEMMA Applicable ==
    ASSUME NEW d \in Declarable \cup {Gemma}
    PROVE  /\ Validate(d) = "Ok" <=> IsValid(d)
           /\ d \in Declarable => d.runtime = None /\ d.runtime_config = None /\ d.model \in {{"gpt"}, {"claude"}}
           /\ d = Gemma => /\ d.runtime = "Vllm" /\ d.gpus = {1} /\ d.name = GemmaName
                           /\ Validate(d) = "Ok"
<1>1. CASE d = Gemma
  <2>1. /\ d.name = GemmaName /\ d.has_model = TRUE /\ d.replicas = 1 /\ d.runtime = "Vllm" /\ d.gpus = {1}
    BY <1>1 DEF Gemma, GemmaDeployment, Deployment
  <2>2. d \notin Declarable
    BY <2>1 DEF Declarable, Deployment, None
  <2> QED BY <2>1, <2>2 DEF Validate, IsValid, GemmaName
<1>2. CASE d \in Declarable
  <2>1. PICK n, m, k : /\ n \in {Served, GemmaName} /\ m \in {{"gpt"}, {"claude"}} /\ k \in {0, 1, 2}
                       /\ d = Deployment(n, m, k)
    BY <1>2 DEF Declarable
  <2>n. n \in {Served, GemmaName} /\ k \in {0, 1, 2}
    BY <2>1
  <2>2. /\ d.name = n /\ d.has_model = TRUE /\ d.replicas = k /\ d.runtime = None /\ d.runtime_config = None
        /\ d.model = m
    BY <2>1 DEF Deployment
  <2>s. n # ""
    BY <2>n, Zenon DEF Served, GemmaName
  <2>3. k \in Nat
    BY <2>n
  <2>4. Validate(d) = "Ok" <=> IsValid(d)
    <3>1. k = 0 \/ k > 0
      BY <2>3
    <3>2. ~(k = 0 /\ k > 0)
      BY <2>3
    <3> QED BY <2>2, <2>s, <3>1, <3>2, Zenon DEF Validate, IsValid
  <2>5. Gemma.runtime = "Vllm" /\ d.runtime # "Vllm"
    BY <2>2 DEF Gemma, GemmaDeployment, Deployment, None
  <2> HIDE DEF Gemma
  <2>6. d # Gemma
    BY <2>5
  <2>7. d.model \in {{"gpt"}, {"claude"}}
    BY <2>1, <2>2, Zenon
  <2> QED BY <2>2, <2>4, <2>6, <2>7, Zenon
<1> QED BY <1>1, <1>2

(* What a message leaves of the records.                                   *)
Left(m) == IF m.msg = "Apply" THEN Apply(m.deployment) ELSE RemoveRecord(m.name)

(* One more message: the records still are what the last that counts left. *)
LEMMA LatestKept ==
    ASSUME NEW S, NEW ms \in Seq(S), NEW m \in S, m.msg \in {"Apply", "Remove"},
           m.msg = "Apply" => /\ Validate(m.deployment) = "Ok" <=> IsValid(m.deployment)
                              /\ m.deployment.name = m.name,
           NEW n, m.name # n => {r \in records : r.name = n} = Latest(ms, n),
           m.msg = "Apply" => {r \in records : r.name = n} = Latest(ms, n)
    PROVE  {r \in Left(m) : r.name = n} = Latest(Append(ms, m), n)
<1> DEFINE es == Append(ms, m)
           last == Len(ms) + 1
<1>1. /\ Len(ms) \in Nat /\ DOMAIN ms = 1 .. Len(ms) /\ DOMAIN es = 1 .. last
      /\ es[last] = m /\ \A i \in 1 .. Len(ms) : es[i] = ms[i]
  BY AppendProperties, LenProperties
<1> HIDE DEF es
<1>2. CASE Counts(m) /\ m.name = n
  <2>1. Named(es, n) = Named(ms, n) \cup {last}
    BY <1>1, <1>2 DEF Named
  <2>2. \A k \in Named(es, n) : k <= last
    BY <1>1 DEF Named
  <2>3. \A j \in Named(es, n) : (\A k \in Named(es, n) : k <= j) => j = last
    BY <1>1, <2>1, <2>2 DEF Named
  <2>4. Latest(es, n) = IF m.msg = "Apply" THEN {m.deployment} ELSE {}
    BY <1>1, <2>1, <2>2, <2>3 DEF Latest
  <2>5. CASE m.msg = "Apply"
    <3>1. IsValid(m.deployment) /\ m.deployment.name = n
      BY <1>2, <2>5 DEF Counts
    <3>2. {r \in Apply(m.deployment) : r.name = n} = {m.deployment}
      BY <2>5, <3>1 DEF Apply
    <3> QED BY <2>4, <2>5, <3>2 DEF es, Left
  <2>6. CASE m.msg = "Remove"
    <3>1. {r \in RemoveRecord(m.name) : r.name = n} = {}
      BY <1>2 DEF RemoveRecord
    <3> QED BY <2>4, <2>6, <3>1 DEF es, Left
  <2> QED BY <2>5, <2>6
<1>3. CASE ~(Counts(m) /\ m.name = n)
  <2>1. Named(es, n) = Named(ms, n)
    BY <1>1, <1>3 DEF Named
  <2>2. \A i \in Named(ms, n) : es[i] = ms[i]
    BY <1>1 DEF Named
  <2>3. Latest(es, n) = Latest(ms, n)
    BY <2>1, <2>2 DEF Latest
  <2>4. CASE m.msg = "Apply"
    <3>1. {r \in Apply(m.deployment) : r.name = n} = {r \in records : r.name = n}
      BY <1>3, <2>4 DEF Apply, Counts
    <3> QED BY <2>3, <2>4, <3>1 DEF es, Left
  <2>5. CASE m.msg = "Remove"
    <3>1. m.name # n
      BY <1>3, <2>5 DEF Counts
    <3>2. {r \in RemoveRecord(m.name) : r.name = n} = {r \in records : r.name = n}
      BY <3>1 DEF RemoveRecord
    <3> QED BY <2>3, <2>5, <3>1, <3>2 DEF es, Left
  <2> QED BY <2>4, <2>5
<1> QED BY <1>2, <1>3

(* Each field of an environment is the good one's, or spoilt.              *)
LEMMA EnvironmentFields ==
    ASSUME NEW env \in Environments
    PROVE  \A k \in DOMAIN Spoilt : env[k] = GoodEnv[k] \/ env[k] \in Spoilt[k]
<1>1. PICK f \in DOMAIN Spoilt, g \in DOMAIN Spoilt :
         \E x \in Spoilt[f], y \in Spoilt[g] : env = [[GoodEnv EXCEPT ![f] = x] EXCEPT ![g] = y]
  BY DEF Environments
<1>2. PICK x \in Spoilt[f], y \in Spoilt[g] : env = [[GoodEnv EXCEPT ![f] = x] EXCEPT ![g] = y]
  BY <1>1
<1>3. DOMAIN Spoilt = DOMAIN GoodEnv
  BY DEF Spoilt, GoodEnv
<1> QED BY <1>2, <1>3

(* All that the local model needs.                                         *)
HasWhatItNeeds(env, model) ==
    LET small == model \in {"E2B", "E2B-it"}
    IN  /\ env.GEMMA_AUTO # "off" /\ model \notin {"unsupported", None}
        /\ {env.HF_HOME, env.XDG_CACHE_HOME, env.HOME} # {None}
        /\ \E free \in env.vram : 2 * free > (IF small THEN 9 ELSE 17)
        /\ env.python = "3.10+" /\ env.vllm
        /\ {env.HF_TOKEN, env.HUGGING_FACE_HUB_TOKEN} # {None} \/ env.token_file = "token"
        /\ \A free \in env.disk : 2 * free > (IF small THEN 15 ELSE 27)

(* The probe finds the machine ready exactly when it has all it needs.     *)
LEMMA ProbeIsRight ==
    ASSUME NEW env \in Environments, NEW model \in Models
    PROVE  (model # None /\ AutoProvision(env) /\ ProvisionDecision(env, model) = "Ready")
              <=> HasWhatItNeeds(env, model)
<1>1. /\ env.GEMMA_AUTO \in {"1", "off"} /\ env.vllm \in BOOLEAN
  BY EnvironmentFields DEF Spoilt, GoodEnv
<1>2. /\ env.vram \subseteq Nat /\ env.disk \subseteq Nat
  BY EnvironmentFields DEF Spoilt, GoodEnv
<1>3. AutoProvision(env) <=> env.GEMMA_AUTO # "off"
  BY <1>1 DEF AutoProvision
<1>4. CacheHome(env) = None <=> {env.HF_HOME, env.XDG_CACHE_HOME, env.HOME} = {None}
  BY DEF CacheHome, None
<1>5. /\ DiscoverToken(env) \in {"found", "error", "absent"}
      /\ DiscoverToken(env) = "found" <=>
            {env.HF_TOKEN, env.HUGGING_FACE_HUB_TOKEN} # {None} \/ env.token_file = "token"
  BY DEF DiscoverToken
<1> DEFINE small == model \in {"E2B", "E2B-it"}
<1>6. ~(\A free \in env.vram : free < MinVram(model)) <=> \E free \in env.vram : 2 * free > (IF small THEN 9 ELSE 17)
  BY <1>2 DEF MinVram, IsSmall
<1>7. ~(\E free \in env.disk : free < MinDisk(model)) <=> \A free \in env.disk : 2 * free > (IF small THEN 15 ELSE 27)
  BY <1>2 DEF MinDisk, IsSmall
<1>8. model \in Variants <=> model \notin {"unsupported", None}
  BY DEF Models, Variants, None
<1>9. Probe(env, model) = "Ready" <=>
         /\ CacheHome(env) # None /\ ~(\A free \in env.vram : free < MinVram(model))
         /\ env.python = "3.10+" /\ env.vllm
         /\ DiscoverToken(env) = "found" /\ ~(\E free \in env.disk : free < MinDisk(model))
  BY <1>1, <1>5 DEF Probe
<1>10. ProvisionDecision(env, model) = "Ready" <=> model \in Variants /\ Probe(env, model) = "Ready"
  BY DEF ProvisionDecision
<1> QED BY <1>3, <1>4, <1>5, <1>6, <1>7, <1>8, <1>9, <1>10 DEF HasWhatItNeeds, None

(***************************************************************************)
(* While the server boots, the records are what the messages left under    *)
(* each name, declared deployments until the model is provisioned;         *)
(* afterwards the list starts again, and says what became of the names     *)
(* that are in it.                                                         *)
(***************************************************************************)
Told ==
    {Applied(d) : d \in Declarable \cup {Gemma}} \cup {Removed(n) : n \in {Served, GemmaName}}

BootInv ==
    /\ boot \in {"apply", "mount", "serving", "terminating", "exited"}
    /\ boot \in {"apply", "mount"} => \A n : {r \in records : r.name = n} = Latest(told, n)
    /\ \A i \in DOMAIN told : {r \in records : r.name = told[i].name} = Latest(told, told[i].name)
    /\ boot \in {"apply", "mount"} => host.env \in Environments /\ host.model \in Models
    /\ told \in Seq(Told) /\ records \subseteq Declarable \cup {Gemma}
    /\ boot = "apply" => Applied(Gemma) \notin Range(told)
    /\ boot = "mount" => (Applied(Gemma) \in Range(told) <=> HasWhatItNeeds(host.env, host.model))

(* What is known of a message the manager is told.                         *)
LEMMA Message ==
    ASSUME NEW m \in Told
    PROVE  /\ m.msg \in {"Apply", "Remove"}
           /\ m.msg = "Apply" => /\ Validate(m.deployment) = "Ok" <=> IsValid(m.deployment)
                                 /\ m.deployment.name = m.name
                                 /\ m.deployment \in Declarable \cup {Gemma}
           /\ m = Applied(Gemma) <=> m.msg = "Apply" /\ m.deployment = Gemma
<1>1. CASE \E d \in Declarable \cup {Gemma} : m = Applied(d)
  <2>1. PICK d \in Declarable \cup {Gemma} : m = Applied(d)
    BY <1>1
  <2>2. m.msg = "Apply" /\ m.deployment = d /\ m.name = d.name
    BY <2>1 DEF Applied
  <2>3. Validate(d) = "Ok" <=> IsValid(d)
    BY Applicable
  <2>4. Applied(Gemma).deployment = Gemma
    BY DEF Applied
  <2> QED BY <2>1, <2>2, <2>3, <2>4
<1>2. CASE \E n \in {Served, GemmaName} : m = Removed(n)
  <2>1. m.msg = "Remove" /\ Applied(Gemma).msg = "Apply"
    BY <1>2 DEF Removed, Applied
  <2> QED BY <2>1
<1> QED BY <1>1, <1>2 DEF Told

(* Every step of the server keeps it.                                      *)
LEMMA BootKept ==
    ASSUME BootInv, ServingNext
    PROVE  BootInv'
<1>g. Gemma \notin Declarable
  <2>1. Gemma.runtime = "Vllm" /\ \A d \in Declarable : d.runtime = None
    BY Applicable
  <2> QED BY <2>1 DEF None
<1>0. ASSUME NEW m \in Told, records' = Left(m), told' = Append(told, m),
             m.msg = "Apply" => boot \in {"apply", "mount"}
      PROVE  /\ boot \in {"apply", "mount"} => \A n : {r \in records' : r.name = n} = Latest(told', n)
             /\ \A i \in DOMAIN told' : {r \in records' : r.name = told'[i].name} = Latest(told', told'[i].name)
             /\ told' \in Seq(Told) /\ records' \subseteq Declarable \cup {Gemma}
             /\ Range(told') = Range(told) \cup {m}
  <2>m. /\ m.msg \in {"Apply", "Remove"}
        /\ m.msg = "Apply" => /\ Validate(m.deployment) = "Ok" <=> IsValid(m.deployment)
                              /\ m.deployment.name = m.name
                              /\ m.deployment \in Declarable \cup {Gemma}
    BY Message
  <2>s. /\ told \in Seq(Told) /\ told' \in Seq(Told) /\ Len(told) \in Nat /\ DOMAIN told = 1 .. Len(told)
        /\ DOMAIN told' = 1 .. Len(told) + 1 /\ told'[Len(told) + 1] = m
        /\ \A i \in 1 .. Len(told) : told'[i] = told[i]
    BY <1>0, AppendProperties, LenProperties DEF BootInv
  <2>1. ASSUME NEW n, m.name # n => {r \in records : r.name = n} = Latest(told, n),
               m.msg = "Apply" => {r \in records : r.name = n} = Latest(told, n)
        PROVE  {r \in records' : r.name = n} = Latest(told', n)
    <3> HIDE DEF Told
    <3> QED BY <1>0, <2>m, <2>s, <2>1, LatestKept
  <2>2. boot \in {"apply", "mount"} => \A n : {r \in records' : r.name = n} = Latest(told', n)
    BY <2>1 DEF BootInv
  <2>3. ASSUME NEW i \in DOMAIN told'
        PROVE  {r \in records' : r.name = told'[i].name} = Latest(told', told'[i].name)
    <3>1. CASE boot \in {"apply", "mount"}
      BY <2>2, <3>1
    <3>2. CASE boot \notin {"apply", "mount"}
      <4>1. m.msg # "Apply"
        BY <1>0, <3>2
      <4>2. (i \in DOMAIN told /\ told'[i] = told[i]) \/ told'[i] = m
        BY <2>s
      <4>3. m.name # told'[i].name => {r \in records : r.name = told'[i].name} = Latest(told, told'[i].name)
        BY <4>2 DEF BootInv
      <4> QED BY <4>1, <4>3, <2>1
    <3> QED BY <3>1, <3>2
  <2>4. records' \subseteq Declarable \cup {Gemma}
    <3>1. Left(m) \subseteq records \cup (IF m.msg = "Apply" THEN {m.deployment} ELSE {})
      BY DEF Left, Apply, RemoveRecord
    <3> QED BY <1>0, <2>m, <3>1 DEF BootInv
  <2>5. Range(told') = Range(told) \cup {m}
    BY <2>s DEF Range
  <2> QED BY <2>2, <2>3, <2>4, <2>5, <2>s
<1>1. ASSUME NEW d \in Declarable, ApplyDeclared(d) PROVE BootInv'
  <2> DEFINE m == Applied(d)
  <2>1. /\ boot = "apply" /\ boot' = "apply" /\ host' = host
        /\ records' = Apply(d) /\ told' = Append(told, m)
    BY <1>1 DEF ApplyDeclared
  <2>2. m \in Told /\ m.msg = "Apply" /\ m.deployment = d /\ d # Gemma
    BY <1>g DEF Told, Applied
  <2>3. m # Applied(Gemma)
    BY <2>2, Message
  <2> HIDE DEF m
  <2>4. records' = Left(m)
    BY <2>1, <2>2 DEF Left
  <2> QED BY <2>1, <2>2, <2>3, <2>4, <1>0 DEF BootInv
<1>r. ASSUME NEW n \in {Served, GemmaName}, RemoveDeployment(n) PROVE BootInv'
  <2> DEFINE m == Removed(n)
  <2>1. /\ boot' = boot /\ host' = host /\ records' = RemoveRecord(n) /\ told' = Append(told, m)
    BY <1>r DEF RemoveDeployment
  <2>2. m \in Told /\ m.msg = "Remove" /\ m.name = n
    BY DEF Told, Removed
  <2>3. m # Applied(Gemma)
    BY <2>2, Message
  <2> HIDE DEF m
  <2>4. records' = Left(m)
    BY <2>1, <2>2 DEF Left
  <2> QED BY <2>1, <2>2, <2>3, <2>4, <1>0 DEF BootInv
<1>2. CASE Provision
  <2>1. boot = "apply" /\ boot' = "mount" /\ host' = host /\ Applied(Gemma) \notin Range(told)
    BY <1>2 DEF Provision, BootInv
  <2> DEFINE ready == /\ host.model # None /\ AutoProvision(host.env)
                      /\ ProvisionDecision(host.env, host.model) = "Ready"
  <2>2. ready <=> HasWhatItNeeds(host.env, host.model)
    BY <2>1, ProbeIsRight DEF BootInv
  <2>3. CASE ready
    <3> DEFINE m == Applied(Gemma)
    <3>1. records' = Apply(Gemma) /\ told' = Append(told, m)
      BY <1>2, <2>3, Zenon DEF Provision, Gemma
    <3>2. m \in Told /\ m.msg = "Apply" /\ m.deployment = Gemma
      BY DEF Told, Applied
    <3> HIDE DEF m
    <3>3. records' = Left(m)
      BY <3>1, <3>2 DEF Left
    <3>4. m = Applied(Gemma)
      BY DEF m
    <3> QED BY <2>1, <2>2, <2>3, <3>1, <3>2, <3>3, <3>4, <1>0 DEF BootInv
  <2>4. CASE ~ready
    <3>1. records' = records /\ told' = told
      BY <1>2, <2>4, Zenon DEF Provision
    <3> QED BY <2>1, <2>2, <2>4, <3>1 DEF BootInv
  <2> QED BY <2>3, <2>4
<1>3. ASSUME NEW bound \in BOOLEAN, Mount(bound) PROVE BootInv'
  <2>1. boot' = "serving" /\ told' = <<>> /\ records' = records
    BY <1>3 DEF Mount
  <2>2. <<>> \in Seq(Told) /\ DOMAIN <<>> = {}
    BY EmptySeq
  <2> QED BY <2>1, <2>2 DEF BootInv
<1>4. CASE Terminate \/ Exit
  BY <1>4 DEF Terminate, Exit, BootInv
<1>5. CASE UNCHANGED bootVars
  BY <1>5 DEF bootVars, BootInv
<1>6. ASSUME NEW c \in Calls, \/ Handler(c)
                              \/ \E api \in Apis : \E m \in Asked(api) : Accept(c, api, m)
      PROVE  UNCHANGED bootVars
  BY <1>6 DEF Handler, RouteFound, RouteTimeout, Finished, SocketEnd, SocketFrame, Accept
<1>7. CoordinatorStep \/ StopGateway => UNCHANGED bootVars
  BY DEF CoordinatorStep, StopGateway
<1> QED BY <1>1, <1>r, <1>2, <1>3, <1>4, <1>5, <1>6, <1>7 DEF ServingNext

(* Where a deployment on record runs.                                      *)
LEMMA WhereItRuns ==
    ASSUME NEW d \in Declarable \cup {Gemma}, NEW k
    PROVE  LET e == [d EXCEPT !.replicas = k]
           IN  /\ d = Gemma => TransportKind(EffectiveRuntime(e)) = "LocalGpu" /\ GpusWanted(e) = 1
               /\ d # Gemma => TransportKind(EffectiveRuntime(e)) = "RemoteNetwork"
               /\ d.runtime = "Vllm" <=> d = Gemma
               /\ e.replicas = k
<1> DEFINE e == [d EXCEPT !.replicas = k]
<1>1. CASE d = Gemma
  <2>1. e.runtime = "Vllm" /\ e.gpus = {1} /\ e.replicas = k /\ d.runtime = "Vllm"
    BY <1>1 DEF Gemma, GemmaDeployment, Deployment
  <2> HIDE DEF e
  <2>2. EffectiveRuntime(e) = "Vllm" /\ GpusWanted(e) = 1
    BY <2>1 DEF EffectiveRuntime, GpusWanted, None
  <2>3. TransportKind("Vllm") = "LocalGpu"
    BY DEF TransportKind, RemoteKinds, LocalKinds
  <2> QED BY <1>1, <2>1, <2>2, <2>3 DEF e
<1>2. CASE d # Gemma
  <2>1. d.runtime = None /\ d.runtime_config = None /\ d.model \in {{"gpt"}, {"claude"}}
    BY <1>2, Applicable
  <2>2. e.runtime = None /\ e.runtime_config = None /\ e.model = d.model /\ e.replicas = k
    <3>1. PICK n, m, j : d = Deployment(n, m, j)
      BY <1>2 DEF Declarable
    <3>2. /\ e.runtime = d.runtime /\ e.runtime_config = d.runtime_config /\ e.model = d.model
          /\ e.replicas = k
      BY <3>1 DEF Deployment
    <3> QED BY <2>1, <3>2
  <2> HIDE DEF e
  <2>3. EffectiveRuntime(e) = InferRuntime(d.model)
    BY <2>2 DEF EffectiveRuntime
  <2>4. InferRuntime({"gpt"}) = "OpenAi"
    <3> DEFINE hits == {i \in DOMAIN Families : Families[i].family \in {"gpt"}}
    <3>1. hits = {1}
      BY DEF Families
    <3>2. InferRuntime({"gpt"}) = IF hits = {} THEN "Vllm"
                                  ELSE Families[CHOOSE i \in hits : \A j \in hits : i <= j].kind
      BY DEF InferRuntime
    <3> HIDE DEF hits
    <3>3. (CHOOSE i \in hits : \A j \in hits : i <= j) = 1
      BY <3>1
    <3>4. Families[1].kind = "OpenAi"
      BY DEF Families
    <3> QED BY <3>1, <3>2, <3>3, <3>4
  <2>5. InferRuntime({"claude"}) = "Anthropic"
    <3> DEFINE hits == {i \in DOMAIN Families : Families[i].family \in {"claude"}}
    <3>1. hits = {2}
      BY DEF Families
    <3>2. InferRuntime({"claude"}) = IF hits = {} THEN "Vllm"
                                     ELSE Families[CHOOSE i \in hits : \A j \in hits : i <= j].kind
      BY DEF InferRuntime
    <3> HIDE DEF hits
    <3>3. (CHOOSE i \in hits : \A j \in hits : i <= j) = 2
      BY <3>1
    <3>4. Families[2].kind = "Anthropic"
      BY DEF Families
    <3> QED BY <3>1, <3>2, <3>3, <3>4
  <2>6. EffectiveRuntime(e) \in {"OpenAi", "Anthropic"}
    BY <2>1, <2>3, <2>4, <2>5, Zenon
  <2>7. TransportKind(EffectiveRuntime(e)) = "RemoteNetwork"
    <3>1. TransportKind("OpenAi") = "RemoteNetwork"
      BY DEF TransportKind, RemoteKinds, LocalKinds
    <3>2. TransportKind("Anthropic") = "RemoteNetwork"
      BY DEF TransportKind, RemoteKinds, LocalKinds
    <3> QED BY <2>6, <3>1, <3>2, Zenon
  <2>8. d.runtime # "Vllm"
    BY <2>1 DEF None
  <2> QED BY <1>2, <2>2, <2>7, <2>8 DEF e
<1> QED BY <1>1, <1>2

(* Alternating over two nodes, neither is ever two replicas ahead.         *)
LEMMA Alternating ==
    ASSUME NEW k \in Nat
    PROVE  LET odd == {i \in 1 .. k : (i - 1) % 2 = 0}
               even == {i \in 1 .. k : (i - 1) % 2 = 1}
           IN  /\ Cardinality(odd) \in Nat /\ Cardinality(even) \in Nat
               /\ Cardinality(even) <= Cardinality(odd) /\ Cardinality(odd) <= Cardinality(even) + 1
<1> DEFINE odd == {i \in 1 .. k : (i - 1) % 2 = 0}
           even == {i \in 1 .. k : (i - 1) % 2 = 1}
           rest == odd \ {1}
           down == [i \in even |-> i - 1]
           low == [i \in rest |-> i - 1]
<1>1. IsFiniteSet(odd) /\ IsFiniteSet(even) /\ IsFiniteSet(rest)
  <2>1. IsFiniteSet(1 .. k) /\ odd \subseteq 1 .. k /\ even \subseteq 1 .. k /\ rest \subseteq 1 .. k
    BY FS_Interval
  <2> QED BY <2>1, FS_Subset
<1>2. Cardinality(odd) \in Nat /\ Cardinality(even) \in Nat /\ Cardinality(rest) \in Nat
  BY <1>1, FS_CardinalityType
<1>3. down \in Injection(even, odd)
  BY DEF Injection, IsInjective
<1>4. low \in Injection(rest, even)
  BY DEF Injection, IsInjective
<1> HIDE DEF down, low
<1>5. Cardinality(even) <= Cardinality(odd)
  BY <1>1, <1>3, FS_Injection
<1>6. Cardinality(rest) <= Cardinality(even)
  BY <1>1, <1>4, FS_Injection
<1>7. Cardinality(rest) = IF 1 \in odd THEN Cardinality(odd) - 1 ELSE Cardinality(odd)
  BY <1>1, FS_RemoveElement
<1> HIDE DEF odd, even, rest
<1>8. Cardinality(odd) <= Cardinality(even) + 1
  BY <1>2, <1>6, <1>7
<1> QED BY <1>2, <1>5, <1>8 DEF odd, even

(* Pools of one node and of two, and what an even placement is.            *)
Pools == {<<"n">>, <<"n", "m">>}

IsEven(a, k, pool, gpus) ==
    LET on(node) == {i \in DOMAIN a : a[i].node = node}
        nodes == {pool[i] : i \in DOMAIN pool}
    IN  /\ {a[i].replica_index : i \in DOMAIN a} = 0 .. k - 1
        /\ \A i \in DOMAIN a : a[i].node \in nodes /\ a[i].gpus = gpus
        /\ \A m, n \in nodes : Cardinality(on(m)) <= Cardinality(on(n)) + 1

(* The round robin over one node or two is even.                           *)
LEMMA RoundIsEven ==
    ASSUME NEW d, NEW k \in Nat, d.replicas = k, NEW pool \in Pools, NEW gpus
    PROVE  IsEven(RoundRobin(d, pool, gpus), k, pool, gpus)
<1> DEFINE a == RoundRobin(d, pool, gpus)
           on(node) == {i \in DOMAIN a : a[i].node = node}
           nodes == {pool[i] : i \in DOMAIN pool}
<1>1. /\ DOMAIN a = 1 .. k
      /\ \A i \in 1 .. k : /\ a[i].replica_index = i - 1 /\ a[i].gpus = gpus
                           /\ a[i].node = pool[((i - 1) % Len(pool)) + 1]
  BY DEF RoundRobin
<1> HIDE DEF a
<1>2. {a[i].replica_index : i \in DOMAIN a} = 0 .. k - 1
  <2>1. \A x \in 0 .. k - 1 : x + 1 \in 1 .. k /\ a[x + 1].replica_index = x
    BY <1>1
  <2>2. \A i \in 1 .. k : a[i].replica_index \in 0 .. k - 1
    BY <1>1
  <2>3. ASSUME NEW x \in 0 .. k - 1 PROVE x \in {a[i].replica_index : i \in DOMAIN a}
    BY <1>1, <2>1
  <2>4. ASSUME NEW i \in DOMAIN a PROVE a[i].replica_index \in 0 .. k - 1
    BY <1>1, <2>2
  <2> QED BY <2>3, <2>4, Zenon
<1>3. CASE pool = <<"n">>
  <2>1. nodes = {"n"} /\ Len(pool) = 1 /\ pool[1] = "n"
    BY <1>3
  <2>2. \A i \in 1 .. k : a[i].node = "n"
    BY <1>1, <2>1
  <2>3. on("n") = 1 .. k
    BY <1>1, <2>2
  <2> HIDE DEF on, nodes
  <2>4. Cardinality(on("n")) \in Nat
    <3>1. IsFiniteSet(1 .. k)
      BY FS_Interval
    <3> QED BY <2>3, <3>1, FS_CardinalityType
  <2>5. \A m, n \in nodes : Cardinality(on(m)) <= Cardinality(on(n)) + 1
    BY <2>1, <2>4
  <2>6. \A i \in DOMAIN a : a[i].node \in nodes /\ a[i].gpus = gpus
    BY <1>1, <2>1, <2>2
  <2> QED BY <1>2, <2>5, <2>6, Zenon DEF on, nodes, a, IsEven
<1>4. CASE pool = <<"n", "m">>
  <2> DEFINE odd == {i \in 1 .. k : (i - 1) % 2 = 0}
             even == {i \in 1 .. k : (i - 1) % 2 = 1}
  <2>1. nodes = {"n", "m"} /\ Len(pool) = 2 /\ pool[1] = "n" /\ pool[2] = "m"
    BY <1>4
  <2>2. \A i \in 1 .. k : /\ (i - 1) % 2 \in {0, 1}
                          /\ (i - 1) % 2 = 0 => a[i].node = "n"
                          /\ (i - 1) % 2 = 1 => a[i].node = "m"
    BY <1>1, <2>1
  <2>3. on("n") = odd /\ on("m") = even
    BY <1>1, <2>2
  <2>4. /\ Cardinality(odd) \in Nat /\ Cardinality(even) \in Nat
        /\ Cardinality(even) <= Cardinality(odd) /\ Cardinality(odd) <= Cardinality(even) + 1
    BY Alternating
  <2> HIDE DEF on, nodes, odd, even
  <2>5. \A m, n \in nodes : Cardinality(on(m)) <= Cardinality(on(n)) + 1
    <3>1. /\ Cardinality(on("n")) \in Nat /\ Cardinality(on("m")) \in Nat
          /\ Cardinality(on("m")) <= Cardinality(on("n")) /\ Cardinality(on("n")) <= Cardinality(on("m")) + 1
      BY <2>3, <2>4
    <3>2. ASSUME NEW m \in nodes, NEW n \in nodes PROVE Cardinality(on(m)) <= Cardinality(on(n)) + 1
      <4>1. m \in {"n", "m"} /\ n \in {"n", "m"}
        BY <2>1
      <4>2. CASE m = "n" /\ n = "n"
        BY <3>1, <4>2
      <4>3. CASE m = "n" /\ n = "m"
        BY <3>1, <4>3
      <4>4. CASE m = "m" /\ n = "n"
        BY <3>1, <4>4
      <4>5. CASE m = "m" /\ n = "m"
        BY <3>1, <4>5
      <4> QED BY <4>1, <4>2, <4>3, <4>4, <4>5
    <3> QED BY <3>2
  <2>6. \A i \in DOMAIN a : a[i].node \in nodes /\ a[i].gpus = gpus
    BY <1>1, <2>1, <2>2
  <2> QED BY <1>2, <2>5, <2>6, Zenon DEF on, nodes, a, IsEven
<1> QED BY <1>3, <1>4 DEF Pools

(* Placed on a pool, every replica with the same GPU ordinals.             *)
PlacedOn(placed, d, pool, error, gpus) ==
    placed = IF pool = <<>> THEN [error |-> error, assignments |-> <<>>]
             ELSE [error |-> None, assignments |-> RoundRobin(d, pool, gpus)]

(* Placing takes the pool of the transport.                                *)
LEMMA PlaceIs ==
    ASSUME NEW d, NEW c
    PROVE  /\ TransportKind(EffectiveRuntime(d)) = "LocalGpu" =>
                  PlacedOn(Place(d, c), d, c.gpu_nodes, "NoGpuNodes", 0 .. GpusWanted(d) - 1)
           /\ TransportKind(EffectiveRuntime(d)) = "RemoteNetwork" =>
                  PlacedOn(Place(d, c), d, c.egress_nodes, "NoEgressNodes", {})
BY DEF Place, PlacedOn

(* What PlacedEvenly says of one record and one pair of pools.             *)
PlacedWell(r, k, gpu, egress) ==
    LET d == [r EXCEPT !.replicas = k]
        placed == Place(d, [gpu_nodes |-> gpu, egress_nodes |-> egress])
        local == r.runtime = "Vllm"
        pool == IF local THEN gpu ELSE egress
        on(node) == {i \in DOMAIN placed.assignments : placed.assignments[i].node = node}
        nodes == {pool[i] : i \in DOMAIN pool}
    IN  IF pool = <<>> THEN placed.error # None
        ELSE /\ {placed.assignments[i].replica_index : i \in DOMAIN placed.assignments} = 0 .. k - 1
             /\ \A i \in DOMAIN placed.assignments :
                   /\ placed.assignments[i].node \in nodes
                   /\ Cardinality(placed.assignments[i].gpus) = IF local THEN 1 ELSE 0
             /\ \A m, n \in nodes : Cardinality(on(m)) <= Cardinality(on(n)) + 1

(* Every deployment that can be on record is placed evenly.                *)
LEMMA PlaceIsEven ==
    ASSUME NEW r \in Declarable \cup {Gemma}, NEW k \in Nat,
           NEW gpu \in Pools \cup {<<>>}, NEW egress \in Pools \cup {<<>>}
    PROVE  PlacedWell(r, k, gpu, egress)
<1> DEFINE d == [r EXCEPT !.replicas = k]
           placed == Place(d, [gpu_nodes |-> gpu, egress_nodes |-> egress])
           local == r.runtime = "Vllm"
           pool == IF local THEN gpu ELSE egress
           gpus == IF local THEN {0} ELSE {}
           on(node) == {i \in DOMAIN placed.assignments : placed.assignments[i].node = node}
           nodes == {pool[i] : i \in DOMAIN pool}
<1>1. /\ r = Gemma => TransportKind(EffectiveRuntime(d)) = "LocalGpu" /\ GpusWanted(d) = 1
      /\ r # Gemma => TransportKind(EffectiveRuntime(d)) = "RemoteNetwork"
      /\ local <=> r = Gemma
      /\ d.replicas = k
  BY WhereItRuns
<1>2. 0 .. 1 - 1 = {0}
  OBVIOUS
<1> HIDE DEF d
<1>3. \E error \in {"NoGpuNodes", "NoEgressNodes"} : PlacedOn(placed, d, pool, error, gpus)
  <2> DEFINE c == [gpu_nodes |-> gpu, egress_nodes |-> egress]
  <2>c. c.gpu_nodes = gpu /\ c.egress_nodes = egress /\ placed = Place(d, c)
    OBVIOUS
  <2> HIDE DEF c, placed
  <2>1. CASE local
    <3>1. TransportKind(EffectiveRuntime(d)) = "LocalGpu" /\ GpusWanted(d) = 1
      BY <1>1, <2>1
    <3>2. PlacedOn(Place(d, c), d, c.gpu_nodes, "NoGpuNodes", 0 .. GpusWanted(d) - 1)
      BY <3>1, PlaceIs, Zenon
    <3>3. 0 .. GpusWanted(d) - 1 = {0}
      BY <1>2, <3>1
    <3>4. pool = gpu /\ gpus = {0}
      BY <2>1
    <3> HIDE DEF pool, gpus, local
    <3> QED BY <2>c, <3>2, <3>3, <3>4, Zenon
  <2>2. CASE ~local
    <3>1. TransportKind(EffectiveRuntime(d)) = "RemoteNetwork"
      BY <1>1, <2>2
    <3>2. PlacedOn(Place(d, c), d, c.egress_nodes, "NoEgressNodes", {})
      BY <3>1, PlaceIs, Zenon
    <3>3. pool = egress /\ gpus = {}
      BY <2>2
    <3> HIDE DEF pool, gpus, local
    <3> QED BY <2>c, <3>2, <3>3, Zenon
  <2> QED BY <2>1, <2>2
<1>4. CASE pool = <<>>
  <2>1. placed.error # None
    BY <1>3, <1>4 DEF None, PlacedOn
  <2> QED BY <1>4, <2>1, Zenon DEF PlacedWell, d
<1>5. CASE pool # <<>>
  <2>1. placed.assignments = RoundRobin(d, pool, gpus)
    BY <1>3, <1>5 DEF PlacedOn
  <2>2. pool \in Pools
    BY <1>5
  <2>3. Cardinality(gpus) = IF local THEN 1 ELSE 0
    BY FS_EmptySet, FS_Singleton
  <2> HIDE DEF placed, pool, gpus, local
  <2>4. /\ {placed.assignments[i].replica_index : i \in DOMAIN placed.assignments} = 0 .. k - 1
        /\ \A i \in DOMAIN placed.assignments :
              placed.assignments[i].node \in nodes /\ placed.assignments[i].gpus = gpus
        /\ \A m, n \in nodes : Cardinality(on(m)) <= Cardinality(on(n)) + 1
    <3>1. IsEven(placed.assignments, k, pool, gpus)
      BY <1>1, <2>1, <2>2, RoundIsEven
    <3> QED BY <3>1, Zenon DEF IsEven
  <2>5. \A i \in DOMAIN placed.assignments :
           placed.assignments[i].node \in nodes /\ Cardinality(placed.assignments[i].gpus) = IF local THEN 1 ELSE 0
    BY <2>3, <2>4
  <2> QED BY <1>5, <2>4, <2>5, Zenon DEF PlacedWell, d, placed, pool, local
<1> QED BY <1>4, <1>5

(***************************************************************************)
(* The manager's records are right, however many deployments are declared  *)
(* and removed, in every environment: what the last message that counts    *)
(* left under each name, the local model applied exactly when the probe's  *)
(* gates all pass, each record placed evenly (deployment_manager.rs,       *)
(* probe.rs, placement.rs).                                                *)
(***************************************************************************)
THEOREM RecordsRight == FrontSpec => []RecordsAreRight
<1>1. FrontInit => BootInv
  <2> SUFFICES ASSUME FrontInit PROVE BootInv
    OBVIOUS
  <2>1. /\ boot = "apply" /\ told = <<>> /\ records = {}
        /\ host \in [env : Environments, model : Models]
    BY DEF FrontInit, ServingInit
  <2>2. host.env \in Environments /\ host.model \in Models
    BY <2>1
  <2>3. \A n : Latest(<<>>, n) = {}
    BY DEF Latest, Named
  <2>4. <<>> \in Seq(Told) /\ DOMAIN <<>> = {} /\ Range(<<>>) = {}
    BY EmptySeq DEF Range
  <2> QED BY <2>1, <2>2, <2>3, <2>4 DEF BootInv
<1>2. BootInv /\ [FrontNext]_frontVars => BootInv'
  <2> SUFFICES ASSUME BootInv, [FrontNext]_frontVars PROVE BootInv'
    OBVIOUS
  <2>1. CASE ServingNext
    BY <2>1, BootKept
  <2>2. CASE UNCHANGED bootVars
    BY <2>2 DEF bootVars, BootInv
  <2>3. ServingNext \/ UNCHANGED bootVars
    BY DEF FrontNext, frontVars, allVars, servingVars
  <2> QED BY <2>1, <2>2, <2>3
<1>3. BootInv => RecordsAreRight
  <2> SUFFICES ASSUME BootInv PROVE RecordsAreRight
    OBVIOUS
  <2>1. LastMessageWins
    <3>1. \A i \in DOMAIN told : {r \in records : r.name = told[i].name} = Latest(told, told[i].name)
      BY DEF BootInv
    <3>2. ASSUME NEW n \in {told[i].name : i \in DOMAIN told}
          PROVE  {r \in records : r.name = n} = Latest(told, n)
      BY <3>1
    <3> QED BY <3>2 DEF LastMessageWins, Latest, Named, Counts, IsValid
  <2>2. ProvisionedIsReady
    BY Zenon DEF BootInv, ProvisionedIsReady, HasWhatItNeeds, Gemma
  <2>3. PlacedEvenly
    <3>1. ASSUME NEW r \in records, NEW k \in 1..4, NEW gpu \in {<<>>, <<"n">>, <<"n", "m">>},
                 NEW egress \in {<<>>, <<"n">>, <<"n", "m">>}
          PROVE  PlacedWell(r, k, gpu, egress)
      <4>1. r \in Declarable \cup {Gemma} /\ k \in Nat
        BY DEF BootInv
      <4>2. gpu \in Pools \cup {<<>>} /\ egress \in Pools \cup {<<>>}
        BY DEF Pools
      <4> QED BY <4>1, <4>2, PlaceIsEven
    <3> QED BY <3>1, Zenon DEF PlacedEvenly, PlacedWell
  <2> QED BY <2>1, <2>2, <2>3 DEF RecordsAreRight
<1> QED BY <1>1, <1>2, <1>3, PTL DEF FrontSpec
=============================================================================
