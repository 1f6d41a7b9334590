--------------------------- MODULE Inside_proofs ----------------------------
(***************************************************************************)
(* Proofs about the gateway, the replacing of a workspace's hosts, the     *)
(* health checks and the start of a replica, and what all the services of  *)
(* Inside promise side by side, for any constants that satisfy             *)
(* InsideAssumption.                                                       *)
(***************************************************************************)
EXTENDS InsideRows_proofs

-----------------------------------------------------------------------------
(* gateway-service *)

\* In the first half of a window a client's counter holds what it got in this
\* half, in the second what it got in both.
Counted ==
  \A i \in Clients :
    /\ half = 0 => ipHits[i] = burst[i].now /\ burst[i].before <= IpLimit
    /\ half = 1 => ipHits[i] = burst[i].before + burst[i].now

\* A prober that is not in a sweep has stored all it got; the gateway stops
\* when it has no request, and exits when it has no prober.
Winding ==
  /\ prober # "sweep" => \A u \in Upstreams : probed[u] = "stored"
  /\ gateway \in {"stopping", "exited"} => \A k \in Calls : proxyCall[k] = Gate!Idle
  /\ gateway = "exited" => prober = "returned"

\* The inductive invariant.
GateInv == Gate!TypeOK /\ Counted /\ Winding

\* What a request may be.
GateCalls == {Gate!Idle} \cup
  [at : {"ip", "endpoint", "token", "route", "forward"}, from : Clients, to : Upstreams]

\* A burst is what one counter held and what the next one holds.
LEMMA GateImplies == GateInv => Gate!BurstsAreBounded /\ Gate!ExitLeavesNothing
<1> SUFFICES ASSUME GateInv PROVE Gate!BurstsAreBounded /\ Gate!ExitLeavesNothing
  OBVIOUS
<1>1. ASSUME NEW i \in Clients PROVE burst[i].before + burst[i].now <= 2 * IpLimit
  <2>1. /\ burst[i] \in [before : Nat, now : Nat] /\ ipHits[i] \in 0 .. IpLimit
        /\ half \in {0, 1} /\ IpLimit \in Nat
    BY InsideAssumption DEF GateInv, Gate!TypeOK
  <2>2. burst[i].before \in Nat /\ burst[i].now \in Nat
    BY <2>1
  <2>3. CASE half = 0
    BY <2>1, <2>2, <2>3 DEF GateInv, Counted
  <2>4. CASE half = 1
    BY <2>1, <2>2, <2>4 DEF GateInv, Counted
  <2> QED
    BY <2>1, <2>3, <2>4
<1>2. Gate!ExitLeavesNothing
  BY DEF GateInv, Winding, Gate!ExitLeavesNothing
<1> QED
  BY <1>1, <1>2 DEF Gate!BurstsAreBounded

\* The invariant holds when New has returned.
LEMMA GateStart == Gate!Init => GateInv
<1> SUFFICES ASSUME Gate!Init PROVE GateInv
  OBVIOUS
<1>1. Gate!TypeOK
  BY InsideAssumption DEF Gate!Init, Gate!TypeOK, Gate!Registered
<1>2. Counted /\ Winding
  BY InsideAssumption DEF Gate!Init, Counted, Winding
<1> QED
  BY <1>1, <1>2 DEF GateInv

\* A request goes on, or ends.
LEMMA GateGoes ==
  ASSUME GateInv, NEW k \in Calls, proxyCall[k].at # "none",
         \/ Gate!Answer(k)
         \/ \E at \in {"endpoint", "token", "route", "forward"} : Gate!Goto(k, at)
  PROVE  /\ proxyCall' \in [Calls -> GateCalls]
         /\ gateway \notin {"stopping", "exited"}
         /\ \A j \in Calls : proxyCall[j] = Gate!Idle => proxyCall'[j] = Gate!Idle
<1>1. proxyCall \in [Calls -> GateCalls]
  BY DEF GateInv, Gate!TypeOK, GateCalls
<1>2. proxyCall[k] # Gate!Idle
  BY DEF Gate!Idle
<1>3. proxyCall[k] \in [at : {"ip", "endpoint", "token", "route", "forward"},
                        from : Clients, to : Upstreams]
  BY <1>1, <1>2 DEF GateCalls
<1>4. gateway \notin {"stopping", "exited"}
  BY <1>2 DEF GateInv, Winding
<1>5. CASE Gate!Answer(k)
  BY <1>1, <1>4, <1>5 DEF Gate!Answer, GateCalls
<1>6. ASSUME NEW at \in {"endpoint", "token", "route", "forward"}, Gate!Goto(k, at)
      PROVE  /\ proxyCall' \in [Calls -> GateCalls]
             /\ \A j \in Calls : proxyCall[j] = Gate!Idle => proxyCall'[j] = Gate!Idle
  <2> DEFINE next == [proxyCall[k] EXCEPT !.at = at]
  <2>1. next \in [at : {"ip", "endpoint", "token", "route", "forward"},
                  from : Clients, to : Upstreams]
    BY <1>3
  <2>2. proxyCall' = [proxyCall EXCEPT ![k] = next]
    BY <1>1, <1>6 DEF Gate!Goto
  <2> HIDE DEF next
  <2>3. next \in GateCalls
    BY <2>1 DEF GateCalls
  <2> QED
    BY <1>1, <1>2, <2>2, <2>3
<1> QED
  BY <1>4, <1>5, <1>6

\* It is inductive: one step for each action.
LEMMA GateStep == GateInv /\ [Gate!Next]_gatewayVars => GateInv'
<1> SUFFICES ASSUME GateInv, [Gate!Next]_gatewayVars PROVE GateInv'
  OBVIOUS
<1> USE DEF Gate!limiterVars, Gate!proberVars
<1>a. /\ Gate!TypeOK /\ Counted /\ Winding
      /\ proxyCall \in [Calls -> GateCalls]
      /\ ipHits \in [Clients -> 0 .. IpLimit]
      /\ endpointHits \in [Upstreams -> 0 .. EndpointLimit]
      /\ burst \in [Clients -> [before : Nat, now : Nat]]
      /\ half \in {0, 1} /\ IpLimit \in Nat /\ EndpointLimit \in Nat
  BY InsideAssumption DEF GateInv, Gate!TypeOK, GateCalls
<1>1. ASSUME NEW k \in Calls, NEW i \in Clients, NEW u \in Upstreams, Gate!Accept(k, i, u)
      PROVE  GateInv'
  <2> DEFINE next == [at |-> "ip", from |-> i, to |-> u]
  <2>1. next \in GateCalls
    BY DEF GateCalls
  <2>2. /\ proxyCall' = [proxyCall EXCEPT ![k] = next] /\ gateway = "up"
        /\ UNCHANGED <<ipHits, endpointHits, half, burst, upstreamUp, healthy, prober, probed,
                       gateway>>
    BY <1>1 DEF Gate!Accept
  <2> HIDE DEF next
  <2>3. proxyCall' \in [Calls -> GateCalls]
    BY <1>a, <2>1, <2>2
  <2>4. Gate!TypeOK'
    BY <1>a, <2>2, <2>3 DEF Gate!TypeOK, GateCalls
  <2>5. Counted' /\ Winding'
    BY <1>a, <2>2 DEF Counted, Winding
  <2> QED
    BY <2>4, <2>5 DEF GateInv
<1>2. ASSUME NEW k \in Calls, Gate!AdmitClient(k)
      PROVE  GateInv'
  <2>1. proxyCall[k].at = "ip" /\ proxyCall[k] # Gate!Idle
    BY <1>2 DEF Gate!AdmitClient, Gate!Idle
  <2>2. PICK i \in Clients : i = proxyCall[k].from
    BY <1>a, <2>1 DEF GateCalls
  <2>3. /\ proxyCall' \in [Calls -> GateCalls]
        /\ gateway \notin {"stopping", "exited"}
        /\ UNCHANGED <<endpointHits, half, upstreamUp, healthy, prober, probed, gateway>>
    BY <1>2, <2>1, GateGoes DEF Gate!AdmitClient
  <2>4. CASE UNCHANGED <<ipHits, burst>>
    <3>1. Gate!TypeOK'
      BY <1>a, <2>3, <2>4 DEF Gate!TypeOK, GateCalls
    <3>2. Counted' /\ Winding'
      BY <1>a, <2>3, <2>4 DEF Counted, Winding
    <3> QED
      BY <3>1, <3>2 DEF GateInv
  <2>5. CASE /\ ipHits[i] < IpLimit
             /\ ipHits' = [ipHits EXCEPT ![i] = @ + 1]
             /\ burst' = [burst EXCEPT ![i].now = @ + 1]
    <3> DEFINE more == [burst[i] EXCEPT !.now = @ + 1]
    <3>1. /\ more \in [before : Nat, now : Nat] /\ more.before = burst[i].before
          /\ more.now = burst[i].now + 1 /\ burst[i].before \in Nat /\ burst[i].now \in Nat
      BY <1>a
    <3>2. burst' = [burst EXCEPT ![i] = more]
      BY <1>a, <2>5
    <3> HIDE DEF more
    <3>3. ipHits' \in [Clients -> 0 .. IpLimit] /\ burst' \in [Clients -> [before : Nat, now : Nat]]
      BY <1>a, <2>5, <3>1, <3>2
    <3>4. Gate!TypeOK'
      BY <1>a, <2>3, <3>3 DEF Gate!TypeOK, GateCalls
    <3>5. ASSUME NEW j \in Clients
          PROVE  /\ half' = 0 => ipHits'[j] = burst'[j].now /\ burst'[j].before <= IpLimit
                 /\ half' = 1 => ipHits'[j] = burst'[j].before + burst'[j].now
      <4>1. CASE j = i
        <5>1. ipHits'[j] = ipHits[i] + 1 /\ burst'[j] = more /\ half' = half
          BY <1>a, <2>3, <2>5, <3>2, <4>1
        <5>2. ipHits[i] \in Nat
          BY <1>a
        <5> QED
          BY <1>a, <3>1, <5>1, <5>2 DEF Counted
      <4>2. CASE j # i
        BY <1>a, <2>3, <2>5, <3>2, <4>2 DEF Counted
      <4> QED
        BY <4>1, <4>2
    <3>6. Counted' /\ Winding'
      BY <1>a, <2>3, <3>5 DEF Counted, Winding
    <3> QED
      BY <3>4, <3>6 DEF GateInv
  <2> QED
    BY <1>2, <2>2, <2>4, <2>5 DEF Gate!AdmitClient, Gate!Allow, Gate!Count
<1>3. ASSUME NEW k \in Calls,
             \/ Gate!AdmitEndpoint(k) \/ Gate!CheckToken(k) \/ Gate!NotImplemented(k)
             \/ Gate!Route(k) \/ Gate!Forward(k)
      PROVE  GateInv'
  <2>1. /\ proxyCall[k].at # "none"
        /\ Gate!Answer(k) \/ \E at \in {"endpoint", "token", "route", "forward"} : Gate!Goto(k, at)
        /\ UNCHANGED <<ipHits, half, burst, upstreamUp, healthy, prober, probed, gateway>>
    BY <1>3 DEF Gate!AdmitEndpoint, Gate!CheckToken, Gate!NotImplemented, Gate!Route,
                Gate!ResolvePathParams, Gate!Forward
  <2>2. endpointHits' \in [Upstreams -> 0 .. EndpointLimit]
    <3>1. CASE endpointHits' = endpointHits
      BY <1>a, <3>1
    <3>2. CASE /\ endpointHits[proxyCall[k].to] < EndpointLimit
               /\ endpointHits' = [endpointHits EXCEPT ![proxyCall[k].to] = @ + 1]
      <4>1. PICK u \in Upstreams : u = proxyCall[k].to
        BY <1>a, <2>1 DEF GateCalls, Gate!Idle
      <4>2. endpointHits[u] + 1 \in 0 .. EndpointLimit
        BY <1>a, <3>2, <4>1
      <4> QED
        BY <1>a, <3>2, <4>1, <4>2
    <3> QED
      BY <1>3, <3>1, <3>2
      DEF Gate!AdmitEndpoint, Gate!CheckToken, Gate!NotImplemented, Gate!Route, Gate!Forward,
          Gate!Allow, Gate!Count
  <2>3. /\ proxyCall' \in [Calls -> GateCalls]
        /\ gateway \notin {"stopping", "exited"}
    BY <2>1, GateGoes
  <2>4. Gate!TypeOK'
    BY <1>a, <2>1, <2>2, <2>3 DEF Gate!TypeOK, GateCalls
  <2>5. Counted' /\ Winding'
    BY <1>a, <2>1, <2>3 DEF Counted, Winding
  <2> QED
    BY <2>4, <2>5 DEF GateInv
<1>4. CASE Gate!Tick
  <2>1. /\ half' = 1 - half
        /\ burst' = [i \in Clients |-> [before |-> burst[i].now, now |-> 0]]
        /\ half = 1 => /\ ipHits' = [i \in Clients |-> 0]
                       /\ endpointHits' = [u \in Upstreams |-> 0]
        /\ half = 0 => UNCHANGED <<ipHits, endpointHits>>
        /\ UNCHANGED <<upstreamUp, healthy, prober, probed, proxyCall, gateway>>
    BY <1>4 DEF Gate!Tick
  <2>2. /\ ipHits' \in [Clients -> 0 .. IpLimit]
        /\ endpointHits' \in [Upstreams -> 0 .. EndpointLimit]
        /\ burst' \in [Clients -> [before : Nat, now : Nat]]
        /\ half' \in {0, 1}
    BY <1>a, <2>1
  <2>3. Gate!TypeOK'
    BY <1>a, <2>1, <2>2 DEF Gate!TypeOK
  <2>4. ASSUME NEW j \in Clients
        PROVE  /\ half' = 0 => ipHits'[j] = burst'[j].now /\ burst'[j].before <= IpLimit
               /\ half' = 1 => ipHits'[j] = burst'[j].before + burst'[j].now
    <3>1. /\ burst'[j].before = burst[j].now /\ burst'[j].now = 0
          /\ burst[j].now \in Nat /\ burst[j].before \in Nat /\ ipHits[j] \in 0 .. IpLimit
      BY <1>a, <2>1
    <3>2. CASE half = 1
      BY <1>a, <2>1, <3>1, <3>2 DEF Counted
    <3>3. CASE half = 0
      BY <1>a, <2>1, <3>1, <3>3 DEF Counted
    <3> QED
      BY <1>a, <3>2, <3>3
  <2>5. Counted' /\ Winding'
    BY <1>a, <2>1, <2>4 DEF Counted, Winding
  <2> QED
    BY <2>3, <2>5 DEF GateInv
<1>5. ASSUME NEW u \in Upstreams, Gate!Probe(u) \/ Gate!StoreProbe(u)
      PROVE  GateInv'
  <2>1. /\ prober = "sweep"
        /\ UNCHANGED <<ipHits, endpointHits, half, burst, upstreamUp, prober, proxyCall, gateway>>
    BY <1>5, <1>a DEF Gate!Probe, Gate!StoreProbe, Winding
  <2>2. Gate!TypeOK'
    BY <1>5, <1>a, <2>1 DEF Gate!Probe, Gate!StoreProbe, Gate!TypeOK
  <2>3. Counted' /\ Winding'
    BY <1>a, <2>1 DEF Counted, Winding
  <2> QED
    BY <2>2, <2>3 DEF GateInv
<1>6. CASE Gate!SweepEnds \/ Gate!SweepAgain \/ Gate!ProberReturns
  <2>1. Gate!TypeOK'
    BY <1>6, <1>a DEF Gate!SweepEnds, Gate!SweepAgain, Gate!ProberReturns, Gate!TypeOK, Gate!Unprobed
  <2>2. Counted' /\ Winding'
    BY <1>6, <1>a DEF Gate!SweepEnds, Gate!SweepAgain, Gate!ProberReturns, Counted, Winding
  <2> QED
    BY <2>1, <2>2 DEF GateInv
<1>7. ASSUME NEW u \in Upstreams, Gate!UpstreamChanges(u)
      PROVE  GateInv'
  <2>1. Gate!TypeOK'
    BY <1>7, <1>a DEF Gate!UpstreamChanges, Gate!TypeOK
  <2>2. Counted' /\ Winding'
    BY <1>7, <1>a DEF Gate!UpstreamChanges, Counted, Winding
  <2> QED
    BY <2>1, <2>2 DEF GateInv
<1>8. CASE Gate!Signal \/ Gate!Drained \/ Gate!Forced \/ Gate!StopReturns
  <2>1. Gate!TypeOK'
    BY <1>8, <1>a DEF Gate!Signal, Gate!Drained, Gate!Forced, Gate!StopReturns, Gate!TypeOK
  <2>2. Counted' /\ Winding'
    BY <1>8, <1>a
    DEF Gate!Signal, Gate!Drained, Gate!Forced, Gate!StopReturns, Counted, Winding
  <2> QED
    BY <2>1, <2>2 DEF GateInv
<1>9. CASE UNCHANGED gatewayVars
  BY <1>9, <1>a DEF gatewayVars, GateInv, Gate!TypeOK, Counted, Winding
<1> QED
  BY <1>1, <1>2, <1>3, <1>4, <1>5, <1>6, <1>7, <1>8, <1>9 DEF Gate!Next

-----------------------------------------------------------------------------
(* workspace-service *)

\* A request that replaces hosts has a workspace to do it for; while it is
\* calm, the hosts there are now are those it wants and has not yet to add,
\* and those it has yet to drop.
Exact(c) ==
  /\ c.op \in {"list", "update", "replace"} => Space!Exists(c.id)
  /\ c.op = "replace" => c.drop \cap c.wanted = {} /\ c.add \subseteq c.wanted
  /\ c.op = "replace" /\ c.calm => \A h \in Hosts :
       <<c.id, h>> \in members <=> (h \in c.wanted /\ h \notin c.add) \/ h \in c.drop

\* The inductive invariant.
SpaceInv == Space!TypeOK /\ \A k \in Calls : Exact(wsCall[k])

\* Deleted rows are as they were.
WorkspacesStay == \A w \in workspaces : w.deleted => w \in workspaces'

\* The record of a request that is replacing hosts.
Replacement ==
  [op : {"replace"}, id : WorkspaceIds, wanted : SUBSET Hosts,
   drop : SUBSET Hosts, add : SUBSET Hosts, calm : BOOLEAN]

\* What the op of a call says of its fields.
LEMMA SpaceCalls ==
  /\ Space!Idle \in Space!Call /\ Exact(Space!Idle)
  /\ \A id \in WorkspaceIds, todo \in SUBSET Hosts :
       [op |-> "attach", id |-> id, todo |-> todo] \in Space!Call
  /\ \A op \in {"list", "update"}, id \in WorkspaceIds, wanted \in SUBSET Hosts :
       [op |-> op, id |-> id, wanted |-> wanted] \in Space!Call
  /\ Replacement \subseteq Space!Call
  /\ \A op \in {"page", "view", "hosts"}, u \in WorkspaceUsers :
       [op |-> op, by |-> u] \in Space!Call
  /\ \A c \in Space!Call :
       /\ c.op = "attach" =>
            c \in [op : {"attach"}, id : WorkspaceIds, todo : SUBSET Hosts]
       /\ c.op \in {"list", "update"} =>
            c \in [op : {"list", "update"}, id : WorkspaceIds, wanted : SUBSET Hosts]
       /\ c.op = "replace" => c \in Replacement
<1>1. Exact(Space!Idle)
  BY DEF Exact, Space!Idle
<1>2. \A c \in Space!Call :
       /\ c.op = "attach" =>
            c \in [op : {"attach"}, id : WorkspaceIds, todo : SUBSET Hosts]
       /\ c.op \in {"list", "update"} =>
            c \in [op : {"list", "update"}, id : WorkspaceIds, wanted : SUBSET Hosts]
       /\ c.op = "replace" => c \in Replacement
  BY DEF Space!Call, Space!Idle, Replacement
<1> QED
  BY <1>1, <1>2 DEF Space!Call, Replacement

\* The strengthening implies what it is for.
LEMMA SpaceImplies == SpaceInv => Space!ReplacingIsExact
<1> SUFFICES ASSUME SpaceInv, NEW k \in Calls, Space!Replaced(k), wsCall[k].calm
             PROVE  Space!ListHosts(wsCall[k].id) = wsCall[k].wanted
  BY DEF Space!ReplacingIsExact
<1>1. PICK c \in Space!Call : c = wsCall[k] /\ Exact(c)
  BY DEF SpaceInv, Space!TypeOK
<1>2. c.op = "replace" /\ c.drop = {} /\ c.add = {} /\ c.calm
  BY <1>1 DEF Space!Replaced
<1>3. c.wanted \subseteq Hosts
  BY <1>1, <1>2, SpaceCalls DEF Replacement
<1> QED
  BY <1>1, <1>2, <1>3 DEF Exact, Space!ListHosts

\* The invariant holds of empty tables.
LEMMA SpaceStart == Space!Init => SpaceInv
  BY SpaceCalls DEF Space!Init, SpaceInv, Space!TypeOK

\* A request goes on, and no host of a workspace is written.
LEMMA SpaceGoes ==
  ASSUME SpaceInv, NEW k \in Calls, NEW next \in Space!Call, Space!Become(k, next),
         UNCHANGED members,
         workspaces' \subseteq Space!Row,
         \A w, v \in workspaces' : w.id = v.id => w = v,
         \A id : Space!Exists(id) => Space!Exists(id)',
         Exact(next)'
  PROVE  SpaceInv'
<1>1. Space!TypeOK'
  BY DEF SpaceInv, Space!TypeOK, Space!Become
<1>2. \A c : Exact(c) => Exact(c)'
  BY DEF Exact
<1>3. \A j \in Calls : wsCall'[j] = IF j = k THEN next ELSE wsCall[j]
  BY DEF SpaceInv, Space!TypeOK, Space!Become
<1>4. ASSUME NEW j \in Calls PROVE Exact(wsCall[j])'
  <2>1. CASE j = k
    BY <1>3, <2>1 DEF Exact, Space!Exists
  <2>2. CASE j # k
    <3>1. PICK c : c = wsCall[j]
      OBVIOUS
    <3>2. c = wsCall'[j] /\ Exact(c)'
      BY <1>2, <1>3, <2>2, <3>1 DEF SpaceInv
    <3> QED
      BY <3>2 DEF Exact, Space!Exists
  <2> QED
    BY <2>1, <2>2
<1> QED
  BY <1>1, <1>4 DEF SpaceInv

\* A request writes the hosts of a workspace; the others that do are no
\* longer calm.
LEMMA SpaceWrites ==
  ASSUME SpaceInv, NEW k \in Calls, NEW next \in Space!Call, NEW id \in WorkspaceIds,
         UNCHANGED workspaces,
         members' \subseteq WorkspaceIds \X Hosts,
         \A i, h : i # id => (<<i, h>> \in members' <=> <<i, h>> \in members),
         wsCall' \in [Calls -> {wsCall'[j] : j \in Calls}],
         \A j \in Calls : wsCall'[j] = IF j = k THEN next ELSE Space!Disturb(k, id)[j],
         Exact(next)'
  PROVE  SpaceInv'
<1>a. wsCall \in [Calls -> Space!Call] /\ \A j \in Calls : Exact(wsCall[j])
  BY DEF SpaceInv, Space!TypeOK
<1>1. ASSUME NEW j \in Calls, NEW c, c = wsCall[j], NEW d, d = Space!Disturb(k, id)[j], j # k
      PROVE  d \in Space!Call /\ Exact(d)'
  <2>1. d = IF c.op = "replace" /\ c.id = id THEN [c EXCEPT !.calm = FALSE] ELSE c
    BY <1>1 DEF Space!Disturb
  <2>2. c \in Space!Call /\ Exact(c)
    BY <1>1, <1>a
  <2>3. CASE c.op = "replace" /\ c.id = id
    <3>1. c \in Replacement /\ d = [c EXCEPT !.calm = FALSE]
      BY <2>1, <2>2, <2>3, SpaceCalls
    <3>2. /\ d \in Replacement /\ d.op = "replace" /\ ~d.calm
          /\ d.id = c.id /\ d.drop = c.drop /\ d.wanted = c.wanted /\ d.add = c.add
      BY <3>1 DEF Replacement
    <3>3. Exact(d)'
      BY <2>2, <2>3, <3>2 DEF Exact, Space!Exists
    <3> QED
      BY <3>2, <3>3, SpaceCalls
  <2>4. CASE ~(c.op = "replace" /\ c.id = id)
    <3>1. d = c
      BY <2>1, <2>4
    <3>2. Exact(c)'
      BY <2>2, <2>4 DEF Exact, Space!Exists
    <3> QED
      BY <2>2, <3>1, <3>2
  <2> QED
    BY <2>3, <2>4
<1>2. ASSUME NEW j \in Calls PROVE wsCall'[j] \in Space!Call /\ Exact(wsCall[j])'
  <2>1. CASE j = k
    BY <2>1 DEF Exact, Space!Exists
  <2>2. CASE j # k
    <3>1. PICK c, d : c = wsCall[j] /\ d = Space!Disturb(k, id)[j]
      OBVIOUS
    <3>2. d \in Space!Call /\ Exact(d)' /\ d = wsCall'[j]
      BY <1>1, <2>2, <3>1
    <3> QED
      BY <3>2 DEF Exact, Space!Exists
  <2> QED
    BY <2>1, <2>2
<1>3. wsCall' \in [Calls -> Space!Call]
  BY <1>2
<1>4. Space!TypeOK'
  BY <1>3 DEF SpaceInv, Space!TypeOK
<1> QED
  BY <1>2, <1>4 DEF SpaceInv

\* Every step of the service keeps it.
LEMMA SpaceStep ==
  ASSUME SpaceInv, [Space!Next]_workspaceVars
  PROVE  SpaceInv' /\ WorkspacesStay
<1>a. /\ workspaces \subseteq Space!Row /\ wsCall \in [Calls -> Space!Call]
      /\ \A w, v \in workspaces : w.id = v.id => w = v
      /\ members \subseteq WorkspaceIds \X Hosts
      /\ \A k \in Calls : wsCall[k] \in Space!Call /\ Exact(wsCall[k])
  BY DEF SpaceInv, Space!TypeOK
<1>1. ASSUME NEW k \in Calls, NEW next \in Space!Call, Space!Become(k, next), Exact(next),
             UNCHANGED <<workspaces, members>>
      PROVE  SpaceInv' /\ WorkspacesStay
  <2>1. Exact(next)' /\ \A id : Space!Exists(id) => Space!Exists(id)'
    BY <1>1 DEF Exact, Space!Exists
  <2> QED
    BY <1>1, <1>a, <2>1, SpaceGoes DEF WorkspacesStay
<1>2. ASSUME NEW k \in Calls, NEW u \in WorkspaceUsers, NEW name \in Texts,
             NEW todo \in SUBSET Hosts, Space!CreateWorkspace(k, u, name, todo)
      PROVE  SpaceInv' /\ WorkspacesStay
  <2>1. PICK id \in WorkspaceIds :
          /\ Space!InsertWorkspace(id, u, name)
          /\ Space!Become(k, [op |-> "attach", id |-> id, todo |-> todo])
    BY <1>2 DEF Space!CreateWorkspace
  <2>2. PICK next, row : /\ next = [op |-> "attach", id |-> id, todo |-> todo]
                         /\ row = [id |-> id, user |-> u, name |-> name, deleted |-> FALSE]
    OBVIOUS
  <2>3. row \in Space!Row /\ row.id = id
    BY <2>2 DEF Space!Row
  <2>4. workspaces' = workspaces \cup {row} /\ UNCHANGED members /\ \A w \in workspaces : w.id # id
    BY <1>2, <2>1, <2>2 DEF Space!InsertWorkspace, Space!CreateWorkspace
  <2>5. /\ workspaces' \subseteq Space!Row /\ \A w, v \in workspaces' : w.id = v.id => w = v
        /\ \A i : Space!Exists(i) => Space!Exists(i)'
        /\ WorkspacesStay
    BY <1>a, <2>3, <2>4 DEF Space!Exists, WorkspacesStay
  <2>6. next \in Space!Call /\ Exact(next)'
    BY <2>2, SpaceCalls DEF Exact
  <2> QED
    BY <2>1, <2>2, <2>4, <2>5, <2>6, SpaceGoes
<1>3. ASSUME NEW k \in Calls, NEW id \in WorkspaceIds, NEW h \in Hosts, NEW next \in Space!Call,
             UNCHANGED workspaces,
             members' \in {members, members \cup {<<id, h>>}, members \ {<<id, h>>}},
             wsCall' = [Space!Disturb(k, id) EXCEPT ![k] = next],
             Exact(next)'
      PROVE  SpaceInv' /\ WorkspacesStay
  <2>1. members' \subseteq WorkspaceIds \X Hosts
    BY <1>3, <1>a
  <2>2. \A i, g : i # id => (<<i, g>> \in members' <=> <<i, g>> \in members)
    BY <1>3
  <2>3. /\ wsCall' \in [Calls -> {wsCall'[j] : j \in Calls}]
        /\ \A j \in Calls : wsCall'[j] = IF j = k THEN next ELSE Space!Disturb(k, id)[j]
    BY <1>3 DEF Space!Disturb
  <2> QED
    BY <1>3, <2>1, <2>2, <2>3, SpaceWrites DEF WorkspacesStay
<1>4. ASSUME NEW k \in Calls, Space!AttachNext(k)
      PROVE  SpaceInv' /\ WorkspacesStay
  <2>1. PICK c \in Space!Call : c = wsCall[k] /\ c.op = "attach"
    BY <1>4, <1>a DEF Space!AttachNext
  <2>2. c \in [op : {"attach"}, id : WorkspaceIds, todo : SUBSET Hosts]
    BY <2>1, SpaceCalls
  <2>3. CASE Space!Answer(k) /\ UNCHANGED <<workspaces, members>>
    BY <1>1, <2>3, SpaceCalls DEF Space!Answer
  <2>4. ASSUME NEW h \in c.todo,
               Space!InsertHost(c.id, h) \/ UNCHANGED members,
               wsCall' = [Space!Disturb(k, c.id) EXCEPT ![k] = [c EXCEPT !.todo = @ \ {h}]],
               UNCHANGED workspaces
        PROVE  SpaceInv' /\ WorkspacesStay
    <3>1. PICK next : next = [c EXCEPT !.todo = @ \ {h}]
      OBVIOUS
    <3>2. next \in [op : {"attach"}, id : WorkspaceIds, todo : SUBSET Hosts] /\ next.op = "attach"
      BY <2>2, <3>1
    <3>3. next \in Space!Call /\ Exact(next)'
      BY <3>2 DEF Space!Call, Exact
    <3>4. members' \in {members, members \cup {<<c.id, h>>}, members \ {<<c.id, h>>}}
      BY <2>4 DEF Space!InsertHost
    <3>5. c.id \in WorkspaceIds /\ h \in Hosts
      BY <2>2
    <3> QED
      BY <1>3, <2>4, <3>1, <3>3, <3>4, <3>5
  <2> QED
    BY <1>4, <2>1, <2>3, <2>4 DEF Space!AttachNext
<1>5. ASSUME NEW k \in Calls,
             \/ \E u \in WorkspaceUsers : Space!CountWorkspaces(k, u) \/ Space!GetWorkspace(k, u)
             \/ Space!AnswerRead(k) \/ Space!AnswerUpdate(k)
      PROVE  SpaceInv' /\ WorkspacesStay
  <2>1. \A op \in {"page", "view", "hosts"}, u \in WorkspaceUsers : Exact([op |-> op, by |-> u])
    BY DEF Exact
  <2> QED
    BY <1>1, <1>5, <2>1, SpaceCalls
    DEF Space!CountWorkspaces, Space!GetWorkspace, Space!AnswerRead, Space!AnswerUpdate, Space!Answer
<1>6. ASSUME NEW k \in Calls, NEW id \in WorkspaceIds, NEW wanted \in SUBSET Hosts,
             Space!UpdateWorkspace(k, id, wanted)
      PROVE  SpaceInv' /\ WorkspacesStay
  <2>1. PICK next : next = [op |-> "update", id |-> id, wanted |-> wanted]
    OBVIOUS
  <2>2. Space!Exists(id) /\ Space!Become(k, next) /\ UNCHANGED <<workspaces, members>>
    BY <1>6, <2>1 DEF Space!UpdateWorkspace, Space!GetWorkspaceByID, Space!Exists
  <2>3. next \in Space!Call /\ Exact(next)
    BY <2>1, <2>2, SpaceCalls DEF Exact
  <2> QED
    BY <1>1, <2>2, <2>3
<1>7. ASSUME NEW k \in Calls, NEW name \in Texts, Space!StoreWorkspace(k, name)
      PROVE  SpaceInv' /\ WorkspacesStay
  <2>1. PICK c \in Space!Call : c = wsCall[k] /\ c.op = "update" /\ Exact(c)
    BY <1>7, <1>a DEF Space!StoreWorkspace
  <2>2. UNCHANGED members
    BY <1>7 DEF Space!StoreWorkspace
  <2>3. CASE Space!Answer(k) /\ UNCHANGED workspaces
    BY <1>1, <2>2, <2>3, SpaceCalls DEF Space!Answer
  <2>4. CASE /\ Space!UpdateRow(c.id, name) \/ UNCHANGED workspaces
             /\ Space!Become(k, [c EXCEPT !.op = "list"])
    <3>1. PICK next : next = [c EXCEPT !.op = "list"]
      OBVIOUS
    <3>2. c \in [op : {"list", "update"}, id : WorkspaceIds, wanted : SUBSET Hosts]
      BY <2>1, SpaceCalls
    <3>3. /\ next \in [op : {"list", "update"}, id : WorkspaceIds, wanted : SUBSET Hosts]
          /\ next.op = "list" /\ next.id = c.id
      BY <3>1, <3>2
    <3>4. next \in Space!Call /\ Exact(next)
      BY <2>1, <3>3 DEF Space!Call, Exact
    <3>5. CASE UNCHANGED workspaces
      BY <1>1, <2>2, <2>4, <3>1, <3>4, <3>5
    <3>6. CASE Space!UpdateRow(c.id, name)
      <4>1. PICK g : g = [w \in workspaces |-> IF w.id = c.id /\ ~w.deleted
                                                 THEN [w EXCEPT !.name = name] ELSE w]
        OBVIOUS
      <4>2. \A v : v \in workspaces' <=> \E w \in workspaces : v = g[w]
        BY <3>6, <4>1 DEF Space!UpdateRow, Space!GetWorkspaceByID
      <4>3. \A w \in workspaces : g[w] \in Space!Row /\ g[w].id = w.id /\ (w.deleted => g[w] = w)
        BY <1>a, <4>1 DEF Space!Row
      <4>4. \A i : Space!Exists(i) => Space!Exists(i)'
        BY <4>2, <4>3 DEF Space!Exists
      <4>5. /\ workspaces' \subseteq Space!Row /\ \A w, v \in workspaces' : w.id = v.id => w = v
            /\ WorkspacesStay
        BY <1>a, <4>2, <4>3 DEF WorkspacesStay
      <4>6. Exact(next)'
        BY <2>2, <3>4, <4>4 DEF Exact
      <4> QED
        BY <2>2, <2>4, <3>1, <3>4, <4>4, <4>5, <4>6, SpaceGoes
    <3> QED
      BY <2>4, <3>5, <3>6
  <2> QED
    BY <1>7, <2>1, <2>3, <2>4 DEF Space!StoreWorkspace
<1>8. ASSUME NEW k \in Calls, Space!ReplaceHosts(k)
      PROVE  SpaceInv' /\ WorkspacesStay
  <2>1. PICK c \in Space!Call : c = wsCall[k] /\ c.op = "list" /\ Exact(c)
    BY <1>8, <1>a DEF Space!ReplaceHosts
  <2>2. c.id \in WorkspaceIds /\ c.wanted \in SUBSET Hosts
    BY <2>1, SpaceCalls
  <2>3. PICK existing \in SUBSET Space!ListHosts(c.id) :
          Space!Become(k, [op |-> "replace", id |-> c.id, wanted |-> c.wanted,
                           drop |-> existing \ c.wanted, add |-> c.wanted \ existing,
                           calm |-> existing = Space!ListHosts(c.id)])
    BY <1>8, <2>1 DEF Space!ReplaceHosts
  <2>4. PICK calm \in BOOLEAN : calm <=> existing = Space!ListHosts(c.id)
    OBVIOUS
  <2>5. PICK next : next = [op |-> "replace", id |-> c.id, wanted |-> c.wanted,
                            drop |-> existing \ c.wanted, add |-> c.wanted \ existing,
                            calm |-> calm]
    OBVIOUS
  <2>6. /\ existing \subseteq Hosts
        /\ calm => \A h \in Hosts : h \in existing <=> <<c.id, h>> \in members
    BY <2>3, <2>4 DEF Space!ListHosts
  <2>7. next \in Replacement
    BY <2>2, <2>5, <2>6 DEF Replacement
  <2>8. Exact(next)
    BY <2>1, <2>5, <2>6 DEF Exact
  <2>9. Space!Become(k, next) /\ UNCHANGED <<workspaces, members>>
    BY <1>8, <2>3, <2>4, <2>5 DEF Space!ReplaceHosts
  <2> QED
    BY <1>1, <2>7, <2>8, <2>9, SpaceCalls
<1>9. ASSUME NEW k \in Calls, Space!DropNext(k)
      PROVE  SpaceInv' /\ WorkspacesStay
  <2>1. PICK c \in Space!Call : c = wsCall[k] /\ c.op = "replace" /\ Exact(c)
    BY <1>9, <1>a DEF Space!DropNext
  <2>2. c \in Replacement
    BY <2>1, SpaceCalls
  <2>3. PICK h \in c.drop : \E calm \in BOOLEAN :
          /\ calm => Space!DeleteHost(c.id, h) /\ calm = c.calm
          /\ ~calm => Space!DeleteHost(c.id, h) \/ UNCHANGED members
          /\ wsCall' = [Space!Disturb(k, c.id) EXCEPT ![k] = [c EXCEPT !.drop = @ \ {h}, !.calm = calm]]
    <3>1. PICK h \in c.drop :
            \/ /\ Space!DeleteHost(c.id, h)
               /\ wsCall' = [Space!Disturb(k, c.id) EXCEPT ![k] = [c EXCEPT !.drop = @ \ {h}]]
            \/ /\ UNCHANGED members
               /\ wsCall' = [Space!Disturb(k, c.id) EXCEPT ![k] =
                               [c EXCEPT !.drop = @ \ {h}, !.calm = FALSE]]
      BY <1>9, <2>1 DEF Space!DropNext
    <3>2. c.calm \in BOOLEAN /\ [c EXCEPT !.drop = @ \ {h}] = [c EXCEPT !.drop = @ \ {h}, !.calm = c.calm]
      BY <2>2 DEF Replacement
    <3> QED
      BY <3>1, <3>2
  <2>4. PICK calm \in BOOLEAN :
          /\ calm => Space!DeleteHost(c.id, h) /\ calm = c.calm
          /\ ~calm => Space!DeleteHost(c.id, h) \/ UNCHANGED members
          /\ wsCall' = [Space!Disturb(k, c.id) EXCEPT ![k] = [c EXCEPT !.drop = @ \ {h}, !.calm = calm]]
    BY <2>3
  <2>5. PICK next : next = [c EXCEPT !.drop = @ \ {h}, !.calm = calm]
    OBVIOUS
  <2>6. /\ next \in Replacement
        /\ next.op = "replace" /\ next.id = c.id /\ next.wanted = c.wanted /\ next.add = c.add
        /\ next.drop = c.drop \ {h} /\ next.calm = calm
    BY <2>2, <2>5 DEF Replacement
  <2>7. UNCHANGED workspaces /\ h \in Hosts /\ c.id \in WorkspaceIds /\ h \notin c.wanted
    BY <1>9, <2>1, <2>2 DEF Space!DropNext, Replacement, Exact
  <2>8. members' \in {members, members \cup {<<c.id, h>>}, members \ {<<c.id, h>>}}
    BY <2>4 DEF Space!DeleteHost
  <2>9. ASSUME calm, NEW g \in Hosts
        PROVE  <<c.id, g>> \in members' <=> (g \in c.wanted /\ g \notin c.add) \/ g \in next.drop
    BY <2>1, <2>4, <2>6, <2>7, <2>9 DEF Exact, Space!DeleteHost
  <2>10. Exact(next)'
    BY <2>1, <2>6, <2>7, <2>9 DEF Exact, Space!Exists
  <2> QED
    BY <1>3, <2>4, <2>5, <2>6, <2>7, <2>8, <2>10, SpaceCalls
<1>10. ASSUME NEW k \in Calls, Space!AddNext(k)
       PROVE  SpaceInv' /\ WorkspacesStay
  <2>1. PICK c \in Space!Call : c = wsCall[k] /\ c.op = "replace" /\ c.drop = {} /\ Exact(c)
    BY <1>10, <1>a DEF Space!AddNext
  <2>2. c \in Replacement
    BY <2>1, SpaceCalls
  <2>3. PICK h \in c.add : \E calm \in BOOLEAN :
          /\ calm => Space!InsertHost(c.id, h) /\ calm = c.calm
          /\ ~calm => Space!InsertHost(c.id, h) \/ UNCHANGED members
          /\ wsCall' = [Space!Disturb(k, c.id) EXCEPT ![k] = [c EXCEPT !.add = @ \ {h}, !.calm = calm]]
    <3>1. PICK h \in c.add :
            \/ /\ Space!InsertHost(c.id, h)
               /\ wsCall' = [Space!Disturb(k, c.id) EXCEPT ![k] = [c EXCEPT !.add = @ \ {h}]]
            \/ /\ UNCHANGED members
               /\ wsCall' = [Space!Disturb(k, c.id) EXCEPT ![k] =
                               [c EXCEPT !.add = @ \ {h}, !.calm = FALSE]]
      BY <1>10, <2>1 DEF Space!AddNext
    <3>2. c.calm \in BOOLEAN /\ [c EXCEPT !.add = @ \ {h}] = [c EXCEPT !.add = @ \ {h}, !.calm = c.calm]
      BY <2>2 DEF Replacement
    <3> QED
      BY <3>1, <3>2
  <2>4. PICK calm \in BOOLEAN :
          /\ calm => Space!InsertHost(c.id, h) /\ calm = c.calm
          /\ ~calm => Space!InsertHost(c.id, h) \/ UNCHANGED members
          /\ wsCall' = [Space!Disturb(k, c.id) EXCEPT ![k] = [c EXCEPT !.add = @ \ {h}, !.calm = calm]]
    BY <2>3
  <2>5. PICK next : next = [c EXCEPT !.add = @ \ {h}, !.calm = calm]
    OBVIOUS
  <2>6. /\ next \in Replacement
        /\ next.op = "replace" /\ next.id = c.id /\ next.wanted = c.wanted /\ next.drop = {}
        /\ next.add = c.add \ {h} /\ next.calm = calm
    BY <2>1, <2>2, <2>5 DEF Replacement
  <2>7. UNCHANGED workspaces /\ h \in Hosts /\ c.id \in WorkspaceIds /\ Space!Exists(c.id)
    BY <1>10, <2>1, <2>2 DEF Space!AddNext, Replacement, Exact
  <2>8. members' \in {members, members \cup {<<c.id, h>>}, members \ {<<c.id, h>>}}
    BY <2>4 DEF Space!InsertHost
  <2>9. ASSUME calm, NEW g \in Hosts
        PROVE  <<c.id, g>> \in members' <=> g \in c.wanted /\ g \notin next.add
    BY <2>1, <2>4, <2>6, <2>7, <2>9 DEF Exact, Space!InsertHost
  <2>10. Exact(next)'
    BY <2>1, <2>6, <2>7, <2>9 DEF Exact, Space!Exists
  <2> QED
    BY <1>3, <2>4, <2>5, <2>6, <2>7, <2>8, <2>10, SpaceCalls
<1>11. ASSUME NEW k \in Calls, NEW id \in WorkspaceIds, Space!DeleteWorkspace(k, id)
       PROVE  SpaceInv' /\ WorkspacesStay
  <2>1. PICK g : g = [w \in workspaces |-> IF w.id = id /\ ~w.deleted
                                             THEN [w EXCEPT !.deleted = TRUE] ELSE w]
    OBVIOUS
  <2>2. \A v : v \in workspaces' <=> \E w \in workspaces : v = g[w]
    BY <1>11, <2>1 DEF Space!DeleteWorkspace, Space!StoreDeletion, Space!GetWorkspaceByID
  <2>3. \A w \in workspaces : g[w] \in Space!Row /\ g[w].id = w.id /\ (w.deleted => g[w] = w)
    BY <1>a, <2>1 DEF Space!Row
  <2>4. \A i : Space!Exists(i) => Space!Exists(i)'
    BY <2>2, <2>3 DEF Space!Exists
  <2>5. UNCHANGED <<members, wsCall>>
    BY <1>11 DEF Space!DeleteWorkspace
  <2>6. \A c : Exact(c) => Exact(c)'
    BY <2>4, <2>5 DEF Exact
  <2>7. (\A j \in Calls : Exact(wsCall[j]))'
    BY <1>a, <2>4, <2>5 DEF Exact
  <2>8. Space!TypeOK' /\ WorkspacesStay
    BY <1>a, <2>2, <2>3, <2>5 DEF Space!TypeOK, WorkspacesStay
  <2> QED
    BY <2>7, <2>8 DEF SpaceInv
<1>12. ASSUME NEW k \in Calls, NEW id \in WorkspaceIds, NEW h \in Hosts,
              Space!AddHost(k, id, h) \/ Space!RemoveHost(k, id, h)
       PROVE  SpaceInv' /\ WorkspacesStay
  <2>1. /\ wsCall[k] = Space!Idle /\ wsCall' = Space!Disturb(k, id) /\ UNCHANGED workspaces
        /\ members' \in {members, members \cup {<<id, h>>}, members \ {<<id, h>>}}
    BY <1>12 DEF Space!AddHost, Space!RemoveHost, Space!InsertHost, Space!DeleteHost
  <2>2. Space!Disturb(k, id) = [Space!Disturb(k, id) EXCEPT ![k] = Space!Idle]
    BY <2>1 DEF Space!Disturb
  <2>3. Exact(Space!Idle)'
    BY DEF Exact, Space!Idle
  <2> QED
    BY <1>3, <2>1, <2>2, <2>3, SpaceCalls
<1>13. ASSUME UNCHANGED <<workspaces, members>>, wsCall' \in [Calls -> Space!Call],
              \A k \in Calls : wsCall'[k] \in {wsCall[k], Space!Idle}
       PROVE  SpaceInv' /\ WorkspacesStay
  <2>1. \A k \in Calls : Exact(wsCall'[k])
    BY <1>13, <1>a, SpaceCalls
  <2>2. (\A k \in Calls : Exact(wsCall[k]))'
    BY <1>13, <2>1 DEF Exact, Space!Exists
  <2>3. Space!TypeOK'
    BY <1>13, <1>a DEF Space!TypeOK
  <2> QED
    BY <1>13, <2>2, <2>3 DEF SpaceInv, WorkspacesStay
<1>14. CASE Space!Restart
  BY <1>13, <1>14, SpaceCalls DEF Space!Restart
<1>15. CASE UNCHANGED workspaceVars
  BY <1>13, <1>15, <1>a DEF workspaceVars
<1> QED
  BY <1>2, <1>4, <1>5, <1>6, <1>7, <1>8, <1>9, <1>10, <1>11, <1>12, <1>14, <1>15
  DEF Space!Next, Space!workspaceVars

-----------------------------------------------------------------------------
(* health-service *)

\* A request that is being answered, and one whose answer is ready.
Checking ==
  [op : {"checking"}, names : SUBSET Health!Names, todo : SUBSET Health!Names,
   task : [Health!Names -> Health!Task], results : SUBSET Health!Result]
Reporting ==
  [op : {"report"}, names : SUBSET Health!Names, results : SUBSET Health!Result,
   overall : Health!Status]
HealthCalls == {Health!Idle} \cup Checking \cup Reporting

\* Each name asked for waits for its turn, or has a goroutine, or a result,
\* and one of these only; a goroutine that appends holds the slice as it is,
\* and is the only one.
Covered(c) ==
  /\ \A n \in Health!Names :
       /\ n \in c.names <=> \/ n \in c.todo \/ c.task[n] # Health!Done
                            \/ \E r \in c.results : r.name = n
       /\ n \in c.todo => c.task[n] = Health!Done
       /\ n \in c.todo \/ c.task[n] # Health!Done => \A r \in c.results : r.name # n
       /\ c.task[n].at = "appending" => c.task[n].slice = c.results
  /\ \A r, q \in c.results : r.name = q.name => r = q
  /\ \A m, n \in Health!Names :
       c.task[m].at = "appending" /\ c.task[n].at = "appending" => m = n

\* What is reported.
Told(c) ==
  /\ \A n \in Health!Names : n \in c.names <=> \E r \in c.results : r.name = n
  /\ \A r, q \in c.results : r.name = q.name => r = q
  /\ (\E r \in c.results : r.status = "unhealthy") => c.overall = "unhealthy"

\* The inductive invariant.
HealthInv ==
  /\ healthCall \in [Checks -> HealthCalls]
  /\ \A k \in Checks : /\ healthCall[k].op = "checking" => Covered(healthCall[k])
                       /\ healthCall[k].op = "report" => Told(healthCall[k])

\* What the stage of a goroutine says of its fields.
LEMMA Tasks ==
  /\ Health!Done \in Health!Task /\ [at |-> "checking"] \in Health!Task
  /\ \A found \in Health!Status : [at |-> "answered", found |-> found] \in Health!Task
  /\ \A found \in Health!Status, slice \in SUBSET Health!Result :
       [at |-> "appending", found |-> found, slice |-> slice] \in Health!Task
  /\ \A t \in Health!Task : /\ t.at \in {"checking", "answered", "appending"} <=> t # Health!Done
                            /\ t.at \in {"answered", "appending"} => t.found \in Health!Status
<1>1. \A t \in Health!Task : /\ t.at \in {"checking", "answered", "appending"} <=> t # Health!Done
                             /\ t.at \in {"answered", "appending"} => t.found \in Health!Status
  BY DEF Health!Task, Health!Done
<1> QED
  BY <1>1 DEF Health!Task, Health!Done

\* The strengthening implies what it is for.
LEMMA HealthImplies == HealthInv => Health!TypeOK /\ Health!ReportsAreWhole
<1> SUFFICES ASSUME HealthInv PROVE Health!TypeOK /\ Health!ReportsAreWhole
  OBVIOUS
<1>1. ASSUME NEW c \in HealthCalls, c.op = "checking" => Covered(c)
      PROVE  \/ c = Health!Idle
             \/ /\ c.op = "checking"
                /\ c.names \subseteq Health!Names /\ c.todo \subseteq c.names
                /\ \A n \in Health!Names : c.task[n] \in Health!Task
                /\ c.results \subseteq Health!Result
             \/ /\ c.op = "report"
                /\ c.names \subseteq Health!Names /\ c.results \subseteq Health!Result
                /\ c.overall \in Health!Status
  <2>1. CASE c \in Checking
    <3>1. c.op = "checking" /\ c.todo \subseteq Health!Names
      BY <2>1 DEF Checking
    <3>2. c.todo \subseteq c.names
      BY <1>1, <3>1 DEF Covered
    <3> QED
      BY <2>1, <3>1, <3>2 DEF Checking
  <2>2. CASE c \in Reporting
    BY <2>2 DEF Reporting
  <2> QED
    BY <2>1, <2>2 DEF HealthCalls
<1>2. Health!TypeOK
  <2> SUFFICES ASSUME NEW k \in Checks
               PROVE  LET call == healthCall[k] IN
                        \/ call = Health!Idle
                        \/ /\ call.op = "checking"
                           /\ call.names \subseteq Health!Names /\ call.todo \subseteq call.names
                           /\ \A n \in Health!Names : call.task[n] \in Health!Task
                           /\ call.results \subseteq Health!Result
                        \/ /\ call.op = "report"
                           /\ call.names \subseteq Health!Names /\ call.results \subseteq Health!Result
                           /\ call.overall \in Health!Status
    BY DEF Health!TypeOK
  <2>1. PICK c \in HealthCalls : c = healthCall[k] /\ (c.op = "checking" => Covered(c))
    BY DEF HealthInv
  <2> QED
    BY <1>1, <2>1
<1>3. Health!ReportsAreWhole
  <2> SUFFICES ASSUME NEW k \in Checks, healthCall[k].op = "report"
               PROVE  LET call == healthCall[k] IN
                        /\ {r.name : r \in call.results} = call.names
                        /\ \A r, q \in call.results : r.name = q.name => r = q
                        /\ (\E r \in call.results : r.status = "unhealthy") =>
                             call.overall = "unhealthy"
    BY DEF Health!ReportsAreWhole
  <2>1. PICK c \in HealthCalls : c = healthCall[k] /\ c.op = "report" /\ Told(c)
    BY DEF HealthInv
  <2>2. c \in Reporting
    BY <2>1 DEF HealthCalls, Checking, Health!Idle
  <2>3. c.names \subseteq Health!Names /\ \A r \in c.results : r.name \in Health!Names
    BY <2>2 DEF Reporting, Health!Result
  <2> QED
    BY <2>1, <2>3 DEF Told
<1> QED
  BY <1>2, <1>3

\* The invariant holds before the first request.
LEMMA HealthStart == Health!Init => HealthInv
  BY DEF Health!Init, HealthInv, HealthCalls, Health!Idle

\* A request goes on.
LEMMA HealthGoes ==
  ASSUME HealthInv, NEW k \in Checks, NEW next \in HealthCalls, Health!Become(k, next),
         next.op = "checking" => Covered(next),
         next.op = "report" => Told(next)
  PROVE  HealthInv'
<1>1. healthCall' \in [Checks -> HealthCalls]
  BY DEF HealthInv, Health!Become
<1>2. \A j \in Checks : /\ healthCall'[j].op = "checking" => Covered(healthCall'[j])
                        /\ healthCall'[j].op = "report" => Told(healthCall'[j])
  <2> SUFFICES ASSUME NEW j \in Checks
               PROVE  /\ healthCall'[j].op = "checking" => Covered(healthCall'[j])
                      /\ healthCall'[j].op = "report" => Told(healthCall'[j])
    OBVIOUS
  <2>1. healthCall'[j] = IF j = k THEN next ELSE healthCall[j]
    BY DEF HealthInv, Health!Become
  <2> QED
    BY <2>1 DEF HealthInv
<1>3. (\A j \in Checks : /\ healthCall[j].op = "checking" => Covered(healthCall[j])
                         /\ healthCall[j].op = "report" => Told(healthCall[j]))'
  BY <1>2 DEF Covered, Told
<1> QED
  BY <1>1, <1>3 DEF HealthInv

\* Every step of a request keeps it.
LEMMA HealthStep ==
  ASSUME HealthInv, [Health!Next]_healthVars
  PROVE  HealthInv'
<1>1. ASSUME NEW k \in Checks, NEW names \in SUBSET Health!Names, Health!Start(k, names)
      PROVE  HealthInv'
  <2>1. PICK next : next = [op |-> "checking", names |-> names, todo |-> names,
                            task |-> [n \in Health!Names |-> Health!Done], results |-> {}]
    OBVIOUS
  <2>2. next \in Checking
    BY <2>1, Tasks DEF Checking
  <2>3. Covered(next)
    <3>1. \A n \in Health!Names : next.task[n] = Health!Done /\ next.task[n].at = "done"
      BY <2>1 DEF Health!Done
    <3> QED
      BY <2>1, <3>1 DEF Covered
  <2>4. Health!Become(k, next) /\ next.op = "checking"
    BY <1>1, <2>1 DEF Health!Start
  <2> QED
    BY <2>2, <2>3, <2>4, HealthGoes DEF HealthCalls
<1>2. ASSUME NEW k \in Checks, healthCall[k].op = "checking"
      PROVE  healthCall[k] \in Checking /\ Covered(healthCall[k])
  BY <1>2 DEF HealthInv, HealthCalls, Reporting, Health!Idle
<1>3. ASSUME NEW k \in Checks, NEW n \in Health!Names, Health!Spawn(k, n)
      PROVE  HealthInv'
  <2>1. PICK c \in Checking : c = healthCall[k] /\ Covered(c)
    BY <1>2, <1>3 DEF Health!Spawn
  <2>2. n \in c.todo /\ c.task[n] = Health!Done /\ \A r \in c.results : r.name # n
    BY <1>3, <2>1 DEF Health!Spawn, Covered
  <2>3. CASE Health!Become(k, [c EXCEPT !.todo = @ \ {n}, !.task[n] = [at |-> "checking"]])
    <3>1. PICK t, next : /\ t = [at |-> "checking"]
                         /\ next = [c EXCEPT !.todo = @ \ {n}, !.task[n] = [at |-> "checking"]]
      OBVIOUS
    <3>2. t \in Health!Task /\ t # Health!Done /\ t.at = "checking"
      BY <3>1, Tasks DEF Health!Done
    <3>3. /\ next \in Checking /\ next.op = "checking"
          /\ next.names = c.names /\ next.todo = c.todo \ {n} /\ next.results = c.results
          /\ \A m \in Health!Names : next.task[m] = IF m = n THEN t ELSE c.task[m]
      BY <3>1, <3>2 DEF Checking
    <3>4. Covered(next)
      BY <2>1, <2>2, <3>2, <3>3 DEF Covered
    <3> QED
      BY <2>3, <3>1, <3>3, <3>4, HealthGoes DEF HealthCalls
  <2>4. CASE /\ Health!MutexFree(c)
             /\ Health!Become(k, [c EXCEPT !.todo = @ \ {n},
                                   !.results = @ \cup {[name |-> n, status |-> "unhealthy"]}])
    <3>1. PICK r, next : /\ r = [name |-> n, status |-> "unhealthy"]
                         /\ next = [c EXCEPT !.todo = @ \ {n}, !.results = @ \cup {r}]
      OBVIOUS
    <3>2. r \in Health!Result /\ r.name = n
      BY <3>1 DEF Health!Result, Health!Status
    <3>3. /\ next \in Checking /\ next.op = "checking"
          /\ next.names = c.names /\ next.todo = c.todo \ {n}
          /\ next.results = c.results \cup {r} /\ next.task = c.task
      BY <3>1, <3>2 DEF Checking
    <3>4. \A m \in Health!Names : c.task[m].at # "appending"
      BY <2>4 DEF Health!MutexFree
    <3>5. Covered(next)
      BY <2>1, <2>2, <3>2, <3>3, <3>4 DEF Covered
    <3> QED
      BY <2>4, <3>1, <3>3, <3>5, HealthGoes DEF HealthCalls
  <2> QED
    BY <1>3, <2>1, <2>3, <2>4 DEF Health!Spawn
<1>4. ASSUME NEW k \in Checks, NEW n \in Health!Names,
             Health!CheckService(k, n) \/ Health!ReadSlice(k, n)
      PROVE  HealthInv'
  <2>1. PICK c \in Checking : c = healthCall[k] /\ Covered(c)
    BY <1>2, <1>4 DEF Health!CheckService, Health!ReadSlice
  <2>2. PICK t \in Health!Task :
          /\ t # Health!Done
          /\ t.at = "appending" => t.slice = c.results /\ Health!MutexFree(c)
          /\ c.task[n] # Health!Done
          /\ Health!Become(k, [c EXCEPT !.task[n] = t])
    <3>1. c.task[n] \in Health!Task /\ c.results \in SUBSET Health!Result
      BY <2>1 DEF Checking
    <3>2. CASE Health!CheckService(k, n)
      <4>1. PICK status \in Health!Status :
              Health!Become(k, [c EXCEPT !.task[n] = [at |-> "answered", found |-> status]])
        BY <2>1, <3>2 DEF Health!CheckService, Health!SetTask
      <4>2. PICK t : t = [at |-> "answered", found |-> status]
        OBVIOUS
      <4>3. t \in Health!Task /\ t.at = "answered" /\ t # Health!Done
        BY <4>2, Tasks DEF Health!Done
      <4>4. c.task[n] # Health!Done
        BY <2>1, <3>1, <3>2, Tasks DEF Health!CheckService
      <4> QED
        BY <4>1, <4>2, <4>3, <4>4
    <3>3. CASE Health!ReadSlice(k, n)
      <4>1. PICK t : t = [at |-> "appending", found |-> c.task[n].found, slice |-> c.results]
        OBVIOUS
      <4>2. c.task[n].found \in Health!Status /\ c.task[n] # Health!Done /\ Health!MutexFree(c)
        BY <2>1, <3>1, <3>3, Tasks DEF Health!ReadSlice
      <4>3. t \in Health!Task /\ t.at = "appending" /\ t.slice = c.results
        BY <3>1, <4>1, <4>2, Tasks
      <4>4. t # Health!Done
        BY <4>3, Tasks
      <4>5. Health!Become(k, [c EXCEPT !.task[n] = t])
        BY <2>1, <3>3, <4>1 DEF Health!ReadSlice, Health!SetTask
      <4> QED
        BY <4>2, <4>3, <4>4, <4>5
    <3> QED
      BY <1>4, <3>2, <3>3
  <2>3. PICK next : next = [c EXCEPT !.task[n] = t]
    OBVIOUS
  <2>4. /\ next \in Checking
        /\ next.names = c.names /\ next.todo = c.todo /\ next.results = c.results
        /\ \A m \in Health!Names : next.task[m] = IF m = n THEN t ELSE c.task[m]
    BY <2>2, <2>3 DEF Checking
  <2>5. t.at = "appending" => \A m \in Health!Names : c.task[m].at # "appending"
    BY <2>2 DEF Health!MutexFree
  <2>6. Covered(next)
    BY <2>1, <2>2, <2>4, <2>5 DEF Covered
  <2>7. next.op = "checking"
    BY <2>4 DEF Checking
  <2> QED
    BY <2>2, <2>3, <2>4, <2>6, <2>7, HealthGoes DEF HealthCalls
<1>5. ASSUME NEW k \in Checks, NEW n \in Health!Names, Health!StoreSlice(k, n)
      PROVE  HealthInv'
  <2>1. PICK c \in Checking : /\ c = healthCall[k] /\ Covered(c)
                              /\ c.task[n].at = "appending"
    BY <1>2, <1>5 DEF Health!StoreSlice
  <2>2. PICK r : r = [name |-> n, status |-> c.task[n].found]
    OBVIOUS
  <2>3. c.task[n] \in Health!Task /\ c.task[n].slice = c.results
    BY <2>1 DEF Checking, Covered
  <2>4. c.task[n] # Health!Done /\ c.task[n].found \in Health!Status
    BY <2>1, <2>3, Tasks
  <2>5. r \in Health!Result /\ r.name = n
    BY <2>2, <2>4 DEF Health!Result
  <2>6. PICK next : next = [c EXCEPT !.task[n] = Health!Done, !.results = c.results \cup {r}]
    OBVIOUS
  <2>7. Health!Become(k, next)
    BY <1>5, <2>1, <2>2, <2>3, <2>6 DEF Health!StoreSlice
  <2>8. /\ next \in Checking /\ next.op = "checking"
        /\ next.names = c.names /\ next.todo = c.todo /\ next.results = c.results \cup {r}
        /\ \A m \in Health!Names : next.task[m] = IF m = n THEN Health!Done ELSE c.task[m]
    BY <2>5, <2>6, Tasks DEF Checking
  <2>9. Health!Done.at # "appending"
    BY DEF Health!Done
  <2>10. Covered(next)
    <3>1. \A m \in Health!Names : next.task[m].at # "appending"
      BY <2>1, <2>8, <2>9 DEF Covered
    <3>2. \A s \in c.results : s.name # n
      BY <2>1, <2>4 DEF Covered
    <3>3. \A s, q \in next.results : s.name = q.name => s = q
      BY <2>1, <2>5, <2>8, <3>2 DEF Covered
    <3>4. ASSUME NEW m \in Health!Names
          PROVE  /\ m \in next.names <=> \/ m \in next.todo \/ next.task[m] # Health!Done
                                         \/ \E s \in next.results : s.name = m
                 /\ m \in next.todo => next.task[m] = Health!Done
                 /\ m \in next.todo \/ next.task[m] # Health!Done =>
                      \A s \in next.results : s.name # m
      BY <2>1, <2>4, <2>5, <2>8 DEF Covered
    <3> QED
      BY <3>1, <3>3, <3>4 DEF Covered
  <2> QED
    BY <2>7, <2>8, <2>10, HealthGoes DEF HealthCalls
<1>6. ASSUME NEW k \in Checks, Health!Wait(k)
      PROVE  HealthInv'
  <2>1. PICK c \in Checking : c = healthCall[k] /\ Covered(c)
    BY <1>2, <1>6 DEF Health!Wait
  <2>2. c.todo = {} /\ \A n \in Health!Names : c.task[n] = Health!Done
    BY <1>6, <2>1 DEF Health!Wait
  <2>3. PICK next : next = [op |-> "report", names |-> c.names, results |-> c.results,
                            overall |-> Health!Overall(c.results)]
    OBVIOUS
  <2>4. Health!Overall(c.results) \in Health!Status
    BY DEF Health!Overall, Health!Status
  <2>5. next \in Reporting /\ next.op = "report"
    BY <2>3, <2>4 DEF Reporting, Checking
  <2>6. Told(next)
    BY <2>1, <2>2, <2>3 DEF Covered, Told, Health!Overall
  <2>7. Health!Become(k, next)
    BY <1>6, <2>1, <2>3 DEF Health!Wait
  <2> QED
    BY <2>5, <2>6, <2>7, HealthGoes DEF HealthCalls
<1>7. ASSUME NEW k \in Checks, Health!Report(k)
      PROVE  HealthInv'
  <2>1. Health!Idle \in HealthCalls /\ Health!Idle.op = "none"
    BY DEF HealthCalls, Health!Idle
  <2> QED
    BY <1>7, <2>1, HealthGoes DEF Health!Report
<1>8. CASE UNCHANGED healthVars
  BY <1>8 DEF healthVars, HealthInv, Covered, Told
<1>9. ASSUME NEW k \in Checks, Health!CheckAll(k)
      PROVE  HealthInv'
  BY <1>1, <1>9 DEF Health!CheckAll, Health!Names
<1>10. ASSUME NEW k \in Checks, NEW names \in SUBSET Health!Names, Health!CheckServices(k, names)
       PROVE  HealthInv'
  BY <1>1, <1>10 DEF Health!CheckServices
<1> QED
  BY <1>3, <1>4, <1>5, <1>6, <1>7, <1>8, <1>9, <1>10 DEF Health!Next

-----------------------------------------------------------------------------
(* the start of a replica *)

\* What golang-migrate holds its lock for, and what a release has seen done
\* once it has given the lock up.
Locked == {"up", "apply", "clean"}
Raised == {"version", "pool", "repo"}
Prepared == Locked \cup Raised \cup {"lock"}

\* A dirty version is that of the migration begun, which has taken effect or
\* not; the replica that began it, if it lives, holds the lock and knows which.
Progress(r) ==
  LET at == replica[r].at IN
  /\ at \in Locked => lock = r
  /\ at \in Prepared => schema
  /\ at = "apply" => dirty /\ applied = version - 1 /\ version <= replica[r].release
  /\ at = "clean" => dirty /\ applied = version
  /\ at \in Raised => applied >= replica[r].release

SchemaInv ==
  /\ Schema!TypeOK
  /\ ~dirty => applied = version
  /\ dirty => applied \in {version - 1, version}
  /\ \A r \in Replicas : Progress(r)

\* The newest release embeds at least the migrations of every other.
LEMMA Newest == /\ Schema!Latest \in Nat
                /\ \A v \in Releases : v \in Nat /\ v <= Schema!Latest
<1>1. PICK v \in Releases : \A w \in Releases : w <= v
  BY InsideAssumption
<1>2. /\ Schema!Latest \in Releases
      /\ \A w \in Releases : w <= Schema!Latest
  BY <1>1 DEF Schema!Latest
<1> QED
  BY <1>2, InsideAssumption

\* The facts about one replica that a proof reads off the type of them all.
LEMMA Starting ==
  ASSUME Schema!TypeOK, NEW r \in Replicas
  PROVE  /\ lock # Schema!Free => lock \in Replicas
         /\ r # Schema!Free
         /\ \/ replica[r] = Schema!Down
            \/ replica[r].at \in Schema!Phases /\ replica[r].release \in Releases
  BY InsideAssumption DEF Schema!TypeOK, Schema!Free

\* What a start promises follows from the invariant.
LEMMA SchemaImplies ==
  ASSUME SchemaInv
  PROVE  Schema!TypeOK /\ Schema!SchemasAreWhole /\ Schema!MigrationsAreInOrder
  BY DEF SchemaInv, Progress, Schema!SchemasAreWhole, Schema!MigrationsAreInOrder,
         Schema!At, Prepared, Raised

\* It holds of an empty database and no replica.
LEMMA SchemaStart == ASSUME Schema!Init PROVE SchemaInv
<1>1. /\ replica \in [Replicas -> {Schema!Down}]
      /\ \A r \in Replicas : replica[r].at = "down"
      /\ version = 0 /\ applied = 0 /\ dirty = FALSE /\ schema = FALSE
      /\ lock = Schema!Free
  BY DEF Schema!Init, Schema!Down
<1>2. Schema!TypeOK
  <2>1. replica \in [Replicas -> {Schema!Down} \cup [at : Schema!Phases, release : Releases]]
    BY <1>1
  <2>2. 0 \in 0 .. Schema!Latest
    BY Newest
  <2> QED
    BY <1>1, <2>1, <2>2 DEF Schema!TypeOK
<1> QED
  BY <1>1, <1>2 DEF SchemaInv, Progress, Locked, Raised, Prepared

\* A replica moves on, and nobody else does.
LEMMA ReplicaGoes ==
  ASSUME Schema!TypeOK, NEW r \in Replicas, replica[r] # Schema!Down,
         NEW at \in Schema!Phases, Schema!Goto(r, at)
  PROVE  /\ replica' \in [Replicas ->
                            {Schema!Down} \cup [at : Schema!Phases, release : Releases]]
         /\ replica'[r].at = at /\ replica'[r].release = replica[r].release
         /\ \A q \in Replicas : q # r => replica'[q] = replica[q]
<1>1. replica[r] \in [at : Schema!Phases, release : Releases]
  BY DEF Schema!TypeOK
<1>2. [replica[r] EXCEPT !.at = at] \in [at : Schema!Phases, release : Releases]
  BY <1>1
<1> QED
  BY <1>1, <1>2 DEF Schema!TypeOK, Schema!Goto

\* Every step keeps the invariant.
LEMMA SchemaStep ==
  ASSUME SchemaInv, [Schema!Next]_migrateVars
  PROVE  SchemaInv'
<1> USE DEF Locked, Raised, Prepared, Progress
<1>a. /\ schema \in BOOLEAN /\ version \in Nat /\ version <= Schema!Latest
      /\ applied \in Nat /\ applied <= Schema!Latest /\ dirty \in BOOLEAN
      /\ Schema!Latest \in Nat /\ Schema!TypeOK
      /\ \A v \in Releases : v \in Nat /\ v <= Schema!Latest
      /\ lock \in Replicas \cup {Schema!Free}
  BY Newest DEF SchemaInv, Schema!TypeOK
<1>1. CASE UNCHANGED migrateVars
  BY <1>1 DEF migrateVars, SchemaInv, Schema!TypeOK
<1>2. ASSUME NEW r \in Replicas, NEW release \in Releases, Schema!Start(r, release)
      PROVE  SchemaInv'
  <2>1. PICK row : row = [at |-> "schema", release |-> release]
    OBVIOUS
  <2>2. /\ row \in [at : Schema!Phases, release : Releases] /\ row.at = "schema"
    BY <2>1 DEF Schema!Phases
  <2>3. replica' = [replica EXCEPT ![r] = row]
    BY <1>2, <2>1 DEF Schema!Start
  <2>4. /\ replica' \in [Replicas ->
                            {Schema!Down} \cup [at : Schema!Phases, release : Releases]]
        /\ replica'[r].at = "schema"
        /\ \A q \in Replicas : q # r => replica'[q] = replica[q]
    BY <2>2, <2>3 DEF SchemaInv, Schema!TypeOK
  <2> QED
    BY <1>2, <2>4, <1>a DEF Schema!Start, SchemaInv, Schema!TypeOK
<1>3. ASSUME NEW r \in Replicas, Schema!Stop(r)
      PROVE  SchemaInv'
  <2>1. /\ replica' \in [Replicas ->
                            {Schema!Down} \cup [at : Schema!Phases, release : Releases]]
        /\ replica'[r].at = "down"
        /\ \A q \in Replicas : q # r => replica'[q] = replica[q]
    BY <1>3 DEF Schema!Stop, SchemaInv, Schema!TypeOK, Schema!Down
  <2>2. lock' \in Replicas \cup {Schema!Free} /\ (lock # r => lock' = lock)
    BY <1>3, <1>a DEF Schema!Stop, Schema!Unlock
  <2> QED
    BY <1>3, <2>1, <2>2, <1>a DEF Schema!Stop, SchemaInv, Schema!TypeOK
<1>4. ASSUME Schema!Repair
      PROVE  SchemaInv'
  <2>1. /\ version' = applied /\ dirty' = FALSE
        /\ schema' = schema /\ lock' = lock /\ replica' = replica /\ applied' = applied
        /\ \A r \in Replicas : replica[r].at \in {"down", "repo", "norepo"}
    BY <1>4 DEF Schema!Repair
  <2> QED
    BY <2>1, <1>a DEF SchemaInv, Schema!TypeOK
<1>5. ASSUME NEW r \in Replicas, NEW at \in Schema!Phases,
             replica[r] # Schema!Down, Schema!Goto(r, at)
      PROVE  /\ replica' \in [Replicas ->
                            {Schema!Down} \cup [at : Schema!Phases, release : Releases]]
             /\ replica'[r].at = at /\ replica'[r].release = replica[r].release
             /\ \A q \in Replicas : q # r => replica'[q] = replica[q]
             /\ replica[r].release \in Nat /\ replica[r].release <= Schema!Latest
  BY <1>5, <1>a, ReplicaGoes, Starting
<1>6. ASSUME NEW r \in Replicas, replica[r].at # "down"
      PROVE  replica[r] # Schema!Down
  BY <1>6 DEF Schema!Down
<1>7. /\ {"schema", "lock", "up", "apply", "clean", "version", "pool", "repo", "norepo"}
           = Schema!Phases
      /\ Schema!Free \notin Replicas
  BY InsideAssumption DEF Schema!Phases, Schema!Free
<1>8. ASSUME NEW r \in Replicas, Schema!Goto(r, "norepo"),
             replica[r].at # "down", Schema!Unlock(r),
             schema' = schema, version' = version, dirty' = dirty, applied' = applied
      PROVE  SchemaInv'
  <2>1. /\ replica' \in [Replicas ->
                            {Schema!Down} \cup [at : Schema!Phases, release : Releases]]
        /\ replica'[r].at = "norepo"
        /\ \A q \in Replicas : q # r => replica'[q] = replica[q]
    BY <1>5, <1>6, <1>7, <1>8
  <2>2. lock' \in Replicas \cup {Schema!Free} /\ (lock # r => lock' = lock)
    BY <1>8, <1>a DEF Schema!Unlock
  <2> QED
    BY <1>8, <2>1, <2>2, <1>a DEF SchemaInv, Schema!TypeOK
<1>9. ASSUME NEW r \in Replicas, Schema!Fail(r)
      PROVE  SchemaInv'
  <2>1. replica[r].at # "down" /\ Schema!Goto(r, "norepo") /\ Schema!Unlock(r)
    BY <1>9 DEF Schema!Fail
  <2> QED
    BY <1>9, <2>1, <1>8 DEF Schema!Fail
<1>10. ASSUME NEW r \in Replicas, Schema!UpRefuses(r)
       PROVE  SchemaInv'
  <2>1. replica[r].at # "down" /\ Schema!Goto(r, "norepo") /\ Schema!Unlock(r)
    BY <1>10 DEF Schema!UpRefuses, Schema!At
  <2> QED
    BY <1>10, <2>1, <1>8 DEF Schema!UpRefuses
<1>11. ASSUME NEW r \in Replicas, Schema!EnsureSchema(r)
       PROVE  SchemaInv'
  <2>1. replica[r].at = "schema" /\ Schema!Goto(r, "lock")
    BY <1>11 DEF Schema!EnsureSchema, Schema!At
  <2> QED
    BY <1>11, <2>1, <1>5, <1>6, <1>7, <1>a DEF Schema!EnsureSchema, SchemaInv, Schema!TypeOK
<1>12. ASSUME NEW r \in Replicas, Schema!TakeLock(r)
       PROVE  SchemaInv'
  <2>1. replica[r].at = "lock" /\ Schema!Goto(r, "up") /\ lock = Schema!Free
    BY <1>12 DEF Schema!TakeLock, Schema!At
  <2> QED
    BY <1>12, <2>1, <1>5, <1>6, <1>7, <1>a DEF Schema!TakeLock, SchemaInv, Schema!TypeOK
<1>13. ASSUME NEW r \in Replicas, Schema!UpBegins(r)
       PROVE  SchemaInv'
  <2>1. /\ replica[r].at = "up" /\ Schema!Goto(r, "apply") /\ lock = r
        /\ version < replica[r].release /\ ~dirty /\ version' = version + 1 /\ dirty'
        /\ applied' = applied /\ applied = version /\ schema' = schema /\ lock' = lock
        /\ schema
    BY <1>13 DEF Schema!UpBegins, Schema!At, SchemaInv
  <2>2. /\ replica[r].release \in Nat /\ replica[r].release <= Schema!Latest
        /\ replica'[r].release = replica[r].release /\ replica'[r].at = "apply"
        /\ replica' \in [Replicas ->
                            {Schema!Down} \cup [at : Schema!Phases, release : Releases]]
        /\ \A q \in Replicas : q # r => replica'[q] = replica[q]
    BY <2>1, <1>5, <1>6, <1>7
  <2>3. Schema!TypeOK'
    BY <2>1, <2>2, <1>a, <1>13 DEF Schema!TypeOK, Schema!UpBegins
  <2>4. Progress(r)'
    BY <2>1, <2>2, <1>a
  <2>5. ASSUME NEW q \in Replicas, q # r
        PROVE  Progress(q)'
    BY <2>1, <2>2, <2>5, <1>a DEF SchemaInv
  <2> QED
    BY <2>1, <2>3, <2>4, <2>5, <1>a DEF SchemaInv
<1>14. ASSUME NEW r \in Replicas, Schema!UpApplies(r)
       PROVE  SchemaInv'
  <2>1. /\ replica[r].at = "apply" /\ Schema!Goto(r, "clean") /\ lock = r
        /\ applied = version - 1 /\ dirty /\ version' = version /\ dirty' = dirty
        /\ applied' = version /\ schema' = schema /\ lock' = lock /\ schema
    BY <1>14 DEF Schema!UpApplies, Schema!At, SchemaInv
  <2>2. /\ replica'[r].at = "clean"
        /\ replica' \in [Replicas ->
                            {Schema!Down} \cup [at : Schema!Phases, release : Releases]]
        /\ \A q \in Replicas : q # r => replica'[q] = replica[q]
    BY <2>1, <1>5, <1>6, <1>7
  <2>3. Schema!TypeOK'
    BY <2>1, <2>2, <1>a DEF Schema!TypeOK
  <2>5. ASSUME NEW q \in Replicas, q # r
        PROVE  Progress(q)'
    <3>1. CASE replica[q] = Schema!Down
      BY <3>1, <2>2, <2>5 DEF Schema!Down
    <3>2. CASE replica[q].release \in Nat
      BY <2>1, <2>2, <2>5, <3>2, <1>a DEF SchemaInv
    <3> QED
      BY <3>1, <3>2, <1>a, Starting
  <2> QED
    BY <2>1, <2>2, <2>3, <2>5, <1>a DEF SchemaInv
<1>15. ASSUME NEW r \in Replicas, Schema!UpCleans(r)
       PROVE  SchemaInv'
  <2>1. /\ replica[r].at = "clean" /\ Schema!Goto(r, "up") /\ lock = r
        /\ applied = version /\ dirty' = FALSE /\ version' = version
        /\ applied' = applied /\ schema' = schema /\ lock' = lock /\ schema
    BY <1>15 DEF Schema!UpCleans, Schema!At, SchemaInv
  <2>2. /\ replica'[r].at = "up"
        /\ replica' \in [Replicas ->
                            {Schema!Down} \cup [at : Schema!Phases, release : Releases]]
        /\ \A q \in Replicas : q # r => replica'[q] = replica[q]
    BY <2>1, <1>5, <1>6, <1>7
  <2>3. Schema!TypeOK'
    BY <2>1, <2>2, <1>a DEF Schema!TypeOK
  <2>4. Progress(r)'
    BY <2>1, <2>2
  <2>5. ASSUME NEW q \in Replicas, q # r
        PROVE  Progress(q)'
    BY <2>1, <2>2, <2>5, <1>7 DEF SchemaInv
  <2> QED
    BY <2>1, <2>3, <2>4, <2>5, <1>a DEF SchemaInv
<1>16. ASSUME NEW r \in Replicas, Schema!UpEnds(r)
       PROVE  SchemaInv'
  <2>1. /\ replica[r].at = "up" /\ Schema!Goto(r, "version")
        /\ applied = version /\ version = replica[r].release /\ ~dirty
        /\ dirty' = dirty /\ version' = version
        /\ applied' = applied /\ schema' = schema /\ schema
    BY <1>16 DEF Schema!UpEnds, Schema!At, SchemaInv
  <2>2. lock' \in Replicas \cup {Schema!Free} /\ (lock # r => lock' = lock)
    BY <1>16, <1>a DEF Schema!UpEnds, Schema!Unlock
  <2> QED
    BY <2>1, <2>2, <1>5, <1>6, <1>7, <1>a DEF SchemaInv, Schema!TypeOK
<1>17. ASSUME NEW r \in Replicas, NEW at \in {"pool", "repo", "norepo"},
              replica[r].at \in {"version", "pool"}, Schema!Goto(r, at),
              UNCHANGED <<schema, version, dirty, lock, applied>>
       PROVE  SchemaInv'
  BY <1>17, <1>5, <1>6, <1>7, <1>a DEF SchemaInv, Schema!TypeOK
<1>18. ASSUME NEW r \in Replicas, Schema!Run(r)
       PROVE  SchemaInv'
  BY <1>17, <1>18 DEF Schema!Run, Schema!At
<1>19. ASSUME NEW r \in Replicas, Schema!OpenPool(r)
       PROVE  SchemaInv'
  BY <1>17, <1>19 DEF Schema!OpenPool, Schema!At
<1> QED
  BY <1>1, <1>2, <1>3, <1>4, <1>9, <1>10, <1>11, <1>12, <1>13, <1>14, <1>15, <1>16,
     <1>18, <1>19 DEF Schema!Next

-----------------------------------------------------------------------------
(* all of them *)

\* The inductive invariant of them all is the conjunction of theirs: a step of
\* one is no step of the others.
Inv ==
  /\ GateInv /\ VaultInv /\ ChainInv /\ ConfInv /\ SpaceInv
  /\ UserInv /\ Catalog!TypeOK /\ Snip!TypeOK /\ TransferInv /\ RecordingInv
  /\ Collab!TypeOK /\ AuditInv /\ StatsInv /\ HealthInv /\ SchemaInv

\* Every service starts as its own specification says.
LEMMA InvStart == Init => Inv
  BY GateStart, VaultStart, ChainStart, ConfStart, SpaceStart, UserStart, HostStart,
     SnippetStart, TransferStart, RecordingStart, CollabStart, AuditStart, StatsStart,
     HealthStart, SchemaStart
  DEF Init, Inv

\* A step of the services is, for each of them, its own or none.
LEMMA StepsAreTheirs ==
  [Next]_vars =>
    /\ [Gate!Next]_gatewayVars /\ [Secrets!Next]_vaultVars
    /\ [Chain!Next]_keychainVars /\ [Conf!Next]_configVars
    /\ [Space!Next]_workspaceVars /\ [People!Next]_userVars
    /\ [Catalog!Next]_hostVars /\ [Snip!Next]_snippetVars
    /\ [Sftp!Next]_transferVars /\ [Rec!Next]_recordingVars
    /\ [Collab!Next]_collabVars /\ [Trail!Next]_auditVars
    /\ [Stats!Next]_analyticsVars /\ [Health!Next]_healthVars
    /\ [Schema!Next]_migrateVars
  BY DEF Next, vars, GatewayNext, VaultNext, KeychainNext, ConfigNext, WorkspaceNext, UserNext,
         HostNext, SnippetNext, TransfersNext, RecordingNext, CollaborationNext, AuditNext,
         AnalyticsNext, HealthNext, MigrateNext

\* So the invariant is inductive.
LEMMA InvStep == Inv /\ [Next]_vars => Inv'
  BY StepsAreTheirs, GateStep, VaultStep, ChainStep, ConfStep, SpaceStep, UserStep, HostStep,
     SnippetStep, TransferStep, RecordingStep, CollabStep, AuditStep, StatsStep, HealthStep,
     SchemaStep
  DEF Inv

\* The inductive invariant holds of every behaviour.
THEOREM Invariance == Spec => []Inv
  BY InvStart, InvStep, PTL DEF Spec

\* Every variable has its type, and so have the rows of each table their ids.
THEOREM TypeCorrect == Spec => []TypeOK
<1>1. GateInv => Gate!TypeOK
  BY DEF GateInv
<1>2. VaultInv => Secrets!TypeOK
  BY DEF VaultInv
<1>3. ChainInv => Chain!TypeOK
  BY DEF ChainInv
<1>4. /\ ConfInv => Conf!TypeOK
      /\ SpaceInv => Space!TypeOK
      /\ UserInv => People!TypeOK
      /\ TransferInv => Sftp!TypeOK
      /\ RecordingInv => Rec!TypeOK
      /\ AuditInv => Trail!TypeOK
      /\ StatsInv => Stats!TypeOK
  BY DEF ConfInv, SpaceInv, UserInv, TransferInv, RecordingInv, AuditInv, StatsInv
<1>5. Inv => TypeOK
  BY <1>1, <1>2, <1>3, <1>4, HealthImplies, SchemaImplies DEF Inv, TypeOK
<1> QED
  BY <1>5, Invariance, PTL

\* gateway-service: a fixed window lets a client through twice as often as its
\* limit says where two windows meet, and never more.
THEOREM BurstsBounded == Spec => []BurstsAreBounded
<1>1. Inv => BurstsAreBounded
  BY GateImplies DEF Inv, BurstsAreBounded
<1> QED
  BY <1>1, Invariance, PTL

\* gateway-service: the sweep may be anywhere among its probes when the signal
\* comes; when main returns the prober and its probes have ended and no request
\* is left.  The limiters' cleanup goroutines are not among these.
THEOREM ExitIsClean == Spec => []ExitLeavesNothing
<1>1. Inv => ExitLeavesNothing
  BY GateImplies DEF Inv, ExitLeavesNothing
<1> QED
  BY <1>1, Invariance, PTL

\* vault-service and keychain-service check the owner in one query and act in
\* another: a request whose check read the row and found it its sender's is
\* given, and changes, its sender's only; one that found no secret reaches none
\* that is live.  Not so where vault's read failed, for the versions of a
\* deleted secret, and for a caller without an id: those the code lets through.
THEOREM TenantsApart == Spec => []TenantsStayApart
<1>1. Inv => TenantsStayApart
  BY VaultImplies, ChainImplies DEF Inv, TenantsStayApart
<1> QED
  BY <1>1, Invariance, PTL

\* vault-service inserts the snapshot of a value it read before, so a version
\* is a value the secret had; keychain-service writes a private key once, and
\* opens it under the key it was sealed under or not at all.
THEOREM ValuesKept == Spec => []ValuesAreKept
<1>1. Inv => ValuesAreKept
  BY VaultImplies, ChainImplies DEF Inv, ValuesAreKept
<1> QED
  BY <1>1, Invariance, PTL

\* config-service: a key has one value of an owner; user-service: an email has
\* one user; sftp-service and recording-service: what a row says of itself
\* agrees, whatever requests overlap.
THEOREM RowsConsistent == Spec => []RowsAreConsistent
<1>1. Inv => RowsAreConsistent
  BY DEF Inv, ConfInv, UserInv, TransferInv, RecordingInv, RowsAreConsistent
<1> QED
  BY <1>1, Invariance, PTL

\* workspace-service: hosts are dropped and added one by one, and a request
\* that no other disturbed leaves exactly those it was given.
THEOREM ReplacingExact == Spec => []ReplacingIsExact
<1>1. Inv => ReplacingIsExact
  BY SpaceImplies DEF Inv, ReplacingIsExact
<1> QED
  BY <1>1, Invariance, PTL

\* health-service: goroutines append to one slice under a mutex and none is
\* lost; analytics-service: a total that was counted before its page is read
\* is not ahead of the rows.
THEOREM ReportsTrue == Spec => []ReportsAreTrue
<1>1. Inv => ReportsAreTrue
  BY HealthImplies, StatsImplies DEF Inv, ReportsAreTrue
<1> QED
  BY <1>1, Invariance, PTL

\* audit-service: counting by action and counting by type find the same entries,
\* and a total counted before is not ahead of them, for any number of each.
THEOREM StatisticsAgree == Spec => []StatisticsAddUp
<1>1. Inv => StatisticsAddUp
  BY AuditImplies DEF Inv, StatisticsAddUp
<1> QED
  BY <1>1, Invariance, PTL

\* Every service's start: replicas of any releases race, fail at any call, are
\* killed and repaired, and none with a pool serves a schema short of its own
\* migrations; none is executed twice or left out.
THEOREM SchemasWhole == Spec => []SchemasAreWhole
<1>1. Inv => SchemasAreWhole
  BY SchemaImplies DEF Inv, SchemasAreWhole
<1> QED
  BY <1>1, Invariance, PTL

-----------------------------------------------------------------------------
(* what no step does *)

\* A request that read a row before it was deleted writes it in a query that
\* asks again: no step of any service brings a deleted row back or alters it.
THEOREM DeletedStay == Spec => DeletedRowsStay
<1>1. Inv /\ [Next]_vars =>
        /\ SecretsStay /\ ItemsStay /\ ConfigsStay /\ WorkspacesStay
        /\ UsersStay /\ HostsStay /\ EndedStay
  BY StepsAreTheirs, VaultStep, ChainStep, ConfStep, SpaceStep, UserStep, HostStep, CollabStep
  DEF Inv
<1>2. Inv /\ [Next]_vars =>
        /\ [SecretsStay]_secrets /\ [ItemsStay]_items /\ [ConfigsStay]_configs
        /\ [WorkspacesStay]_workspaces /\ [UsersStay]_users /\ [HostsStay]_hosts
        /\ [EndedStay]_sessions
  BY <1>1
<1> QED
  BY <1>2, Invariance, PTL
  DEF Spec, DeletedRowsStay, Secrets!DeletedSecretsStay, Chain!DeletedItemsStay,
      Conf!DeletedConfigsStay, Space!DeletedWorkspacesStay, People!DeletedUsersStay,
      Catalog!DeletedHostsStay, Collab!EndedSessionsStay, SecretsStay, ItemsStay, ConfigsStay,
      WorkspacesStay, UsersStay, HostsStay, EndedStay

\* snippet-service adds to the number of uses in the UPDATE itself: however
\* many uses overlap with each other and with updates of the row, it never falls.
THEOREM UsesGrowAlways == Spec => UsesNeverFall
<1>1. Inv /\ [Next]_vars => UsesGrow
  BY StepsAreTheirs, SnippetStep DEF Inv
<1>2. Inv /\ [Next]_vars => [UsesGrow]_snippets
  BY <1>1
<1> QED
  BY <1>2, Invariance, PTL DEF Spec, UsesNeverFall, Snip!UsesNeverFall, UsesGrow
=============================================================================
