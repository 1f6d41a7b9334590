------------------------------ MODULE Gateway ------------------------------
(***************************************************************************)
(* services/gateway-service: the rate limiters every request passes, the   *)
(* health prober that decides which upstreams are proxied to, and the      *)
(* shutdown.  Atomic steps are the critical sections of rateLimiter.mu and *)
(* of upstreamService.mu, and the requests sent upstream.                  *)
(*                                                                         *)
(* Time is counted in halves of the limiters' window, the finest grain the *)
(* properties need.                                                        *)
(***************************************************************************)
EXTENDS Naturals

CONSTANTS
  Calls,          \* requests in flight at one time
  Clients,        \* client addresses
  Upstreams,      \* services proxied to, each by one endpoint
  IpLimit,        \* requests of a client in a window (1000)
  EndpointLimit   \* requests to an endpoint in a window (500)

VARIABLES
  \* rateLimiter.requests of the IP limiter and of the endpoint limiter, and
  \* how many halves of the ticker's period have gone by
  ipHits, endpointHits, half,
  \* whether an upstream answers, and upstreamService.Healthy
  upstreamUp, healthy,
  \* the prober's goroutine, and the answer each of its probes has got
  prober, probed,
  \* requests in flight
  proxyCall,
  \* main: listening, in Shutdown, in Stop, or returned
  gateway,
  \* observed only: requests of a client let through by the IP limiter in
  \* the half before this one and in this one
  burst

limiterVars == <<ipHits, endpointHits, half, burst>>
proberVars == <<healthy, prober, probed>>
gatewayVars == <<limiterVars, upstreamUp, proberVars, proxyCall, gateway>>

Idle == [at |-> "none"]
Unprobed == "unprobed"

\* registerUpstreams: each counts as healthy until it has been probed.
Registered == [u \in Upstreams |-> TRUE]

TypeOK ==
  /\ ipHits \in [Clients -> 0 .. IpLimit]
  /\ endpointHits \in [Upstreams -> 0 .. EndpointLimit]
  /\ half \in {0, 1}
  /\ upstreamUp \in [Upstreams -> BOOLEAN]
  /\ healthy \in [Upstreams -> BOOLEAN]
  /\ prober \in {"sweep", "select", "returned"}
  /\ probed \in [Upstreams -> {Unprobed, "answered", "failed", "stored"}]
  /\ proxyCall \in [Calls -> {Idle} \cup
       [at : {"ip", "endpoint", "token", "route", "forward"}, from : Clients, to : Upstreams]]
  /\ gateway \in {"up", "draining", "stopping", "exited"}
  /\ burst \in [Clients -> [before : Nat, now : Nat]]

\* New starts the limiters' tickers and the prober.
Init ==
  /\ ipHits = [i \in Clients |-> 0]
  /\ endpointHits = [u \in Upstreams |-> 0]
  /\ half = 0
  /\ upstreamUp \in [Upstreams -> BOOLEAN]
  /\ healthy = Registered
  /\ prober = "sweep"
  /\ probed = [u \in Upstreams |-> Unprobed]
  /\ proxyCall = [k \in Calls |-> Idle]
  /\ gateway = "up"
  /\ burst = [i \in Clients |-> [before |-> 0, now |-> 0]]

-----------------------------------------------------------------------------
(* A request: rateLimitMiddleware, then proxyTo *)

Answer(k) == proxyCall' = [proxyCall EXCEPT ![k] = Idle]
Goto(k, at) == proxyCall' = [proxyCall EXCEPT ![k].at = at]

\* A request for one of the routes of New.
Accept(k, i, u) ==
  /\ gateway = "up"
  /\ proxyCall[k] = Idle
  /\ proxyCall' = [proxyCall EXCEPT ![k] = [at |-> "ip", from |-> i, to |-> u]]
  /\ UNCHANGED <<limiterVars, upstreamUp, proberVars, gateway>>

\* Slip: the last request of a window's allowance is let through twice.
AllowOneMore(hits, key, max) == hits[key] <= max

\* rateLimiter.Allow, of a map of counters and one of its keys.
Allow(hits, key, max) == hits[key] < max
Count(hits, key) == [hits EXCEPT ![key] = @ + 1]

AdmitClient(k) ==
  /\ proxyCall[k].at = "ip"
  /\ LET i == proxyCall[k].from IN
     IF Allow(ipHits, i, IpLimit)
       THEN /\ ipHits' = Count(ipHits, i)
            /\ burst' = [burst EXCEPT ![i].now = @ + 1]
            /\ Goto(k, "endpoint")
       ELSE Answer(k) /\ UNCHANGED <<ipHits, burst>>
  /\ UNCHANGED <<endpointHits, half, upstreamUp, proberVars, gateway>>

\* What the IP limiter has counted stays counted if this limiter refuses.
AdmitEndpoint(k) ==
  /\ proxyCall[k].at = "endpoint"
  /\ LET u == proxyCall[k].to IN
     IF Allow(endpointHits, u, EndpointLimit)
       THEN endpointHits' = Count(endpointHits, u) /\ Goto(k, "token")
       ELSE Answer(k) /\ UNCHANGED endpointHits
  /\ UNCHANGED <<ipHits, half, burst, upstreamUp, proberVars, gateway>>

\* The token is valid, or the path asks for none; otherwise the answer is
\* 401.  The limiters have counted the request all the same.
CheckToken(k) ==
  /\ proxyCall[k].at = "token"
  /\ Answer(k) \/ Goto(k, "route")
  /\ UNCHANGED <<limiterVars, upstreamUp, proberVars, gateway>>

\* A route no service stands behind: 501.
NotImplemented(k) ==
  /\ proxyCall[k].at = "route"
  /\ Answer(k)
  /\ UNCHANGED <<limiterVars, upstreamUp, proberVars, gateway>>

\* resolvePathParams: a parameter that would leave its segment: 400.
ResolvePathParams(k) == Goto(k, "forward") \/ Answer(k)

\* proxyTo: an upstream that is marked unhealthy is answered for with 503.
Route(k) ==
  /\ proxyCall[k].at = "route"
  /\ IF healthy[proxyCall[k].to] THEN ResolvePathParams(k) ELSE Answer(k)
  /\ UNCHANGED <<limiterVars, upstreamUp, proberVars, gateway>>

\* The upstream answers, or httpClient gives up after 15 s: 502.
Forward(k) ==
  /\ proxyCall[k].at = "forward"
  /\ Answer(k)
  /\ UNCHANGED <<limiterVars, upstreamUp, proberVars, gateway>>

-----------------------------------------------------------------------------
(* The limiters' windows *)

\* rateLimiter.cleanup: each full period the counters start anew.
Tick ==
  /\ half' = 1 - half
  /\ IF half = 1
       THEN /\ ipHits' = [i \in Clients |-> 0]
            /\ endpointHits' = [u \in Upstreams |-> 0]
       ELSE UNCHANGED <<ipHits, endpointHits>>
  /\ burst' = [i \in Clients |-> [before |-> burst[i].now, now |-> 0]]
  /\ UNCHANGED <<upstreamUp, proberVars, proxyCall, gateway>>

-----------------------------------------------------------------------------
(* The prober *)

\* probeUpstreamHealth of one upstream, which ends within 3 s.
Probe(u) ==
  /\ prober = "sweep" /\ probed[u] = Unprobed
  /\ probed' = [probed EXCEPT ![u] = IF upstreamUp[u] THEN "answered" ELSE "failed"]
  /\ UNCHANGED <<limiterVars, upstreamUp, healthy, prober, proxyCall, gateway>>

\* Slip: only a failure is stored.
StoreFailure(u) ==
  /\ probed[u] \in {"answered", "failed"}
  /\ healthy' = [healthy EXCEPT ![u] = @ /\ probed[u] = "answered"]
  /\ probed' = [probed EXCEPT ![u] = "stored"]
  /\ UNCHANGED <<limiterVars, upstreamUp, prober, proxyCall, gateway>>

StoreProbe(u) ==
  /\ probed[u] \in {"answered", "failed"}
  /\ healthy' = [healthy EXCEPT ![u] = probed[u] = "answered"]
  /\ probed' = [probed EXCEPT ![u] = "stored"]
  /\ UNCHANGED <<limiterVars, upstreamUp, prober, proxyCall, gateway>>

\* The wait group of probeAllUpstreams is done.
SweepEnds ==
  /\ prober = "sweep"
  /\ \A u \in Upstreams : probed[u] = "stored"
  /\ prober' = "select"
  /\ UNCHANGED <<limiterVars, upstreamUp, healthy, probed, proxyCall, gateway>>

\* The ticker may win the select once more after the stop channel is closed.
SweepAgain ==
  /\ prober = "select"
  /\ prober' = "sweep"
  /\ probed' = [u \in Upstreams |-> Unprobed]
  /\ UNCHANGED <<limiterVars, upstreamUp, healthy, proxyCall, gateway>>

ProberReturns ==
  /\ prober = "select" /\ gateway = "stopping"
  /\ prober' = "returned"
  /\ UNCHANGED <<limiterVars, upstreamUp, healthy, probed, proxyCall, gateway>>

UpstreamChanges(u) ==
  /\ upstreamUp' = [upstreamUp EXCEPT ![u] = ~@]
  /\ UNCHANGED <<limiterVars, proberVars, proxyCall, gateway>>

-----------------------------------------------------------------------------
(* main: SIGTERM, Shutdown, Stop *)

Signal ==
  /\ gateway = "up"
  /\ gateway' = "draining"
  /\ UNCHANGED <<limiterVars, upstreamUp, proberVars, proxyCall>>

\* Shutdown returns when the requests are answered.
Drained ==
  /\ gateway = "draining"
  /\ \A k \in Calls : proxyCall[k] = Idle
  /\ gateway' = "stopping"
  /\ UNCHANGED <<limiterVars, upstreamUp, proberVars, proxyCall>>

\* Shutdown gives up after 10 s: Fatalf ends the process, Stop is not called.
Forced ==
  /\ gateway = "draining"
  /\ \E k \in Calls : proxyCall[k] # Idle
  /\ gateway' = "exited"
  /\ prober' = "returned"
  /\ probed' = [u \in Upstreams |-> "stored"]
  /\ proxyCall' = [k \in Calls |-> Idle]
  /\ UNCHANGED <<limiterVars, upstreamUp, healthy>>

\* Slip: Stop closes the channel and does not wait.
StopAtOnce ==
  /\ gateway = "stopping"
  /\ gateway' = "exited"
  /\ UNCHANGED <<limiterVars, upstreamUp, proberVars, proxyCall>>

\* Stop: healthCheckWG.Wait comes back once the prober has returned.
StopReturns ==
  /\ gateway = "stopping" /\ prober = "returned"
  /\ gateway' = "exited"
  /\ UNCHANGED <<limiterVars, upstreamUp, proberVars, proxyCall>>

Next ==
  \/ \E k \in Calls :
       \/ \E i \in Clients, u \in Upstreams : Accept(k, i, u)
       \/ AdmitClient(k) \/ AdmitEndpoint(k) \/ CheckToken(k) \/ Route(k)
       \/ NotImplemented(k) \/ Forward(k)
  \/ Tick /\ gateway # "exited"
  \/ \E u \in Upstreams : Probe(u) \/ StoreProbe(u)
  \/ SweepEnds \/ SweepAgain \/ ProberReturns
  \/ (\E u \in Upstreams : UpstreamChanges(u)) /\ gateway # "exited"
  \/ Signal \/ Drained \/ Forced \/ StopReturns

\* Goroutines are scheduled and every wait has a timeout; the stop channel
\* stays closed, so a select that comes round for ever picks it at last.
Progress ==
  \/ \E k \in Calls :
       \/ AdmitClient(k) \/ AdmitEndpoint(k) \/ CheckToken(k) \/ Route(k)
       \/ NotImplemented(k) \/ Forward(k)
  \/ Drained \/ StopReturns

Fairness ==
  /\ WF_gatewayVars(Progress)
  /\ \A u \in Upstreams : WF_gatewayVars(Probe(u)) /\ WF_gatewayVars(StoreProbe(u))
  /\ WF_gatewayVars(SweepEnds) /\ WF_gatewayVars(SweepAgain)
  /\ SF_gatewayVars(ProberReturns)

Spec == Init /\ [][Next]_gatewayVars

-----------------------------------------------------------------------------

\* In no stretch of time as long as a window does a client get more than
\* twice its limit through: windows are fixed, so a burst at the end of one
\* and a burst at the start of the next follow on each other.
BurstsAreBounded ==
  \A i \in Clients : burst[i].before + burst[i].now <= 2 * IpLimit

\* Once main has returned the prober has, no probe is out and no request is
\* left: Stop waits for the prober where the drain was in time, and the end of
\* the process takes them all where it was not.  Of the limiters' cleanup
\* goroutines nothing is said: Stop does not end them (Tick goes on until the
\* end of the process).
ExitLeavesNothing ==
  gateway = "exited" =>
    /\ prober = "returned"
    /\ \A u \in Upstreams : probed[u] \notin {"answered", "failed"}
    /\ \A k \in Calls : proxyCall[k] = Idle

\* While the gateway serves, an upstream that stays up is marked healthy for
\* good in the end, and one that stays down unhealthy.
HealthConverges ==
  \A u \in Upstreams :
    /\ <>[](upstreamUp[u] /\ gateway = "up") => <>[]healthy[u]
    /\ <>[](~upstreamUp[u] /\ gateway = "up") => <>[]~healthy[u]

\* Once signalled the gateway exits, whatever requests and probes are out.
SignalLeadsToExit == gateway = "draining" ~> gateway = "exited"
=============================================================================
