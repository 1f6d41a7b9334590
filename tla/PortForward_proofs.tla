------------------------- MODULE PortForward_proofs -------------------------
(***************************************************************************)
(* Proofs about PortForward for any number of forwards, tunnels, requests, *)
(* connections and restarts.                                               *)
(***************************************************************************)
EXTENDS PortForward, TLAPS

USE DEF rowVars, tunVars, reqVars, procVars, vars

-----------------------------------------------------------------------------
(* The inductive invariant *)

\* What the program counter of a request says of its other variables.
Shape ==
  \A r \in Requests :
    /\ pc[r] # "idle" => /\ op[r] # "none"
                          /\ rFwd[r] \in Forwards
                          /\ status[rFwd[r]] # "none"
    /\ rTun[r] # NoTunnel <=> pc[r] \in {"insert", "close", "drain"}

\* A tunnel with its SSH connection open belongs to a row and was authorized;
\* one without is idle.
Alive ==
  \A t \in Tunnels :
    /\ ssh[t] # "closed" => /\ tFwd[t] \in Forwards
                            /\ status[tFwd[t]] # "none"
                            /\ Authorized(tFwd[t])
    /\ ssh[t] = "closed" => conns[t] = 0 /\ loop[t] = "exit" /\ ~listening[t]

\* A request that goes on to dial has been authorized.
Gated ==
  \A r \in Requests : pc[r] \in {"check", "establish"} => Authorized(rFwd[r])

\* Accepting, unless a lost SSH connection took the listener away.
Serving(t) == listening[t] \/ (ssh[t] = "lost" /\ ftype[tFwd[t]] = "remote")

\* A tunnel in a local variable is open, of the request's forward, and bound
\* until the request itself closes the listener.
Held ==
  \A r \in Requests : rTun[r] # NoTunnel =>
    /\ ssh[rTun[r]] # "closed"
    /\ tFwd[rTun[r]] = rFwd[r]
    /\ pc[r] \in {"insert", "close"} => Serving(rTun[r])
    /\ pc[r] = "drain" => ~listening[rTun[r]]

\* The same of a tunnel in the map.
Mapped ==
  \A f \in Forwards : tunnels[f] # NoTunnel =>
    /\ ssh[tunnels[f]] # "closed"
    /\ tFwd[tunnels[f]] = f
    /\ Serving(tunnels[f])

DeletedRows == \A f \in Forwards : deleted[f] => status[f] = "deleted"

IInv ==
  /\ TypeOK /\ Shape /\ Alive /\ Gated /\ Held /\ Mapped /\ OneOwner
  /\ DeletedRows

\* The initial state satisfies the invariant.
LEMMA Start == Init => IInv
  BY ConstantsAssumption
  DEF Init, IInv, TypeOK, Statuses, PCs, Ops, Shape, Alive, Gated, Held, Mapped,
      OneOwner, DeletedRows, EnvType

\* The last step of Tunnel.Close, whichever handler called it: the SSH connection
\* is closed and the tunnel forgotten, and the handler returns or goes on.
Released(r, label) ==
  /\ pc[r] = "drain"
  /\ rTun[r] \in Tunnels
  /\ loop[rTun[r]] = "exit"
  /\ conns[rTun[r]] = 0
  /\ ssh' = [ssh EXCEPT ![rTun[r]] = "closed"]
  /\ pc' = [pc EXCEPT ![r] = label]
  /\ rTun' = [rTun EXCEPT ![r] = NoTunnel]
  /\ IF label = "idle"
     THEN /\ op' = [op EXCEPT ![r] = "none"]
          /\ rFwd' = [rFwd EXCEPT ![r] = NoForward]
          /\ rPort' = [rPort EXCEPT ![r] = NoPort]
     ELSE UNCHANGED <<op, rFwd, rPort>>
  /\ UNCHANGED <<tFwd, tPort, listening, loop, conns, rowVars, tunnels, procVars>>

\* Whichever handler called Close, its last step releases a drained tunnel.
LEMMA DrainReleases ==
  ASSUME TypeOK, Shape, NEW r \in Requests, Drain(r)
  PROVE  \E label \in {"idle", "record", "purge"} : Released(r, label)
<1>1. rTun[r] \in Tunnels /\ op[r] \in {"start", "stop", "delete"}
  BY DEF Drain, TypeOK, Ops, Shape
<1>2. CASE op[r] = "start"
  BY <1>1, <1>2 DEF Drain, CloseSsh, Return, Released
<1>3. CASE op[r] = "stop"
  BY <1>1, <1>3 DEF Drain, CloseSsh, Released
<1>4. CASE op[r] = "delete"
  BY <1>1, <1>4 DEF Drain, CloseSsh, Released
<1> QED
  BY <1>1, <1>2, <1>3, <1>4

\* What a write to the rows must leave for a handler that returns.
RowsKept ==
  /\ status' \in [Forwards -> Statuses] /\ deleted' \in [Forwards -> BOOLEAN]
  /\ UNCHANGED <<ftype, port>>
  /\ \A f \in Forwards : status[f] # "none" => status'[f] # "none"
  /\ DeletedRows'

\* Setting the status of a live row, or not, keeps the rows in order.
LEMMA StatusKept ==
  ASSUME IInv, NEW f \in Forwards, NEW s \in Statuses \ {"none"},
         SetStatus(f, s) \/ NoWrite
  PROVE  RowsKept
<1> USE DEF IInv, TypeOK, DeletedRows, RowsKept
<1>1. CASE NoWrite
  BY <1>1 DEF NoWrite
<1>2. CASE SetStatus(f, s)
  BY <1>2 DEF SetStatus, Exists, Statuses
<1> QED
  BY <1>1, <1>2

\* A handler that returns drops its local variables, and the invariant needs
\* none of them.
LEMMA ReturnKeeps ==
  ASSUME IInv, NEW r \in Requests, Return(r), RowsKept,
         UNCHANGED <<tunnels, tunVars, procVars>>
  PROVE  IInv'
<1> USE ConstantsAssumption
<1>1. /\ pc' \in [Requests -> PCs] /\ op' \in [Requests -> Ops]
      /\ rFwd' \in [Requests -> Forwards \cup {NoForward}]
      /\ rTun' \in [Requests -> Tunnels \cup {NoTunnel}]
      /\ rPort' \in [Requests -> Ports \cup {NoPort}]
  BY DEF IInv, TypeOK, Return, PCs, Ops
<1>2. TypeOK'
  BY <1>1 DEF IInv, TypeOK, RowsKept
<1>3. Shape' /\ Gated'
  BY DEF IInv, TypeOK, PCs, Shape, Gated, Return, RowsKept, Authorized, Authorize
<1>4. Alive' /\ Mapped'
  BY DEF IInv, TypeOK, Alive, Mapped, Serving, RowsKept, Authorized, Authorize
<1>5. Held' /\ OneOwner'
  BY DEF IInv, TypeOK, PCs, Held, OneOwner, Serving, Return, RowsKept
<1> QED
  BY <1>2, <1>3, <1>4, <1>5 DEF IInv, RowsKept

\* The invariant is inductive: one step for each action.
LEMMA Step == IInv /\ [Next]_vars => IInv'
<1> SUFFICES ASSUME IInv, [Next]_vars PROVE IInv'
  OBVIOUS
<1> USE ConstantsAssumption
<1>1. ASSUME NEW r \in Requests, Activate(r)
      PROVE  IInv'
  <2>1. rFwd[r] \in Forwards
    BY <1>1 DEF IInv, Shape, Activate
  <2>2. CASE Return(r)
    <3>1. RowsKept
      BY <1>1, <2>1, StatusKept DEF Activate, Statuses
    <3> QED
      BY <1>1, <2>2, <3>1, ReturnKeeps DEF Activate
  <2>3. CASE Goto(r, "take")
    <3>1. RowsKept
      BY <1>1, <2>1, StatusKept DEF Activate, Statuses
    <3> QED
      BY <1>1, <2>1, <2>3, <3>1
      DEF Activate, Goto, RowsKept, IInv, TypeOK, PCs, Shape, Alive, Gated, Held, Mapped,
          OneOwner, Serving, Authorized, Authorize
  <2> QED
    BY <1>1, <2>2, <2>3 DEF Activate
<1>2. ASSUME NEW r \in Requests, RecordFailure(r)
      PROVE  IInv'
  <2>1. rFwd[r] \in Forwards
    BY <1>2 DEF IInv, Shape, RecordFailure
  <2>2. RowsKept
    BY <1>2, <2>1, StatusKept DEF RecordFailure, Statuses
  <2> QED
    BY <1>2, <2>2, ReturnKeeps DEF RecordFailure
<1>3. ASSUME NEW r \in Requests, RecordStopped(r)
      PROVE  IInv'
  <2>1. rFwd[r] \in Forwards
    BY <1>3 DEF IInv, Shape, RecordStopped
  <2>2. RowsKept
    BY <1>3, <2>1, StatusKept DEF RecordStopped, Statuses
  <2> QED
    BY <1>3, <2>2, ReturnKeeps DEF RecordStopped
<1>4. ASSUME NEW r \in Requests, Purge(r)
      PROVE  IInv'
  <2>1. rFwd[r] \in Forwards
    BY <1>4 DEF IInv, Shape, Purge
  <2>2. RowsKept
    <3>1. CASE NoWrite
      BY <3>1 DEF NoWrite, IInv, TypeOK, DeletedRows, RowsKept
    <3>2. CASE /\ status' = [status EXCEPT ![rFwd[r]] = "deleted"]
               /\ deleted' = [deleted EXCEPT ![rFwd[r]] = TRUE]
               /\ UNCHANGED <<ftype, port>>
      BY <2>1, <3>2 DEF IInv, TypeOK, Statuses, DeletedRows, RowsKept
    <3> QED
      BY <1>4, <3>1, <3>2 DEF Purge
  <2> QED
    BY <1>4, <2>2, ReturnKeeps DEF Purge
<1>5. ASSUME NEW r \in Requests, TakeNothing(r)
      PROVE  IInv'
  <2>1. CASE op[r] = "delete"
    BY <1>5, <2>1
    DEF TakeNothing, Goto, IInv, TypeOK, PCs, Shape, Alive, Gated, Held, Mapped, OneOwner,
        DeletedRows, Serving, Authorized, Authorize
  <2>2. CASE op[r] # "delete"
    <3>1. Return(r) /\ UNCHANGED <<rowVars, tunnels, tunVars, procVars>>
      BY <1>5, <2>2 DEF TakeNothing
    <3>2. RowsKept
      BY <3>1 DEF IInv, TypeOK, DeletedRows, RowsKept
    <3> QED
      BY <3>1, <3>2, ReturnKeeps
  <2> QED
    BY <2>1, <2>2
<1>6. ASSUME NEW r \in Requests, Drain(r)
      PROVE  IInv'
  <2>1. PICK label \in {"idle", "record", "purge"} : Released(r, label)
    BY <1>6, DrainReleases DEF IInv
  <2>2. TypeOK'
    <3>1. pc' \in [Requests -> PCs] /\ ssh' \in [Tunnels -> {"up", "lost", "closed"}]
      BY <2>1 DEF Released, IInv, TypeOK, PCs
    <3>2. /\ op' \in [Requests -> Ops]
          /\ rFwd' \in [Requests -> Forwards \cup {NoForward}]
          /\ rPort' \in [Requests -> Ports \cup {NoPort}]
      BY <2>1 DEF Released, IInv, TypeOK, Ops
    <3>3. rTun' \in [Requests -> Tunnels \cup {NoTunnel}]
      BY <2>1 DEF Released, IInv, TypeOK
    <3> QED
      BY <2>1, <3>1, <3>2, <3>3 DEF Released, IInv, TypeOK
  <2>3. Shape' /\ Gated'
    BY <2>1 DEF Released, IInv, TypeOK, PCs, Ops, Shape, Gated, Authorized, Authorize
  <2>4. Alive' /\ Mapped' /\ DeletedRows'
    BY <2>1 DEF Released, IInv, TypeOK, Alive, Held, Mapped, OneOwner, DeletedRows, Serving,
                Authorized, Authorize
  <2>5. Held' /\ OneOwner'
    BY <2>1 DEF Released, IInv, TypeOK, PCs, Held, OneOwner, Serving
  <2> QED
    BY <2>2, <2>3, <2>4, <2>5 DEF IInv
<1> USE DEF IInv, TypeOK, Statuses, PCs, Ops, Shape, Alive, Gated, Held, Mapped, OneOwner,
           DeletedRows, Serving, Authorized, Authorize
<1>7. ASSUME NEW f \in Forwards, NEW p \in Ports, NEW ty \in ForwardTypes,
               CreateForward(f, p, ty)
      PROVE  IInv'
  BY <1>7 DEF CreateForward
<1>8. ASSUME NEW f \in Forwards, NEW p \in Ports, NEW s \in StatusChoices,
               UpdateForward(f, p, s)
      PROVE  IInv'
  BY <1>8 DEF UpdateForward, Exists
<1>9. ASSUME NEW r \in Requests, NEW f \in Forwards, StartForward(r, f)
      PROVE  IInv'
  BY <1>9 DEF StartForward, Begin, Exists
<1>10. ASSUME NEW r \in Requests, NEW f \in Forwards, StopForward(r, f)
      PROVE  IInv'
  BY <1>10 DEF StopForward, Begin
<1>11. ASSUME NEW r \in Requests, NEW f \in Forwards, DeleteForward(r, f)
      PROVE  IInv'
  BY <1>11 DEF DeleteForward, Begin
<1>12. ASSUME NEW r \in Requests, Check(r)
      PROVE  IInv'
  BY <1>12 DEF Check, Goto
<1>13. ASSUME NEW r \in Requests, Insert(r)
      PROVE  IInv'
  BY <1>13 DEF Insert
<1>14. ASSUME NEW r \in Requests, Take(r)
      PROVE  IInv'
  BY <1>14 DEF Take
<1>15. ASSUME NEW r \in Requests, CloseListener(r)
      PROVE  IInv'
  BY <1>15 DEF CloseListener, Goto
<1>16. ASSUME NEW r \in Requests, EstablishFails(r)
      PROVE  IInv'
  BY <1>16 DEF EstablishFails, Goto
<1>17. ASSUME NEW r \in Requests, NEW t \in Tunnels, Establish(r, t)
      PROVE  IInv'
  BY <1>17 DEF Establish
<1>18. ASSUME NEW t \in Tunnels, Accept(t)
      PROVE  IInv'
  BY <1>18 DEF Accept
<1>19. ASSUME NEW t \in Tunnels, Spawn(t)
      PROVE  IInv'
  BY <1>19 DEF Spawn
<1>20. ASSUME NEW t \in Tunnels, Finish(t)
      PROVE  IInv'
  BY <1>20 DEF Finish
<1>21. ASSUME NEW t \in Tunnels, LoopExit(t)
      PROVE  IInv'
  BY <1>21 DEF LoopExit
<1>22. ASSUME NEW t \in Tunnels, SshLost(t)
      PROVE  IInv'
  BY <1>22 DEF SshLost
<1>23. ASSUME NEW e \in Envs, Restart(e)
      PROVE  IInv'
  BY <1>23 DEF Restart
<1>24. CASE UNCHANGED vars
  BY <1>24
<1> HIDE DEF IInv, TypeOK, Statuses, PCs, Ops, Shape, Alive, Gated, Held, Mapped, OneOwner,
            DeletedRows, Serving, Authorized, Authorize
<1> QED
  BY <1>1, <1>2, <1>3, <1>4, <1>5, <1>6, <1>7, <1>8, <1>9, <1>10, <1>11, <1>12,
     <1>13, <1>14, <1>15, <1>16, <1>17, <1>18, <1>19, <1>20, <1>21, <1>22, <1>23, <1>24
  DEF Next, Arrive, Proceed, Dial

-----------------------------------------------------------------------------
(* Ports: what keeps Manager.Start from orphaning the tunnel it overwrites  *)

\* The clients of a forward never edit its port.
FixedPorts == \A f \in Forwards : \A p, q \in PortChoices[f] : p = q

RowPorts == \A f \in Forwards : status[f] # "none" => port[f] \in PortChoices[f]

RequestPorts ==
  \A r \in Requests :
    pc[r] \in {"check", "establish"} => rPort[r] \in PortChoices[rFwd[r]]

TunnelPorts ==
  \A t \in Tunnels : ssh[t] # "closed" => tPort[t] \in PortChoices[tFwd[t]]

\* No two tunnels listen at one endpoint.
Exclusive ==
  \A t, u \in Tunnels :
    listening[t] /\ listening[u]
      /\ Endpoint(tFwd[t], tPort[t]) = Endpoint(tFwd[u], tPort[u]) => t = u

PInv == RowPorts /\ RequestPorts /\ TunnelPorts /\ Exclusive /\ NoOrphanListener

\* One step for each action; Manager.Start's insert is the delicate one.
LEMMA PortStep == FixedPorts /\ IInv /\ PInv /\ [Next]_vars => PInv'
<1> SUFFICES ASSUME FixedPorts, IInv, PInv, [Next]_vars PROVE PInv'
  OBVIOUS
<1> USE ConstantsAssumption
<1> USE DEF IInv, PInv, TypeOK, Shape, Alive, Held, Mapped, RowPorts, RequestPorts,
           TunnelPorts, Exclusive, Endpoint, NoOrphanListener, Owned, Managed, HeldBy
<1>1. ASSUME NEW f \in Forwards, NEW p \in Ports, NEW ty \in ForwardTypes,
               CreateForward(f, p, ty)
      PROVE  PInv'
  BY <1>1 DEF CreateForward
<1>2. ASSUME NEW f \in Forwards, NEW p \in Ports, NEW s \in StatusChoices,
               UpdateForward(f, p, s)
      PROVE  PInv'
  BY <1>2 DEF UpdateForward, Exists
<1>3. ASSUME NEW r \in Requests, NEW f \in Forwards, StartForward(r, f)
      PROVE  PInv'
  BY <1>3 DEF StartForward, Begin, Exists
<1>4. ASSUME NEW r \in Requests, NEW f \in Forwards, StopForward(r, f)
      PROVE  PInv'
  BY <1>4 DEF StopForward, Begin
<1>5. ASSUME NEW r \in Requests, NEW f \in Forwards, DeleteForward(r, f)
      PROVE  PInv'
  BY <1>5 DEF DeleteForward, Begin
<1>6. ASSUME NEW r \in Requests, Check(r)
      PROVE  PInv'
  BY <1>6 DEF Check, Goto
<1>7. ASSUME NEW r \in Requests, Insert(r)
      PROVE  PInv'
  <2>1. RowPorts' /\ RequestPorts' /\ TunnelPorts' /\ Exclusive'
    BY <1>7 DEF Insert
  <2>2. NoOrphanListener'
    <3> SUFFICES ASSUME NEW t \in Tunnels, listening[t], ftype[tFwd[t]] # "remote"
                 PROVE  Owned(t)'
      BY <1>7 DEF Insert, NoOrphanListener
    <3>1. /\ rTun[r] \in Tunnels /\ tFwd[rTun[r]] = rFwd[r]
          /\ rFwd[r] \in Forwards /\ Serving(rTun[r])
          /\ tunnels' = [tunnels EXCEPT ![rFwd[r]] = rTun[r]]
          /\ rTun' = [rTun EXCEPT ![r] = NoTunnel]
          /\ tFwd' = tFwd
      BY <1>7 DEF Insert, TypeOK, Shape, Held
    <3>2. CASE t = rTun[r]
      BY <3>1, <3>2 DEF Owned, Managed, TypeOK
    <3>3. CASE t # rTun[r] /\ Managed(t)
      \* The entry overwritten would listen at the endpoint of the new tunnel.
      <4>1. tFwd[t] # rFwd[r]
        <5> SUFFICES ASSUME tFwd[t] = rFwd[r] PROVE FALSE
          OBVIOUS
        <5>1. listening[rTun[r]] /\ ssh[rTun[r]] # "closed" /\ ssh[t] # "closed"
          BY <3>1 DEF Serving, Alive
        <5>2. tPort[t] = tPort[rTun[r]]
          BY <3>1, <5>1 DEF TunnelPorts, FixedPorts
        <5> QED
          BY <3>1, <3>3, <5>1, <5>2 DEF Exclusive, Endpoint
      <4> QED
        BY <3>1, <3>3, <4>1 DEF Owned, Managed, TypeOK
    <3>4. CASE t # rTun[r] /\ \E q \in Requests : HeldBy(q, t)
      BY <3>1, <3>4 DEF Owned, HeldBy, TypeOK
    <3> QED
      BY <3>2, <3>3, <3>4 DEF NoOrphanListener, Owned
  <2> QED
    BY <2>1, <2>2
<1>8. ASSUME NEW r \in Requests, Activate(r)
      PROVE  PInv'
  <2>1. CASE SetStatus(rFwd[r], "active") /\ Return(r)
    BY <1>8, <2>1 DEF Activate, SetStatus, Return, Exists
  <2>2. CASE NoWrite /\ Goto(r, "take")
    BY <1>8, <2>2 DEF Activate, NoWrite, Goto
  <2>3. CASE SetStatus(rFwd[r], "active") /\ Goto(r, "take")
    BY <1>8, <2>3 DEF Activate, SetStatus, Goto, Exists
  <2> QED
    BY <1>8, <2>1, <2>2, <2>3 DEF Activate
<1>9. ASSUME NEW r \in Requests, RecordFailure(r)
      PROVE  PInv'
  BY <1>9 DEF RecordFailure, SetStatus, NoWrite, Return, Exists
<1>10. ASSUME NEW r \in Requests, Take(r)
      PROVE  PInv'
  BY <1>10 DEF Take
<1>11. ASSUME NEW r \in Requests, TakeNothing(r)
      PROVE  PInv'
  BY <1>11 DEF TakeNothing, Return, Goto
<1>12. ASSUME NEW r \in Requests, CloseListener(r)
      PROVE  PInv'
  BY <1>12 DEF CloseListener, Goto
<1>13. ASSUME NEW r \in Requests, Drain(r)
      PROVE  PInv'
  <2>1. PICK label \in {"idle", "record", "purge"} : Released(r, label)
    BY <1>13, DrainReleases
  <2>2. CASE label = "idle"
    BY <2>1, <2>2 DEF Released
  <2>3. CASE label # "idle"
    BY <2>1, <2>3 DEF Released
  <2> QED
    BY <2>2, <2>3
<1>14. ASSUME NEW r \in Requests, RecordStopped(r)
      PROVE  PInv'
  BY <1>14 DEF RecordStopped, SetStatus, NoWrite, Return, Exists
<1>15. ASSUME NEW r \in Requests, Purge(r)
      PROVE  PInv'
  BY <1>15 DEF Purge, NoWrite, Return, Exists
<1>16. ASSUME NEW r \in Requests, EstablishFails(r)
      PROVE  PInv'
  BY <1>16 DEF EstablishFails, Goto
<1>17. ASSUME NEW r \in Requests, NEW t \in Tunnels, Establish(r, t)
      PROVE  PInv'
  BY <1>17 DEF Establish, Bindable
<1>18. ASSUME NEW t \in Tunnels, Accept(t)
      PROVE  PInv'
  BY <1>18 DEF Accept
<1>19. ASSUME NEW t \in Tunnels, Spawn(t)
      PROVE  PInv'
  BY <1>19 DEF Spawn
<1>20. ASSUME NEW t \in Tunnels, Finish(t)
      PROVE  PInv'
  BY <1>20 DEF Finish
<1>21. ASSUME NEW t \in Tunnels, LoopExit(t)
      PROVE  PInv'
  BY <1>21 DEF LoopExit
<1>22. ASSUME NEW t \in Tunnels, SshLost(t)
      PROVE  PInv'
  BY <1>22 DEF SshLost
<1>23. ASSUME NEW e \in Envs, Restart(e)
      PROVE  PInv'
  BY <1>23 DEF Restart
<1>24. CASE UNCHANGED vars
  BY <1>24
<1> QED
  BY <1>1, <1>2, <1>3, <1>4, <1>5, <1>6, <1>7, <1>8, <1>9, <1>10, <1>11, <1>12,
     <1>13, <1>14, <1>15, <1>16, <1>17, <1>18, <1>19, <1>20, <1>21, <1>22, <1>23, <1>24
  DEF Next, Arrive, Proceed, Dial

-----------------------------------------------------------------------------
(* Theorems *)

\* The strengthened invariant holds in every reachable state.
LEMMA Invariance == Spec => []IInv
  BY Start, Step, PTL DEF Spec

\* Every variable of the tunnel service keeps its type.
THEOREM TypeCorrect == Spec => []TypeOK
  BY Invariance, PTL DEF IInv

\* Manager.tunnels never holds a closed or foreign tunnel.
THEOREM MapCorrect == Spec => []MapHoldsLiveTunnels
<1>1. IInv => MapHoldsLiveTunnels
  BY DEF IInv, Mapped, Serving, MapHoldsLiveTunnels
<1> QED
  BY <1>1, Invariance, PTL

\* No two parties ever hold the same tunnel, so none is closed twice.
THEOREM Ownership == Spec => []OneOwner
  BY Invariance, PTL DEF IInv

\* No tunnel is alive that the running authorizer would refuse.
THEOREM Authorization == Spec => []LiveTunnelsAuthorized
<1>1. IInv => LiveTunnelsAuthorized
  BY DEF IInv, Alive, LiveTunnelsAuthorized
<1> QED
  BY <1>1, Invariance, PTL

\* Tunnel.Close never closes the SSH connection under a running handler.
THEOREM ClosedLast == Spec => []SshClosedLast
<1>1. IInv => SshClosedLast
  BY DEF IInv, Alive, SshClosedLast
<1> QED
  BY <1>1, Invariance, PTL

\* As long as ports are not edited, no interleaving of Starts, Stops and Deletes
\* leaves a local listener bound that nobody can close.
THEOREM NoOrphan == FixedPorts => (Spec => []NoOrphanListener)
<1> SUFFICES ASSUME FixedPorts PROVE Spec => []NoOrphanListener
  OBVIOUS
<1>1. Init => PInv
  BY ConstantsAssumption
  DEF Init, PInv, RowPorts, RequestPorts, TunnelPorts, Exclusive, NoOrphanListener
<1>2. IInv /\ PInv /\ [Next]_vars => PInv'
  BY PortStep
<1>3. PInv => NoOrphanListener
  BY DEF PInv
<1> QED
  BY <1>1, <1>2, <1>3, Invariance, PTL DEF Spec

\* No handler in flight brings a deleted row back.
THEOREM Deletion == Spec => DeletedForever
<1>1. IInv /\ [Next]_vars =>
        [\A f \in Forwards : deleted[f] => deleted'[f] /\ status'[f] = status[f]]_vars
  <2> SUFFICES ASSUME IInv, Next, NEW f \in Forwards, deleted[f]
               PROVE  deleted'[f] /\ status'[f] = status[f]
    OBVIOUS
  <2>1. CASE UNCHANGED rowVars
    BY <2>1
  <2>2. ASSUME NEW g \in Forwards, NEW p \in Ports, NEW ty \in ForwardTypes,
               CreateForward(g, p, ty)
        PROVE  deleted'[f] /\ status'[f] = status[f]
    BY <2>2 DEF CreateForward, IInv, DeletedRows, TypeOK
  <2>3. ASSUME NEW g \in Forwards, NEW p \in Ports, NEW s \in StatusChoices,
               UpdateForward(g, p, s)
        PROVE  deleted'[f] /\ status'[f] = status[f]
    BY <2>3 DEF UpdateForward, Exists, IInv, TypeOK
  <2>4. ASSUME NEW r \in Requests, Activate(r) \/ RecordFailure(r) \/ RecordStopped(r)
        PROVE  deleted'[f] /\ status'[f] = status[f]
    BY <2>4
    DEF Activate, RecordFailure, RecordStopped, SetStatus, NoWrite, Exists, IInv, TypeOK
  <2>5. ASSUME NEW r \in Requests, Purge(r)
        PROVE  deleted'[f] /\ status'[f] = status[f]
    BY <2>5 DEF Purge, NoWrite, Exists, IInv, TypeOK
  <2> QED
    BY <2>1, <2>2, <2>3, <2>4, <2>5
    DEF Next, Arrive, Proceed, Dial, StartForward, StopForward, DeleteForward, Check,
        Insert, Take, TakeNothing, CloseListener, Drain, CloseSsh, EstablishFails,
        Establish, Accept, Spawn, Finish, LoopExit, SshLost, Restart
<1> QED
  BY <1>1, Invariance, PTL DEF Spec, DeletedForever

-----------------------------------------------------------------------------
(* Refinement *)

\* If only tunnel t changes, phase and load change by one EXCEPT.
LEMMA OneTunnelMoves ==
  ASSUME NEW t \in Tunnels, NEW p, NEW n,
         \A u \in Tunnels \ {t} : Phase'[u] = Phase[u] /\ Load'[u] = Load[u],
         Phase'[t] = p, Load'[t] = n
  PROVE  /\ Phase' = [Phase EXCEPT ![t] = p]
         /\ Load' = [Load EXCEPT ![t] = n]
         /\ p = Phase[t] => Phase' = Phase
         /\ n = Load[t] => Load' = Load
  BY DEF Phase, Load

\* Every step of the service is a step of the promise or leaves it alone.
LEMMA PromiseStep == IInv /\ [Next]_vars => [Lifecycle!Next]_(Lifecycle!vars)
<1> SUFFICES ASSUME IInv, [Next]_vars PROVE [Lifecycle!Next]_(Lifecycle!vars)
  OBVIOUS
<1> USE DEF IInv
<1> USE ConstantsAssumption
<1>1. CASE UNCHANGED <<listening, loop, conns, ssh>>
  BY <1>1 DEF Lifecycle!vars, Phase, Load
<1>2. ASSUME NEW r \in Requests, NEW t \in Tunnels, Establish(r, t)
      PROVE  Lifecycle!Open(t)
  <2>1. \A u \in Tunnels \ {t} : Phase'[u] = Phase[u] /\ Load'[u] = Load[u]
    BY <1>2 DEF Establish, Phase, Load, TypeOK
  <2>2. Phase[t] = "down" /\ Load[t] = 0 /\ Phase'[t] = "serving" /\ Load'[t] = 0
    BY <1>2 DEF Establish, Phase, Load, Alive, TypeOK
  <2> QED
    BY <2>1, <2>2, OneTunnelMoves DEF Lifecycle!Open
<1>3. ASSUME NEW r \in Requests, CloseListener(r)
      PROVE  Lifecycle!Refuse(rTun[r]) \/ UNCHANGED Lifecycle!vars
  <2>1. rTun[r] \in Tunnels /\ ssh[rTun[r]] # "closed"
    BY <1>3 DEF CloseListener, TypeOK, Shape, Held
  <2>2. \A u \in Tunnels \ {rTun[r]} : Phase'[u] = Phase[u] /\ Load'[u] = Load[u]
    BY <1>3, <2>1 DEF CloseListener, Phase, Load, TypeOK
  <2>3. Phase'[rTun[r]] = "draining" /\ Load'[rTun[r]] = Load[rTun[r]]
    BY <1>3, <2>1 DEF CloseListener, Phase, Load, TypeOK
  <2>4. Phase[rTun[r]] = "serving" \/ Phase[rTun[r]] = "draining"
    BY <2>1 DEF Phase
  <2> QED
    BY <2>1, <2>2, <2>3, <2>4, OneTunnelMoves DEF Lifecycle!Refuse, Lifecycle!vars
<1>4. ASSUME NEW r \in Requests, Drain(r)
      PROVE  Lifecycle!Close(rTun[r])
  <2>1. PICK label \in {"idle", "record", "purge"} : Released(r, label)
    BY <1>4, DrainReleases
  <2>2. rTun[r] \in Tunnels /\ ssh[rTun[r]] # "closed" /\ ~listening[rTun[r]]
    BY <2>1 DEF Released, Held, TypeOK
  <2>3. \A u \in Tunnels \ {rTun[r]} : Phase'[u] = Phase[u] /\ Load'[u] = Load[u]
    BY <2>1, <2>2 DEF Released, Phase, Load, TypeOK
  <2>4. /\ Phase[rTun[r]] = "draining" /\ Load[rTun[r]] = 0
        /\ Phase'[rTun[r]] = "down" /\ Load'[rTun[r]] = 0
    BY <2>1, <2>2 DEF Released, Phase, Load, TypeOK
  <2> QED
    BY <2>2, <2>3, <2>4, OneTunnelMoves DEF Lifecycle!Close
<1>5. ASSUME NEW t \in Tunnels, Accept(t)
      PROVE  Lifecycle!Join(t)
  <2>1. \A u \in Tunnels \ {t} : Phase'[u] = Phase[u] /\ Load'[u] = Load[u]
    BY <1>5 DEF Accept, Phase, Load, TypeOK
  <2>2. /\ Phase[t] = "serving" /\ Phase'[t] = Phase[t]
        /\ Load'[t] = Load[t] + 1
    BY <1>5 DEF Accept, Phase, Load, Alive, TypeOK
  <2> QED
    BY <2>1, <2>2, OneTunnelMoves DEF Lifecycle!Join
<1>6. ASSUME NEW t \in Tunnels, Spawn(t)
      PROVE  UNCHANGED Lifecycle!vars
  <2>1. \A u \in Tunnels : Phase'[u] = Phase[u] /\ Load'[u] = Load[u]
    BY <1>6 DEF Spawn, Phase, Load, TypeOK
  <2> QED
    BY <2>1 DEF Lifecycle!vars, Phase, Load
<1>7. ASSUME NEW t \in Tunnels, Finish(t)
      PROVE  Lifecycle!Leave(t)
  <2>1. \A u \in Tunnels \ {t} : Phase'[u] = Phase[u] /\ Load'[u] = Load[u]
    BY <1>7 DEF Finish, Phase, Load, TypeOK
  <2>2. /\ Phase[t] # "down" /\ Phase'[t] = Phase[t]
        /\ Load[t] > 0 /\ Load'[t] = Load[t] - 1
    BY <1>7 DEF Finish, Phase, Load, Alive, TypeOK
  <2> QED
    BY <2>1, <2>2, OneTunnelMoves DEF Lifecycle!Leave
<1>8. ASSUME NEW t \in Tunnels, LoopExit(t)
      PROVE  UNCHANGED Lifecycle!vars
  <2>1. \A u \in Tunnels : Phase'[u] = Phase[u] /\ Load'[u] = Load[u]
    BY <1>8 DEF LoopExit, Phase, Load, TypeOK
  <2> QED
    BY <2>1 DEF Lifecycle!vars, Phase, Load
<1>9. ASSUME NEW t \in Tunnels, SshLost(t)
      PROVE  Lifecycle!Refuse(t) \/ UNCHANGED Lifecycle!vars
  <2>1. \A u \in Tunnels \ {t} : Phase'[u] = Phase[u] /\ Load'[u] = Load[u]
    BY <1>9 DEF SshLost, Phase, Load, TypeOK
  <2>2. /\ Load'[t] = Load[t]
        /\ \/ Phase[t] = "serving" /\ Phase'[t] = "draining"
           \/ Phase'[t] = Phase[t]
    BY <1>9 DEF SshLost, Phase, Load, TypeOK
  <2> QED
    BY <2>1, <2>2, OneTunnelMoves DEF Lifecycle!Refuse, Lifecycle!vars
<1>10. ASSUME NEW e \in Envs, Restart(e)
       PROVE  Lifecycle!Crash
  BY <1>10 DEF Restart, Lifecycle!Crash, Phase, Load
<1>11. ASSUME NEW r \in Requests, CloseListener(r) \/ Drain(r)
       PROVE  [Lifecycle!Next]_(Lifecycle!vars)
  <2>1. rTun[r] \in Tunnels
    BY <1>11 DEF CloseListener, Drain, TypeOK, Shape
  <2> QED
    BY <1>3, <1>4, <1>11, <2>1 DEF Lifecycle!Next
<1> QED
  BY <1>1, <1>2, <1>5, <1>6, <1>7, <1>8, <1>9, <1>10, <1>11
  DEF Next, Arrive, Proceed, Dial, CreateForward, UpdateForward, StartForward,
      StopForward, DeleteForward, Check, Insert, Activate, RecordFailure, Take,
      TakeNothing, RecordStopped, Purge, EstablishFails, Lifecycle!Next

\* port-forward-service implements TunnelLifecycle, for any number of forwards,
\* tunnels, requests, connections and restarts.
THEOREM Promise == Spec => TunnelsKeepPromise
<1>1. Init => Lifecycle!Init
  BY DEF Init, Lifecycle!Init, Phase, Load
<1>2. IInv /\ [Next]_vars => [Lifecycle!Next]_(Lifecycle!vars)
  BY PromiseStep
<1> QED
  BY <1>1, <1>2, Invariance, PTL DEF Spec, TunnelsKeepPromise, Lifecycle!Spec
=============================================================================
