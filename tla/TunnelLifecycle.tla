-------------------------- MODULE TunnelLifecycle --------------------------
(***************************************************************************)
(* What port-forward-service promises of every tunnel it builds, with the  *)
(* HTTP requests, the manager's map and the database forgotten: a tunnel   *)
(* serves connections, then refuses new ones, and its SSH connection is    *)
(* closed only after the last connection has drained (forwarder.go, the    *)
(* comment on Tunnel.Close).                                               *)
(***************************************************************************)
EXTENDS Naturals

CONSTANT Tunnels

VARIABLES
  phase,    \* what a client of the tunnel can observe of it
  load      \* connections accepted and not yet finished

vars == <<phase, load>>

Phases == {"down", "serving", "draining"}

TypeOK ==
  /\ phase \in [Tunnels -> Phases]
  /\ load \in [Tunnels -> Nat]

Init ==
  /\ phase = [t \in Tunnels |-> "down"]
  /\ load = [t \in Tunnels |-> 0]

Open(t) ==
  /\ phase[t] = "down"
  /\ load[t] = 0
  /\ phase' = [phase EXCEPT ![t] = "serving"]
  /\ UNCHANGED load

Join(t) ==
  /\ phase[t] = "serving"
  /\ load' = [load EXCEPT ![t] = @ + 1]
  /\ UNCHANGED phase

Leave(t) ==
  /\ phase[t] # "down"
  /\ load[t] > 0
  /\ load' = [load EXCEPT ![t] = @ - 1]
  /\ UNCHANGED phase

Refuse(t) ==
  /\ phase[t] = "serving"
  /\ phase' = [phase EXCEPT ![t] = "draining"]
  /\ UNCHANGED load

Close(t) ==
  /\ phase[t] = "draining"
  /\ load[t] = 0
  /\ phase' = [phase EXCEPT ![t] = "down"]
  /\ UNCHANGED load

\* The process dies: the operating system closes every socket.
Crash ==
  /\ phase' = [t \in Tunnels |-> "down"]
  /\ load' = [t \in Tunnels |-> 0]

Next ==
  \/ \E t \in Tunnels : Open(t) \/ Join(t) \/ Leave(t) \/ Refuse(t) \/ Close(t)
  \/ Crash

Spec == Init /\ [][Next]_vars
=============================================================================
