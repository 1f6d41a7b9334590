---------------------------- MODULE PortForward ----------------------------
(***************************************************************************)
(* services/port-forward-service: the tunnel manager, its tunnels, the     *)
(* catalog rows in PostgreSQL and the HTTP handlers that tie them          *)
(* together.                                                               *)
(*                                                                         *)
(* Every handler runs in its own goroutine.  The atomic steps are the ones *)
(* the code has: one SQL statement (each runs alone, in autocommit), one   *)
(* critical section of Manager.mu, one socket call.  A request is a        *)
(* process with a program counter; a tunnel has an accept loop and         *)
(* connection handlers of its own.                                         *)
(***************************************************************************)
EXTENDS Naturals

CONSTANTS
  Forwards,      \* forward ids (uuid, fresh for every CreateForward)
  Tunnels,       \* heap objects of type *Tunnel
  Requests,      \* in-flight HTTP requests
  Hosts,         \* SSH servers
  Ports,         \* bind_address:local_port pairs
  SshHost,       \* ssh_host of each forward: set on creation, never edited
  TypeChoices,   \* the forward types a client asks for, by forward
  PortChoices,   \* the ports a client asks for, by forward
  Envs,          \* the authorizer configurations the service is started with
  StatusChoices, \* what a client may PUT as status: {"active","inactive"} or {}
  MaxConns,      \* bound: connections open at once on a tunnel
  MaxRestarts,   \* bound: restarts of the process
  NoTunnel, NoForward, NoPort, ThisHost

ForwardTypes == {"local", "remote", "dynamic"}

EnvType == [remote : BOOLEAN, dynamic : BOOLEAN, hosts : SUBSET Hosts]

ASSUME ConstantsAssumption ==
  /\ TypeChoices \in [Forwards -> SUBSET ForwardTypes]
  /\ SshHost \in [Forwards -> Hosts]
  /\ PortChoices \in [Forwards -> SUBSET Ports]
  /\ Envs \subseteq EnvType
  /\ StatusChoices \subseteq {"active", "inactive"}
  /\ MaxConns \in Nat /\ MaxRestarts \in Nat
  /\ NoTunnel \notin Tunnels
  /\ NoForward \notin Forwards
  /\ NoPort \notin Ports
  /\ ThisHost \notin Hosts

VARIABLES
  \* table port_forwards; status "none" is a row that does not exist
  status, ftype, port, deleted,
  \* Manager.tunnels: at most one tunnel per forward
  tunnels,
  \* the tunnels on the heap: Config.ID, Config.LocalPort, the listener, the
  \* accept loop, the running connection handlers, the SSH connection
  tFwd, tPort, listening, loop, conns, ssh,
  \* the requests: program counter, handler, forward, the tunnel held in a
  \* local variable, the local_port read from the row
  pc, op, rFwd, rTun, rPort,
  \* the process: its authorizer, and how often it was restarted
  env, restarts

rowVars == <<status, ftype, port, deleted>>
tunVars == <<tFwd, tPort, listening, loop, conns, ssh>>
reqVars == <<pc, op, rFwd, rTun, rPort>>
procVars == <<env, restarts>>
vars == <<rowVars, tunnels, tunVars, reqVars, procVars>>

Statuses ==
  {"none", "pending", "active", "inactive", "stopped", "error", "deleted"}

PCs == {"idle", "check", "establish", "insert", "activate", "fail",
        "take", "close", "drain", "record", "purge"}

Ops == {"none", "start", "stop", "delete"}

TypeOK ==
  /\ status \in [Forwards -> Statuses]
  /\ ftype \in [Forwards -> ForwardTypes \cup {"none"}]
  /\ port \in [Forwards -> Ports \cup {NoPort}]
  /\ deleted \in [Forwards -> BOOLEAN]
  /\ tunnels \in [Forwards -> Tunnels \cup {NoTunnel}]
  /\ tFwd \in [Tunnels -> Forwards \cup {NoForward}]
  /\ tPort \in [Tunnels -> Ports \cup {NoPort}]
  /\ listening \in [Tunnels -> BOOLEAN]
  /\ loop \in [Tunnels -> {"accept", "inhand", "exit"}]
  /\ conns \in [Tunnels -> Nat]
  /\ ssh \in [Tunnels -> {"up", "lost", "closed"}]
  /\ pc \in [Requests -> PCs]
  /\ op \in [Requests -> Ops]
  /\ rFwd \in [Requests -> Forwards \cup {NoForward}]
  /\ rTun \in [Requests -> Tunnels \cup {NoTunnel}]
  /\ rPort \in [Requests -> Ports \cup {NoPort}]
  /\ env \in EnvType
  /\ restarts \in Nat

Init ==
  /\ status = [f \in Forwards |-> "none"]
  /\ ftype = [f \in Forwards |-> "none"]
  /\ port = [f \in Forwards |-> NoPort]
  /\ deleted = [f \in Forwards |-> FALSE]
  /\ tunnels = [f \in Forwards |-> NoTunnel]
  /\ tFwd = [t \in Tunnels |-> NoForward]
  /\ tPort = [t \in Tunnels |-> NoPort]
  /\ listening = [t \in Tunnels |-> FALSE]
  /\ loop = [t \in Tunnels |-> "exit"]
  /\ conns = [t \in Tunnels |-> 0]
  /\ ssh = [t \in Tunnels |-> "closed"]
  /\ pc = [r \in Requests |-> "idle"]
  /\ op = [r \in Requests |-> "none"]
  /\ rFwd = [r \in Requests |-> NoForward]
  /\ rTun = [r \in Requests |-> NoTunnel]
  /\ rPort = [r \in Requests |-> NoPort]
  /\ env \in Envs
  /\ restarts = 0

-----------------------------------------------------------------------------
(* Helpers *)

\* Authorizer.Authorize: local forwards always; the others when the type is
\* enabled and, if there is a host allow-list, the host is on it.
Authorize(ty, host) ==
  \/ ty = "local"
  \/ /\ \/ ty = "remote" /\ env.remote
        \/ ty = "dynamic" /\ env.dynamic
     /\ env.hosts = {} \/ host \in env.hosts

Authorized(f) == Authorize(ftype[f], SshHost[f])

\* Slip: the statement has no deleted_at guard.
WasCreated(f) == status[f] # "none"

\* WHERE id = $1 AND deleted_at IS NULL
Exists(f) == status[f] # "none" /\ ~deleted[f]

\* A -R listener is bound on the SSH server, the others on this machine.
\* (A tunnel has its own copy of the type; the row's never changes.)
Endpoint(f, p) == <<IF ftype[f] = "remote" THEN SshHost[f] ELSE ThisHost, p>>

\* Slip: the port is left to the system to choose, or SO_REUSEPORT is set.
AlwaysBindable(f, p) == TRUE

Bindable(f, p) ==
  \A t \in Tunnels : listening[t] => Endpoint(tFwd[t], tPort[t]) # Endpoint(f, p)

\* The request's handler returns and its local variables are gone.
Return(r) ==
  /\ pc' = [pc EXCEPT ![r] = "idle"]
  /\ op' = [op EXCEPT ![r] = "none"]
  /\ rFwd' = [rFwd EXCEPT ![r] = NoForward]
  /\ rTun' = [rTun EXCEPT ![r] = NoTunnel]
  /\ rPort' = [rPort EXCEPT ![r] = NoPort]

Goto(r, label) ==
  /\ pc' = [pc EXCEPT ![r] = label]
  /\ UNCHANGED <<op, rFwd, rTun, rPort>>

\* A handler starts on forward f.
Begin(r, handler, label, f, p) ==
  /\ pc[r] = "idle"
  /\ pc' = [pc EXCEPT ![r] = label]
  /\ op' = [op EXCEPT ![r] = handler]
  /\ rFwd' = [rFwd EXCEPT ![r] = f]
  /\ rPort' = [rPort EXCEPT ![r] = p]
  /\ UNCHANGED rTun

\* Repository.UpdateStatus, when the statement reaches a live row.
SetStatus(f, s) ==
  /\ Exists(f)
  /\ status' = [status EXCEPT ![f] = s]
  /\ UNCHANGED <<ftype, port, deleted>>

\* A statement that finds no row, or fails (the database is away, or the
\* client hung up and cancelled the request's context).
NoWrite == UNCHANGED rowVars

-----------------------------------------------------------------------------
(* Catalog handlers that are one statement *)

\* Handler.CreateForward: the type is authorized, then one INSERT.
CreateForward(f, p, ty) ==
  /\ status[f] = "none"
  /\ p \in PortChoices[f]
  /\ ty \in TypeChoices[f]
  /\ Authorize(ty, SshHost[f])
  /\ status' = [status EXCEPT ![f] = "pending"]
  /\ ftype' = [ftype EXCEPT ![f] = ty]
  /\ port' = [port EXCEPT ![f] = p]
  /\ UNCHANGED <<deleted, tunnels, tunVars, reqVars, procVars>>

\* Handler.UpdateForward: one UPDATE of the editable columns, the status among
\* them; no tunnel is touched.
UpdateForward(f, p, s) ==
  /\ Exists(f)
  /\ p \in PortChoices[f]
  /\ s \in StatusChoices
  /\ status' = [status EXCEPT ![f] = s]
  /\ port' = [port EXCEPT ![f] = p]
  /\ UNCHANGED <<ftype, deleted, tunnels, tunVars, reqVars, procVars>>

-----------------------------------------------------------------------------
(* Handler.StartForward and Manager.Start *)

\* Slip: the gate is left to CreateForward.
StartForwardUngated(r, f) ==
  /\ Exists(f)
  /\ Begin(r, "start", "check", f, port[f])
  /\ UNCHANGED <<rowVars, tunnels, tunVars, procVars>>

\* The row is read, the type authorized again, the credentials parsed.
StartForward(r, f) ==
  /\ Exists(f)
  /\ Authorized(f)
  /\ Begin(r, "start", "check", f, port[f])
  /\ UNCHANGED <<rowVars, tunnels, tunVars, procVars>>

\* First critical section of Manager.Start.
Check(r) ==
  /\ pc[r] = "check"
  /\ Goto(r, IF tunnels[rFwd[r]] = NoTunnel THEN "establish" ELSE "fail")
  /\ UNCHANGED <<rowVars, tunnels, tunVars, procVars>>

\* newTunnel cannot dial, or cannot bind and closes what it dialled.
EstablishFails(r) ==
  /\ pc[r] = "establish"
  /\ Goto(r, "fail")
  /\ UNCHANGED <<rowVars, tunnels, tunVars, procVars>>

\* newTunnel dials, binds the listener and starts the accept loop.
Establish(r, t) ==
  /\ pc[r] = "establish"
  /\ ssh[t] = "closed"
  /\ Bindable(rFwd[r], rPort[r])
  /\ tFwd' = [tFwd EXCEPT ![t] = rFwd[r]]
  /\ tPort' = [tPort EXCEPT ![t] = rPort[r]]
  /\ listening' = [listening EXCEPT ![t] = TRUE]
  /\ loop' = [loop EXCEPT ![t] = "accept"]
  /\ ssh' = [ssh EXCEPT ![t] = "up"]
  /\ pc' = [pc EXCEPT ![r] = "insert"]
  /\ rTun' = [rTun EXCEPT ![r] = t]
  /\ UNCHANGED <<conns, op, rFwd, rPort, rowVars, tunnels, procVars>>

\* Second critical section of Manager.Start: whatever entry is there is
\* overwritten.
Insert(r) ==
  /\ pc[r] = "insert"
  /\ tunnels' = [tunnels EXCEPT ![rFwd[r]] = rTun[r]]
  /\ pc' = [pc EXCEPT ![r] = "activate"]
  /\ rTun' = [rTun EXCEPT ![r] = NoTunnel]
  /\ UNCHANGED <<op, rFwd, rPort, rowVars, tunVars, procVars>>

\* UpdateStatus(active); when it reports an error (it may have been carried out
\* all the same) the handler stops whatever tunnel the forward has now.
Activate(r) ==
  /\ pc[r] = "activate"
  /\ \/ SetStatus(rFwd[r], "active") /\ (Return(r) \/ Goto(r, "take"))
     \/ NoWrite /\ Goto(r, "take")
  /\ UNCHANGED <<tunnels, tunVars, procVars>>

\* UpdateStatus(error), its own failure ignored.
RecordFailure(r) ==
  /\ pc[r] = "fail"
  /\ SetStatus(rFwd[r], "error") \/ NoWrite
  /\ Return(r)
  /\ UNCHANGED <<tunnels, tunVars, procVars>>

-----------------------------------------------------------------------------
(* Manager.Stop and Tunnel.Close, called by StopForward, by DeleteForward  *)
(* and by StartForward when the row cannot be made active                  *)

StopForward(r, f) ==
  /\ status[f] # "none"
  /\ Begin(r, "stop", "take", f, NoPort)
  /\ UNCHANGED <<rowVars, tunnels, tunVars, procVars>>

DeleteForward(r, f) ==
  /\ status[f] # "none"
  /\ Begin(r, "delete", "take", f, NoPort)
  /\ UNCHANGED <<rowVars, tunnels, tunVars, procVars>>

\* Slip: the entry is read but not deleted under the lock.
TakeWithoutDelete(r) ==
  LET t == tunnels[rFwd[r]] IN
  /\ pc[r] = "take"
  /\ t # NoTunnel
  /\ pc' = [pc EXCEPT ![r] = "close"]
  /\ rTun' = [rTun EXCEPT ![r] = t]
  /\ UNCHANGED <<op, rFwd, rPort, rowVars, tunnels, tunVars, procVars>>

\* Critical section of Manager.Stop, an entry found: it is removed.
Take(r) ==
  LET t == tunnels[rFwd[r]] IN
  /\ pc[r] = "take"
  /\ t # NoTunnel
  /\ tunnels' = [tunnels EXCEPT ![rFwd[r]] = NoTunnel]
  /\ pc' = [pc EXCEPT ![r] = "close"]
  /\ rTun' = [rTun EXCEPT ![r] = t]
  /\ UNCHANGED <<op, rFwd, rPort, rowVars, tunVars, procVars>>

\* ErrTunnelNotRunning: DeleteForward goes on, the other handlers return.
TakeNothing(r) ==
  /\ pc[r] = "take"
  /\ tunnels[rFwd[r]] = NoTunnel
  /\ IF op[r] = "delete" THEN Goto(r, "purge") ELSE Return(r)
  /\ UNCHANGED <<rowVars, tunnels, tunVars, procVars>>

CloseListener(r) ==
  /\ pc[r] = "close"
  /\ listening' = [listening EXCEPT ![rTun[r]] = FALSE]
  /\ Goto(r, "drain")
  /\ UNCHANGED <<tFwd, tPort, loop, conns, ssh, rowVars, tunnels, procVars>>

\* The rest of Close once t.wg.Wait() returns, and what the handler does next.
CloseSsh(r) ==
  /\ ssh' = [ssh EXCEPT ![rTun[r]] = "closed"]
  /\ CASE op[r] = "start"  -> Return(r)
       [] op[r] = "stop"   -> /\ pc' = [pc EXCEPT ![r] = "record"]
                              /\ rTun' = [rTun EXCEPT ![r] = NoTunnel]
                              /\ UNCHANGED <<op, rFwd, rPort>>
       [] op[r] = "delete" -> /\ pc' = [pc EXCEPT ![r] = "purge"]
                              /\ rTun' = [rTun EXCEPT ![r] = NoTunnel]
                              /\ UNCHANGED <<op, rFwd, rPort>>
  /\ UNCHANGED <<tFwd, tPort, listening, loop, conns, rowVars, tunnels, procVars>>

\* Slip: the accept loop is not counted in t.wg.
DrainHandlersOnly(r) ==
  /\ pc[r] = "drain"
  /\ conns[rTun[r]] = 0
  /\ CloseSsh(r)

\* t.wg counts the accept loop and every running handler.
Drain(r) ==
  /\ pc[r] = "drain"
  /\ loop[rTun[r]] = "exit"
  /\ conns[rTun[r]] = 0
  /\ CloseSsh(r)

\* StopForward's UpdateStatus(stopped).
RecordStopped(r) ==
  /\ pc[r] = "record"
  /\ SetStatus(rFwd[r], "stopped") \/ NoWrite
  /\ Return(r)
  /\ UNCHANGED <<tunnels, tunVars, procVars>>

\* Repository.DeleteForward: the soft delete.
Purge(r) ==
  /\ pc[r] = "purge"
  /\ \/ /\ Exists(rFwd[r])
        /\ status' = [status EXCEPT ![rFwd[r]] = "deleted"]
        /\ deleted' = [deleted EXCEPT ![rFwd[r]] = TRUE]
        /\ UNCHANGED <<ftype, port>>
     \/ NoWrite
  /\ Return(r)
  /\ UNCHANGED <<tunnels, tunVars, procVars>>

-----------------------------------------------------------------------------
(* The goroutines of a tunnel, its peers, and the process *)

\* Accept returns a connection to the loop.
Accept(t) ==
  /\ listening[t]
  /\ loop[t] = "accept"
  /\ conns[t] < MaxConns
  /\ loop' = [loop EXCEPT ![t] = "inhand"]
  /\ UNCHANGED <<tFwd, tPort, listening, conns, ssh, rowVars, tunnels, reqVars, procVars>>

\* wg.Add, the counters, and the handler goroutine is started.
Spawn(t) ==
  /\ loop[t] = "inhand"
  /\ loop' = [loop EXCEPT ![t] = "accept"]
  /\ conns' = [conns EXCEPT ![t] = @ + 1]
  /\ UNCHANGED <<tFwd, tPort, listening, ssh, rowVars, tunnels, reqVars, procVars>>

\* Slip: the handler's deferred decrement runs twice.
FinishTwice(t) ==
  /\ conns[t] > 0
  /\ conns' = [conns EXCEPT ![t] = @ - 2]
  /\ UNCHANGED <<tFwd, tPort, listening, loop, ssh, rowVars, tunnels, reqVars, procVars>>

\* A handler returns: its target cannot be dialled, or both copies of
\* serveConn have drained.
Finish(t) ==
  /\ conns[t] > 0
  /\ conns' = [conns EXCEPT ![t] = @ - 1]
  /\ UNCHANGED <<tFwd, tPort, listening, loop, ssh, rowVars, tunnels, reqVars, procVars>>

\* Slip: acceptLoop continues after an error unless stopCh says so, and
\* stopCh is never closed.
LoopNeverExits(t) == FALSE /\ UNCHANGED vars

\* Accept fails once the listener is closed.
LoopExit(t) ==
  /\ loop[t] = "accept"
  /\ ~listening[t]
  /\ loop' = [loop EXCEPT ![t] = "exit"]
  /\ UNCHANGED <<tFwd, tPort, listening, conns, ssh, rowVars, tunnels, reqVars, procVars>>

\* The SSH connection breaks; with it goes a listener on the SSH server.
SshLost(t) ==
  /\ ssh[t] = "up"
  /\ ssh' = [ssh EXCEPT ![t] = "lost"]
  /\ listening' = [listening EXCEPT ![t] = @ /\ ftype[tFwd[t]] # "remote"]
  /\ UNCHANGED <<tFwd, tPort, loop, conns, rowVars, tunnels, reqVars, procVars>>

\* The process ends and is started again, perhaps configured differently:
\* its memory and its sockets are gone, the rows stay.
Restart(e) ==
  /\ restarts < MaxRestarts
  /\ restarts' = restarts + 1
  /\ env' = e
  /\ tunnels' = [f \in Forwards |-> NoTunnel]
  /\ tFwd' = [t \in Tunnels |-> NoForward]
  /\ tPort' = [t \in Tunnels |-> NoPort]
  /\ listening' = [t \in Tunnels |-> FALSE]
  /\ loop' = [t \in Tunnels |-> "exit"]
  /\ conns' = [t \in Tunnels |-> 0]
  /\ ssh' = [t \in Tunnels |-> "closed"]
  /\ pc' = [r \in Requests |-> "idle"]
  /\ op' = [r \in Requests |-> "none"]
  /\ rFwd' = [r \in Requests |-> NoForward]
  /\ rTun' = [r \in Requests |-> NoTunnel]
  /\ rPort' = [r \in Requests |-> NoPort]
  /\ UNCHANGED rowVars

-----------------------------------------------------------------------------
\* What a request does once it has begun, and nothing can keep it from doing:
\* the dial is not among them (an SSH handshake has no deadline).
Proceed(r) ==
  \/ Check(r) \/ Insert(r) \/ Activate(r) \/ RecordFailure(r)
  \/ Take(r) \/ TakeNothing(r) \/ Drain(r) \/ RecordStopped(r) \/ Purge(r)

\* Closing a -R listener asks the SSH server, and waits for its reply.
AwaitsServer(r) ==
  pc[r] = "close" /\ ftype[rFwd[r]] = "remote" /\ ssh[rTun[r]] = "up"

Dial(r) == EstablishFails(r) \/ \E t \in Tunnels : Establish(r, t)

Arrive(r) ==
  \E f \in Forwards : StartForward(r, f) \/ StopForward(r, f) \/ DeleteForward(r, f)

Next ==
  \/ \E f \in Forwards, p \in Ports, ty \in ForwardTypes : CreateForward(f, p, ty)
  \/ \E f \in Forwards, p \in Ports, s \in StatusChoices : UpdateForward(f, p, s)
  \/ \E r \in Requests : Arrive(r)
  \/ \E r \in Requests : Proceed(r) \/ CloseListener(r)
  \/ \E r \in Requests : Dial(r)
  \/ \E t \in Tunnels : Accept(t) \/ Spawn(t) \/ Finish(t) \/ LoopExit(t)
  \/ \E t \in Tunnels : SshLost(t)
  \/ \E e \in Envs : Restart(e)

Spec == Init /\ [][Next]_vars

\* The goroutines of the service are scheduled; clients, peers, SSH servers
\* and the operator owe nothing.
Fairness ==
  /\ \A r \in Requests :
       WF_vars(Proceed(r)) /\ WF_vars(CloseListener(r) /\ ~AwaitsServer(r))
  /\ \A t \in Tunnels : WF_vars(Spawn(t)) /\ WF_vars(LoopExit(t))

FairSpec == Spec /\ Fairness

-----------------------------------------------------------------------------
(* Properties *)

\* A request between newTunnel and the insert, or between the delete from the
\* map and the end of Close, owns the tunnel in its local variable.
HeldBy(r, t) == rTun[r] = t

Managed(t) == tFwd[t] \in Forwards /\ tunnels[tFwd[t]] = t

Owned(t) == Managed(t) \/ \E r \in Requests : HeldBy(r, t)

\* Every entry of Manager.tunnels is a tunnel of that forward whose listener is
\* bound and whose SSH connection was established: no request of any
\* interleaving leaves a closed or foreign tunnel in the map.  An SSH
\* connection lost later takes a -R listener with it, unnoticed.
MapHoldsLiveTunnels ==
  \A f \in Forwards : tunnels[f] # NoTunnel =>
    LET t == tunnels[f] IN
    /\ tFwd[t] = f
    /\ ssh[t] # "closed"
    /\ listening[t] \/ (ssh[t] = "lost" /\ ftype[f] = "remote")

\* A tunnel has one owner at most, the map or a request: two requests never
\* both run Close on it and none is inserted while another closes it.
OneOwner ==
  /\ \A r, s \in Requests : rTun[r] # NoTunnel /\ rTun[r] = rTun[s] => r = s
  /\ \A r \in Requests, f \in Forwards : rTun[r] # NoTunnel => tunnels[f] # rTun[r]

\* While the ports are not edited, a bound listener on this machine always has
\* an owner that can still close it, however Starts, Stops and Deletes
\* interleave: the overwriting insert of Manager.Start never loses one.
NoOrphanListener ==
  \A t \in Tunnels : listening[t] /\ ftype[tFwd[t]] # "remote" => Owned(t)

\* A live tunnel is of a type (and, if listed, to a host) that the authorizer
\* of the running process allows, even for rows created under another
\* configuration.
LiveTunnelsAuthorized ==
  \A t \in Tunnels : ssh[t] # "closed" => tFwd[t] \in Forwards /\ Authorized(tFwd[t])

\* Close closes the SSH connection last: once it is closed no handler of the
\* tunnel is running and none will be started.
SshClosedLast ==
  \A t \in Tunnels : ssh[t] = "closed" => conns[t] = 0 /\ loop[t] = "exit"

\* No handler that read the row before a delete brings a deleted row back.
DeletedForever ==
  [][\A f \in Forwards : deleted[f] => deleted'[f] /\ status'[f] = status[f]]_vars

\* What the clients of a tunnel can observe of it, and the connections it has
\* accepted and not finished: the one in the loop's hand is one of them.
Phase == [t \in Tunnels |->
            IF ssh[t] = "closed" THEN "down"
            ELSE IF listening[t] THEN "serving" ELSE "draining"]

Load == [t \in Tunnels |-> conns[t] + (IF loop[t] = "inhand" THEN 1 ELSE 0)]

Lifecycle == INSTANCE TunnelLifecycle WITH phase <- Phase, load <- Load

\* The service implements TunnelLifecycle: new connections are refused first,
\* the running ones drain, and only then is the SSH connection closed.
TunnelsKeepPromise == Lifecycle!Spec

\* A request past the dial always returns, unless it is closing a tunnel whose
\* SSH server does not answer, or one of whose peers never hangs up: nothing in
\* Tunnel.Close has a timeout.
RequestsReturn ==
  \A r \in Requests :
    pc[r] \notin {"idle", "establish"} ~>
      \/ pc[r] \in {"idle", "establish"}
      \/ []AwaitsServer(r)
      \/ [](pc[r] = "drain" /\ conns[rTun[r]] > 0)

\* "UpdateStatus sets a forward's status to reflect REAL tunnel state": with no
\* request in flight for a row, it is active exactly when its tunnel is up.
SettledStatusIsReal ==
  \A f \in Forwards :
    (\A r \in Requests : rFwd[r] # f) =>
      (status[f] = "active" <=> tunnels[f] # NoTunnel)

\* "If a tunnel is currently running for it, the tunnel is really torn down
\* first so nothing is orphaned": with no request in flight for a deleted row,
\* it has no tunnel.
DeletedHasNoTunnel ==
  \A f \in Forwards :
    deleted[f] /\ (\A r \in Requests : rFwd[r] # f) => tunnels[f] = NoTunnel
=============================================================================
