----------------------------- MODULE SshBridge -----------------------------
(***************************************************************************)
(* services/ssh-proxy-service: the WebSocket-to-SSH bridges and the        *)
(* SessionManager they are registered in.                                  *)
(*                                                                         *)
(* A bridge is one call of HandleWebSocket: its handler, and the three     *)
(* goroutines it starts once the shell runs.  They share a context, two    *)
(* connections and the channel of pending window sizes.  The atomic steps  *)
(* are one critical section of SessionManager.mu, or one operation on a    *)
(* connection or on the channel.                                           *)
(***************************************************************************)
EXTENDS Naturals

CONSTANTS
  Bridges,     \* calls of HandleWebSocket
  Ids,         \* session ids
  IdChoices,   \* the session_id a call may come with
  ResizeCap,   \* capacity of resizeCh (8 in the code)
  NoBridge, NoId

ASSUME BridgeAssumption ==
  /\ IdChoices \in [Bridges -> SUBSET Ids]
  /\ ResizeCap \in Nat
  /\ NoBridge \notin Bridges
  /\ NoId \notin Ids

VARIABLES
  \* SessionManager.sessions
  sessions,
  \* the handlers: program counter and sessionID
  pc, sid,
  \* what an activeSession holds: the two connections, whether ctx is
  \* cancelled, the sizes waiting in resizeCh and whether it is closed
  ws, ssh, cancelled, sizes, sealed,
  \* SSHToWSProxy, WSToSSHProxy and handleResize
  output, input, resizer,
  \* main is past CloseAll
  stopping

connVars == <<ws, ssh, cancelled, sizes, sealed>>
goVars == <<output, input, resizer>>
vars == <<sessions, pc, sid, connVars, goVars, stopping>>

PCs == {"idle", "dial", "register", "shell", "serve", "leave", "close", "returned"}

TypeOK ==
  /\ sessions \in [Ids -> Bridges \cup {NoBridge}]
  /\ pc \in [Bridges -> PCs]
  /\ sid \in [Bridges -> Ids \cup {NoId}]
  /\ ws \in [Bridges -> {"open", "broken", "closed"}]
  /\ ssh \in [Bridges -> {"up", "broken", "closed"}]
  /\ cancelled \in [Bridges -> BOOLEAN]
  /\ sizes \in [Bridges -> 0 .. ResizeCap]
  /\ sealed \in [Bridges -> BOOLEAN]
  /\ output \in [Bridges -> {"off", "top", "read", "write"}]
  /\ input \in [Bridges -> {"off", "top", "read", "send", "write"}]
  /\ resizer \in [Bridges -> {"off", "on"}]
  /\ stopping \in BOOLEAN

Init ==
  /\ sessions = [i \in Ids |-> NoBridge]
  /\ pc = [b \in Bridges |-> "idle"]
  /\ sid = [b \in Bridges |-> NoId]
  /\ ws = [b \in Bridges |-> "closed"]
  /\ ssh = [b \in Bridges |-> "closed"]
  /\ cancelled = [b \in Bridges |-> FALSE]
  /\ sizes = [b \in Bridges |-> 0]
  /\ sealed = [b \in Bridges |-> FALSE]
  /\ output = [b \in Bridges |-> "off"]
  /\ input = [b \in Bridges |-> "off"]
  /\ resizer = [b \in Bridges |-> "off"]
  /\ stopping = FALSE

-----------------------------------------------------------------------------
(* Helpers *)

Goto(b, label) == pc' = [pc EXCEPT ![b] = label]

Cancel(b) == cancelled' = [cancelled EXCEPT ![b] = TRUE]

\* Slip: the SSH connection is left to the goroutines to close.
CleanupButSsh(S) ==
  /\ cancelled' = [b \in Bridges |-> cancelled[b] \/ b \in S]
  /\ ws' = [b \in Bridges |-> IF b \in S THEN "closed" ELSE ws[b]]
  /\ sealed' = [b \in Bridges |-> sealed[b] \/ b \in S]
  /\ UNCHANGED <<ssh, sizes>>

\* SessionManager.cleanup of the bridges in S.
Cleanup(S) ==
  /\ cancelled' = [b \in Bridges |-> cancelled[b] \/ b \in S]
  /\ ws' = [b \in Bridges |-> IF b \in S THEN "closed" ELSE ws[b]]
  /\ ssh' = [b \in Bridges |-> IF b \in S THEN "closed" ELSE ssh[b]]
  /\ sealed' = [b \in Bridges |-> sealed[b] \/ b \in S]
  /\ UNCHANGED sizes

\* The process is gone and with it its memory and its sockets.
ProcessEnds ==
  /\ sessions' = [i \in Ids |-> NoBridge]
  /\ pc' = [b \in Bridges |-> IF pc[b] = "idle" THEN "idle" ELSE "returned"]
  /\ sid' = [b \in Bridges |-> NoId]
  /\ ws' = [b \in Bridges |-> "closed"]
  /\ ssh' = [b \in Bridges |-> "closed"]
  /\ output' = [b \in Bridges |-> "off"]
  /\ input' = [b \in Bridges |-> "off"]
  /\ resizer' = [b \in Bridges |-> "off"]
  /\ stopping' = FALSE
  /\ UNCHANGED <<cancelled, sizes, sealed>>

-----------------------------------------------------------------------------
(* HandleWebSocket *)

Upgrade(b) ==
  /\ pc[b] = "idle"
  /\ Goto(b, "dial")
  /\ ws' = [ws EXCEPT ![b] = "open"]
  /\ UNCHANGED <<sessions, sid, ssh, cancelled, sizes, sealed, goVars, stopping>>

\* connectFunc has closed what it opened; the handler returns.
ConnectFails(b) ==
  /\ pc[b] = "dial"
  /\ Goto(b, "close")
  /\ UNCHANGED <<sessions, sid, connVars, goVars, stopping>>

Connect(b) ==
  /\ pc[b] = "dial"
  /\ Goto(b, "register")
  /\ ssh' = [ssh EXCEPT ![b] = "up"]
  /\ UNCHANGED <<sessions, sid, ws, cancelled, sizes, sealed, goVars, stopping>>

\* SessionManager.Register overwrites an entry that is there.
Register(b, i) ==
  /\ pc[b] = "register"
  /\ i \in IdChoices[b]
  /\ sessions' = [sessions EXCEPT ![i] = b]
  /\ sid' = [sid EXCEPT ![b] = i]
  /\ Goto(b, "shell")
  /\ UNCHANGED <<connVars, goVars, stopping>>

\* Slip: Unregister is deferred only once the shell runs.
ShellFailsEarly(b) ==
  /\ pc[b] = "shell"
  /\ Goto(b, "close")
  /\ UNCHANGED <<sessions, sid, connVars, goVars, stopping>>

\* RequestPty or Shell is refused, or the session was torn down meanwhile.
ShellFails(b) ==
  /\ pc[b] = "shell"
  /\ Goto(b, "leave")
  /\ UNCHANGED <<sessions, sid, connVars, goVars, stopping>>

Shell(b) ==
  /\ pc[b] = "shell"
  /\ ssh[b] = "up"
  /\ Goto(b, "serve")
  /\ output' = [output EXCEPT ![b] = "top"]
  /\ input' = [input EXCEPT ![b] = "top"]
  /\ resizer' = [resizer EXCEPT ![b] = "on"]
  /\ UNCHANGED <<sessions, sid, connVars, stopping>>

\* The keepalive ping cannot be written within its five seconds.
PingFails(b) ==
  /\ pc[b] = "serve"
  /\ Goto(b, "leave")
  /\ Cancel(b)
  /\ UNCHANGED <<sessions, sid, ws, ssh, sizes, sealed, goVars, stopping>>

CtxDone(b) ==
  /\ pc[b] = "serve"
  /\ cancelled[b]
  /\ Goto(b, "leave")
  /\ UNCHANGED <<sessions, sid, connVars, goVars, stopping>>

\* The bridge registered under id i, if there is one.
Entry(i) == {sessions[i]} \ {NoBridge}

\* Slip: the entry is deleted, the cleanup left to its handler.
DetachOnly(i) ==
  /\ sessions' = [sessions EXCEPT ![i] = NoBridge]
  /\ UNCHANGED connVars

\* Slip: every entry is taken for the one that ends.
UnregisterAll(i) ==
  /\ Cleanup({b \in Bridges : \E j \in Ids : sessions[j] = b})
  /\ sessions' = [j \in Ids |-> NoBridge]

\* SessionManager.Unregister.
Unregister(i) ==
  /\ Cleanup(Entry(i))
  /\ sessions' = [sessions EXCEPT ![i] = NoBridge]

\* The deferred Unregister, of whoever is registered under its id now ...
Leave(b) ==
  /\ pc[b] = "leave"
  /\ Unregister(sid[b])
  /\ Goto(b, "close")
  /\ UNCHANGED <<sid, goVars, stopping>>

\* ... and the deferred wsConn.Close.
CloseWs(b) ==
  /\ pc[b] = "close"
  /\ Goto(b, "returned")
  /\ ws' = [ws EXCEPT ![b] = "closed"]
  /\ UNCHANGED <<sessions, sid, ssh, cancelled, sizes, sealed, goVars, stopping>>

-----------------------------------------------------------------------------
(* SSHToWSProxy *)

OutputTop(b) ==
  /\ output[b] = "top"
  /\ output' = [output EXCEPT ![b] = IF cancelled[b] THEN "off" ELSE "read"]
  /\ UNCHANGED <<sessions, pc, sid, connVars, input, resizer, stopping>>

\* The shell prints something, and the client takes it.
Emit(b) ==
  /\ \/ output[b] = "read" /\ ssh[b] = "up" /\ output' = [output EXCEPT ![b] = "write"]
     \/ output[b] = "write" /\ ws[b] = "open" /\ output' = [output EXCEPT ![b] = "top"]
  /\ UNCHANGED <<sessions, pc, sid, connVars, input, resizer, stopping>>

\* The read or the write reports an error.
OutputFails(b) ==
  /\ \/ output[b] = "read" /\ ssh[b] # "up"
     \/ output[b] = "write" /\ ws[b] # "open"
  /\ output' = [output EXCEPT ![b] = "off"]
  /\ Cancel(b)
  /\ UNCHANGED <<sessions, pc, sid, ws, ssh, sizes, sealed, input, resizer, stopping>>

-----------------------------------------------------------------------------
(* WSToSSHProxy *)

InputTop(b) ==
  /\ input[b] = "top"
  /\ input' = [input EXCEPT ![b] = IF cancelled[b] THEN "off" ELSE "read"]
  /\ UNCHANGED <<sessions, pc, sid, connVars, output, resizer, stopping>>

\* The client sends a window size, which goes to resizeCh, or keystrokes, which
\* the shell takes.
\* (A message still buffered when the connection closes was read before.)
Type(b) ==
  /\ \/ /\ input[b] = "read" /\ ws[b] = "open"
        /\ \E next \in {"send", "write"} : input' = [input EXCEPT ![b] = next]
     \/ input[b] = "write" /\ ssh[b] = "up" /\ input' = [input EXCEPT ![b] = "top"]
  /\ UNCHANGED <<sessions, pc, sid, connVars, output, resizer, stopping>>

InputFails(b) ==
  /\ \/ input[b] = "read" /\ ws[b] # "open"
     \/ input[b] = "write" /\ ssh[b] # "up"
  /\ input' = [input EXCEPT ![b] = "off"]
  /\ Cancel(b)
  /\ UNCHANGED <<sessions, pc, sid, ws, ssh, sizes, sealed, output, resizer, stopping>>

\* Slip: the buffer is taken to be unbounded.
SendSizeUnbounded(b) ==
  /\ input[b] = "send"
  /\ ~sealed[b]
  /\ sizes' = [sizes EXCEPT ![b] = @ + 1]
  /\ input' = [input EXCEPT ![b] = "top"]
  /\ UNCHANGED <<sessions, pc, sid, ws, ssh, cancelled, sealed, output, resizer, stopping>>

\* The select with a default: a size that finds resizeCh full is dropped.
SendSize(b) ==
  /\ input[b] = "send"
  /\ ~sealed[b]
  /\ sizes' = [sizes EXCEPT ![b] = IF @ < ResizeCap THEN @ + 1 ELSE @]
  /\ input' = [input EXCEPT ![b] = "top"]
  /\ UNCHANGED <<sessions, pc, sid, ws, ssh, cancelled, sealed, output, resizer, stopping>>

\* A send on a closed channel panics, whatever the select: nothing recovers
\* it in this goroutine, and the process dies.
Panic(b) ==
  /\ input[b] = "send"
  /\ sealed[b]
  /\ ProcessEnds

-----------------------------------------------------------------------------
(* handleResize *)

Resize(b) ==
  /\ resizer[b] = "on"
  /\ sizes[b] > 0
  /\ sizes' = [sizes EXCEPT ![b] = @ - 1]
  /\ UNCHANGED <<sessions, pc, sid, ws, ssh, cancelled, sealed, goVars, stopping>>

ResizerStops(b) ==
  /\ resizer[b] = "on"
  /\ cancelled[b] \/ (sealed[b] /\ sizes[b] = 0)
  /\ resizer' = [resizer EXCEPT ![b] = "off"]
  /\ UNCHANGED <<sessions, pc, sid, connVars, output, input, stopping>>

-----------------------------------------------------------------------------
(* Everyone else *)

\* Handler.TerminateSSHSession, once the row of the session is updated.  (No
\* code of the service inserts or reads that row for a bridge.)
TerminateSSHSession(i) ==
  /\ Unregister(i)
  /\ UNCHANGED <<pc, sid, goVars, stopping>>

\* SessionManager.CloseAll, called by main on a signal ...
CloseAll ==
  /\ ~stopping
  /\ stopping' = TRUE
  /\ Cleanup({b \in Bridges : \E i \in Ids : sessions[i] = b})
  /\ sessions' = [i \in Ids |-> NoBridge]
  /\ UNCHANGED <<pc, sid, goVars>>

\* ... and the end of main, which waits for no bridge: a hijacked connection
\* is not one that Shutdown waits for.
Exit ==
  /\ stopping
  /\ ProcessEnds

\* The network, the client or the SSH server; a shell that exits ends the SSH
\* session, which reads as a broken one.
Breaks(b) ==
  /\ \/ ws[b] = "open" /\ ws' = [ws EXCEPT ![b] = "broken"] /\ UNCHANGED ssh
     \/ ssh[b] = "up" /\ ssh' = [ssh EXCEPT ![b] = "broken"] /\ UNCHANGED ws
  /\ UNCHANGED <<sessions, pc, sid, cancelled, sizes, sealed, goVars, stopping>>

-----------------------------------------------------------------------------
\* What the handler and the goroutines do without waiting for anybody.
Serve(b) ==
  \/ Shell(b) \/ ShellFails(b) \/ CtxDone(b) \/ Leave(b) \/ CloseWs(b)
  \/ \E i \in Ids : Register(b, i)

Pump(b) == OutputTop(b) \/ OutputFails(b)

Feed(b) == InputTop(b) \/ InputFails(b) \/ SendSize(b) \/ Panic(b)

Next ==
  \/ \E b \in Bridges : Upgrade(b) \/ Connect(b) \/ ConnectFails(b)
  \/ \E b \in Bridges : Serve(b) \/ Pump(b) \/ Feed(b) \/ PingFails(b)
  \/ \E b \in Bridges : Emit(b) \/ Type(b) \/ Breaks(b)
  \/ \E b \in Bridges : Resize(b) \/ ResizerStops(b)
  \/ \E i \in Ids : TerminateSSHSession(i)
  \/ CloseAll
  \/ Exit

Spec == Init /\ [][Next]_vars

\* The goroutines of a bridge are scheduled.  The ping comes every 30 seconds
\* and fails on a broken connection, and on one that another write has not let
\* go of.  Clients, shells, SSH servers and operators owe nothing.
FairTo(b) ==
  /\ WF_vars(Serve(b)) /\ WF_vars(Pump(b)) /\ WF_vars(Feed(b))
  /\ WF_vars(ResizerStops(b))
  /\ WF_vars(PingFails(b) /\ (ws[b] = "broken" \/ output[b] = "write"))

-----------------------------------------------------------------------------
(* Properties *)

Closed(b) == cancelled[b] /\ sealed[b] /\ ws[b] = "closed" /\ ssh[b] = "closed"

\* The session id comes with the call and nobody checks it: another call has
\* been registered under the id of b since the process started.
SharesId(b) ==
  \E c \in Bridges \ {b} : sid[c] # NoId /\ sid[c] = sid[b]

\* "SessionManager tracks active SSH sessions": a bridge whose handler is past
\* Register is the entry of its id, where Terminate and CloseAll find it, or
\* everything it holds is closed already, or another call came with its id.
ActiveIsTracked ==
  \A b \in Bridges :
    pc[b] \in {"shell", "serve", "leave"} =>
      sessions[sid[b]] = b \/ Closed(b) \/ SharesId(b)

\* A handler that returned, on whatever path, has left no WebSocket open and no
\* entry in the map, its own or another's, and no SSH connection unless another
\* call came with its id.
ReturnedHoldsNothing ==
  \A b \in Bridges :
    pc[b] = "returned" =>
      /\ ws[b] = "closed"
      /\ \A i \in Ids : sessions[i] # b
      /\ ssh[b] = "closed" \/ SharesId(b)

\* While the process lives, a handler that tears its bridge down touches no
\* connection of a bridge with another id, whoever else has its own.
OneEndsNoOther ==
  [][\A b, c \in Bridges :
       pc[b] = "leave" /\ pc'[b] = "close" /\ c # b /\ sid[c] # sid[b]
         => ws'[c] = ws[c] /\ ssh'[c] = ssh[c]]_vars

\* A bridge that loses a connection or is cancelled comes to its end: the
\* handler returns and all three goroutines stop, none of them left blocked
\* in a read or a write, unless another call came with its session id.  Then
\* the handler and the resizer still end, but the first of the two to leave
\* takes the entry of the other with it, and nobody closes the SSH connection
\* that was overwritten: its proxies may wait on it for ever.
Ends(b) ==
  pc[b] = "serve" /\ (cancelled[b] \/ ws[b] # "open" \/ ssh[b] # "up") ~>
    /\ pc[b] = "returned" /\ resizer[b] = "off"
    /\ (output[b] = "off" /\ input[b] = "off") \/ SharesId(b)

\* "the service degrades gracefully under pressure - no goroutine leaks, no
\* deadlocks, no panics": no goroutine is about to send on a closed channel.
NoSendOnClosed ==
  \A b \in Bridges : ~(input[b] = "send" /\ sealed[b])
=============================================================================
