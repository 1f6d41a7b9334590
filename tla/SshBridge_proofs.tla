-------------------------- MODULE SshBridge_proofs --------------------------
(***************************************************************************)
(* Proofs about SshBridge for any number of bridges and ids and any        *)
(* capacity of resizeCh, whatever session ids the calls come with: the     *)
(* service neither makes nor checks them.                                  *)
(***************************************************************************)
EXTENDS SshBridge, TLAPS

USE DEF connVars, goVars, vars

-----------------------------------------------------------------------------
(* Which handler is where *)

\* The map is keyed by the ids of its entries, whose handlers have not left.
Entries ==
  \A i \in Ids, b \in Bridges :
    sessions[i] = b => sid[b] = i /\ pc[b] \in {"shell", "serve", "leave"}

\* A registered handler has one of its ids, one that is not yet has none; one
\* that has not dialled holds no SSH connection.
Handlers ==
  \A b \in Bridges :
    /\ pc[b] \in {"shell", "serve", "leave"} => sid[b] # NoId
    /\ pc[b] \in {"idle", "dial", "register"} => sid[b] = NoId
    /\ sid[b] # NoId => sid[b] \in IdChoices[b]
    /\ pc[b] \in {"idle", "dial"} => ssh[b] = "closed"
    /\ pc[b] = "idle" => ws[b] = "closed"

Base == TypeOK /\ Entries /\ Handlers

\* The initial state satisfies it.
LEMMA Start == Init => Base
<1> SUFFICES ASSUME Init PROVE Base
  OBVIOUS
<1> USE BridgeAssumption DEF Init
<1>1. 0 \in 0 .. ResizeCap
  OBVIOUS
<1>2. TypeOK
  BY <1>1 DEF TypeOK, PCs
<1>3. Entries
  BY DEF Entries
<1>4. Handlers
  BY DEF Handlers
<1> QED
  BY <1>2, <1>3, <1>4 DEF Base

\* The end of the process keeps it.
LEMMA BaseEnds == Base /\ ProcessEnds => Base'
<1> SUFFICES ASSUME Base, ProcessEnds PROVE Base'
  OBVIOUS
<1> USE DEF ProcessEnds
<1>1. \A b \in Bridges : pc'[b] \in {"idle", "returned"}
  BY DEF ProcessEnds
<1>2. TypeOK'
  BY DEF Base, TypeOK, PCs
<1>3. Entries'
  BY BridgeAssumption DEF Entries
<1>4. Handlers'
  BY <1>1 DEF Handlers
<1> QED
  BY <1>2, <1>3, <1>4 DEF Base

\* It is inductive: one step for each action.
LEMMA BaseStep == Base /\ [Next]_vars => Base'
<1> SUFFICES ASSUME Base, [Next]_vars PROVE Base'
  OBVIOUS
<1> USE BridgeAssumption
<1> USE DEF Base, TypeOK, PCs, Entries, Handlers
<1>1. ASSUME NEW b \in Bridges, Upgrade(b)
      PROVE  Base'
  BY <1>1 DEF Upgrade, Goto
<1>2. ASSUME NEW b \in Bridges, ConnectFails(b)
      PROVE  Base'
  BY <1>2 DEF ConnectFails, Goto
<1>3. ASSUME NEW b \in Bridges, Connect(b)
      PROVE  Base'
  BY <1>3 DEF Connect, Goto
<1>4. ASSUME NEW b \in Bridges, NEW i \in Ids, Register(b, i)
      PROVE  Base'
  BY <1>4 DEF Register, Goto
<1>5. ASSUME NEW b \in Bridges, Shell(b)
      PROVE  Base'
  BY <1>5 DEF Shell, Goto
<1>6. ASSUME NEW b \in Bridges, ShellFails(b)
      PROVE  Base'
  BY <1>6 DEF ShellFails, Goto
<1>7. ASSUME NEW b \in Bridges, CtxDone(b)
      PROVE  Base'
  BY <1>7 DEF CtxDone, Goto
<1>8. ASSUME NEW b \in Bridges, PingFails(b)
      PROVE  Base'
  BY <1>8 DEF PingFails, Goto, Cancel
<1>9. ASSUME NEW b \in Bridges, Leave(b)
      PROVE  Base'
  BY <1>9 DEF Leave, Goto, Unregister, Cleanup, Entry
<1>10. ASSUME NEW b \in Bridges, CloseWs(b)
      PROVE  Base'
  BY <1>10 DEF CloseWs, Goto
<1>11. ASSUME NEW b \in Bridges, OutputTop(b)
      PROVE  Base'
  BY <1>11 DEF OutputTop
<1>12. ASSUME NEW b \in Bridges, Emit(b)
      PROVE  Base'
  BY <1>12 DEF Emit
<1>13. ASSUME NEW b \in Bridges, OutputFails(b)
      PROVE  Base'
  BY <1>13 DEF OutputFails, Cancel
<1>14. ASSUME NEW b \in Bridges, InputTop(b)
      PROVE  Base'
  BY <1>14 DEF InputTop
<1>15. ASSUME NEW b \in Bridges, Type(b)
      PROVE  Base'
  BY <1>15 DEF Type
<1>16. ASSUME NEW b \in Bridges, InputFails(b)
      PROVE  Base'
  BY <1>16 DEF InputFails, Cancel
<1>17. ASSUME NEW b \in Bridges, SendSize(b)
      PROVE  Base'
  BY <1>17 DEF SendSize
<1>18. ASSUME NEW b \in Bridges, Panic(b)
      PROVE  Base'
  BY <1>18, BaseEnds DEF Panic
<1>19. ASSUME NEW b \in Bridges, Resize(b)
      PROVE  Base'
  BY <1>19 DEF Resize
<1>20. ASSUME NEW b \in Bridges, ResizerStops(b)
      PROVE  Base'
  BY <1>20 DEF ResizerStops
<1>21. ASSUME NEW i \in Ids, TerminateSSHSession(i)
      PROVE  Base'
  BY <1>21 DEF TerminateSSHSession, Unregister, Cleanup, Entry
<1>22. ASSUME CloseAll
      PROVE  Base'
  BY <1>22 DEF CloseAll, Cleanup
<1>23. ASSUME Exit
      PROVE  Base'
  BY <1>23, BaseEnds DEF Exit
<1>24. ASSUME NEW b \in Bridges, Breaks(b)
      PROVE  Base'
  BY <1>24 DEF Breaks
<1>25. CASE UNCHANGED vars
  BY <1>25
<1> QED
  BY <1>1, <1>2, <1>3, <1>4, <1>5, <1>6, <1>7, <1>8, <1>9, <1>10, <1>11, <1>12,
     <1>13, <1>14, <1>15, <1>16, <1>17, <1>18, <1>19, <1>20, <1>21, <1>22,
     <1>23, <1>24, <1>25
  DEF Next, Serve, Pump, Feed

-----------------------------------------------------------------------------
(* Who holds what *)

\* A handler past its Unregister holds no SSH connection, unless its id is
\* shared, and once it has returned no WebSocket.
Released ==
  \A b \in Bridges :
    /\ pc[b] \in {"close", "returned"} => ssh[b] = "closed" \/ SharesId(b)
    /\ pc[b] = "returned" => ws[b] = "closed"

Own == ActiveIsTracked /\ Released

\* Every entry under the id of a handler is a bridge with that id.
LEMMA OwnEntry ==
  ASSUME Base, NEW b \in Bridges, Leave(b)
  PROVE  /\ sid[b] \in Ids
         /\ \A c \in Entry(sid[b]) : c \in Bridges /\ sid[c] = sid[b]
<1>1. sid[b] \in Ids
  BY DEF Leave, Base, TypeOK, Handlers
<1>2. ASSUME NEW c \in Entry(sid[b])
      PROVE  c \in Bridges /\ sid[c] = sid[b]
  <2>1. sessions[sid[b]] = c /\ c \in Bridges
    BY <1>1 DEF Entry, Base, TypeOK
  <2> QED
    BY <1>1, <2>1 DEF Base, Entries
<1> QED
  BY <1>1, <1>2

\* While no id changes, a shared one stays shared.
LEMMA SharingStays ==
  ASSUME UNCHANGED sid, NEW b \in Bridges
  PROVE  SharesId(b)' <=> SharesId(b)
  BY DEF SharesId

\* What cleanup closes stays closed, and a bridge it is given is closed.
LEMMA CleanupCloses ==
  ASSUME Base, NEW S \in SUBSET Bridges, Cleanup(S), NEW c \in Bridges
  PROVE  /\ c \in S \/ Closed(c) => Closed(c)'
         /\ ssh[c] = "closed" => ssh'[c] = "closed"
         /\ ws[c] = "closed" => ws'[c] = "closed"
  BY DEF Base, TypeOK, Cleanup, Closed

\* Unregister leaves a registered bridge in its entry, or closes it.
LEMMA UnregisterKeeps ==
  ASSUME Base, Own, NEW i \in Ids, Unregister(i), UNCHANGED sid, NEW c \in Bridges,
         pc[c] \in {"shell", "serve", "leave"}
  PROVE  (sessions[sid[c]] = c \/ Closed(c) \/ SharesId(c))'
<1>1. sid[c] \in Ids /\ (sessions[sid[c]] = c \/ Closed(c) \/ SharesId(c))
  BY DEF Base, TypeOK, Handlers, Own, ActiveIsTracked
<1>2. sessions' = [sessions EXCEPT ![i] = NoBridge] /\ Cleanup(Entry(i))
  BY DEF Unregister
<1>3. Entry(i) \in SUBSET Bridges
  BY DEF Entry, Base, TypeOK
<1>4. CASE SharesId(c)
  BY <1>4, SharingStays
<1>5. CASE Closed(c) \/ c \in Entry(i)
  BY <1>2, <1>3, <1>5, CleanupCloses
<1>6. CASE sessions[sid[c]] = c /\ c \notin Entry(i)
  <2>1. sid[c] # i
    BY <1>6, BridgeAssumption DEF Entry
  <2> QED
    BY <1>1, <1>2, <1>6, <2>1 DEF Base, TypeOK
<1> QED
  BY <1>1, <1>4, <1>5, <1>6

\* Both facts are inductive together: one step for each action.
LEMMA OwnStep == Base /\ Own /\ [Next]_vars => Own'
<1> SUFFICES ASSUME Base, Own, [Next]_vars PROVE Own'
  OBVIOUS
<1> USE BridgeAssumption
<1>1. ASSUME NEW b \in Bridges, Leave(b)
      PROVE  Own'
  <2>1. sid[b] \in Ids /\ Unregister(sid[b]) /\ UNCHANGED sid
    BY <1>1, OwnEntry DEF Leave
  <2>2. \A c \in Bridges : pc'[c] \in {"shell", "serve", "leave"} =>
          pc[c] \in {"shell", "serve", "leave"}
    BY <1>1 DEF Leave, Goto, Base, TypeOK
  <2>3. ActiveIsTracked'
    BY <2>1, <2>2, UnregisterKeeps DEF ActiveIsTracked
  <2>4. ssh'[b] = "closed" \/ SharesId(b)
    <3>1. b \in Entry(sid[b]) \/ Closed(b) \/ SharesId(b)
      BY <1>1, <2>1 DEF Leave, Own, ActiveIsTracked, Entry
    <3>2. Entry(sid[b]) \in SUBSET Bridges
      BY <2>1 DEF Entry, Base, TypeOK
    <3> QED
      BY <2>1, <3>1, <3>2, CleanupCloses DEF Unregister, Closed
  <2>5. \A c \in Bridges : SharesId(c)' <=> SharesId(c)
    BY <2>1, SharingStays
  <2>6. \A c \in Bridges : ssh[c] = "closed" => ssh'[c] = "closed"
    BY <2>1 DEF Unregister, Cleanup, Base, TypeOK
  <2>7. \A c \in Bridges : ws[c] = "closed" => ws'[c] = "closed"
    BY <2>1 DEF Unregister, Cleanup, Base, TypeOK
  <2>8. ASSUME NEW c \in Bridges
        PROVE  /\ pc'[c] \in {"close", "returned"} => ssh'[c] = "closed" \/ SharesId(c)'
               /\ pc'[c] = "returned" => ws'[c] = "closed"
    <3>1. CASE c = b
      BY <1>1, <2>4, <2>5, <3>1 DEF Leave, Goto, Base, TypeOK
    <3>2. CASE c # b
      <4>1. pc'[c] = pc[c]
        BY <1>1, <3>2 DEF Leave, Goto, Base, TypeOK
      <4> QED
        BY <2>5, <2>6, <2>7, <4>1 DEF Own, Released
    <3> QED
      BY <3>1, <3>2
  <2> QED
    BY <2>3, <2>8 DEF Own, Released
<1>2. ASSUME NEW i \in Ids, TerminateSSHSession(i)
      PROVE  Own'
  <2>1. Unregister(i) /\ UNCHANGED <<pc, sid>>
    BY <1>2 DEF TerminateSSHSession
  <2>2. ActiveIsTracked'
    BY <2>1, UnregisterKeeps DEF ActiveIsTracked
  <2>3. \A c \in Bridges : SharesId(c)' <=> SharesId(c)
    BY <2>1, SharingStays
  <2>4. Released'
    BY <2>1, <2>3 DEF Unregister, Cleanup, Own, Released, Base, TypeOK
  <2> QED
    BY <2>2, <2>4 DEF Own
<1>3. ASSUME NEW b \in Bridges, NEW i \in Ids, Register(b, i)
      PROVE  Own'
  <2>1. /\ pc[b] = "register" /\ sid[b] = NoId
        /\ sessions' = [sessions EXCEPT ![i] = b] /\ sid' = [sid EXCEPT ![b] = i]
        /\ pc' = [pc EXCEPT ![b] = "shell"]
        /\ UNCHANGED <<ws, ssh, cancelled, sealed>>
    BY <1>3 DEF Register, Goto, Base, Handlers
  <2>2. \A c \in Bridges : SharesId(c) => SharesId(c)'
    BY <2>1 DEF SharesId, Base, TypeOK
  <2>3. ASSUME NEW c \in Bridges, pc'[c] \in {"shell", "serve", "leave"}
        PROVE  (sessions[sid[c]] = c \/ Closed(c) \/ SharesId(c))'
    <3>1. CASE c = b
      BY <2>1, <3>1 DEF Base, TypeOK
    <3>2. CASE c # b
      <4>1. /\ pc[c] \in {"shell", "serve", "leave"} /\ sid'[c] = sid[c] /\ sid[c] \in Ids
            /\ sid'[b] = i /\ i # NoId
        BY <2>1, <2>3, <3>2 DEF Base, TypeOK, Handlers
      <4>2. CASE sid[c] = i
        BY <3>2, <4>1, <4>2 DEF SharesId
      <4>3. CASE sid[c] # i
        BY <2>1, <2>2, <4>1, <4>3 DEF Own, ActiveIsTracked, Closed, Base, TypeOK
      <4> QED
        BY <4>2, <4>3
    <3> QED
      BY <3>1, <3>2
  <2>4. Released'
    BY <2>1, <2>2 DEF Own, Released, Base, TypeOK
  <2> QED
    BY <2>3, <2>4 DEF Own, ActiveIsTracked
<1>4. ASSUME ProcessEnds
      PROVE  Own'
  BY <1>4 DEF ProcessEnds, Own, ActiveIsTracked, Released
<1>5. ASSUME CloseAll
      PROVE  Own'
  <2>1. \A c \in Bridges : SharesId(c)' <=> SharesId(c)
    BY <1>5, SharingStays DEF CloseAll
  <2> QED
    BY <1>5, <2>1
    DEF CloseAll, Cleanup, Own, ActiveIsTracked, Released, Closed, Base, TypeOK, Handlers
<1>6. CASE UNCHANGED vars
  BY <1>6 DEF Own, ActiveIsTracked, Released, Closed, SharesId
<1> USE DEF Own, Base, TypeOK, PCs, Handlers, ActiveIsTracked, Released, Closed
<1>7. ASSUME NEW b \in Bridges, Upgrade(b)
      PROVE  Own'
  <2>1. \A c \in Bridges : SharesId(c)' <=> SharesId(c)
    BY <1>7, SharingStays DEF Upgrade
  <2> QED
    BY <1>7, <2>1 DEF Upgrade, Goto
<1>8. ASSUME NEW b \in Bridges, ConnectFails(b)
      PROVE  Own'
  <2>1. \A c \in Bridges : SharesId(c)' <=> SharesId(c)
    BY <1>8, SharingStays DEF ConnectFails
  <2> QED
    BY <1>8, <2>1 DEF ConnectFails, Goto
<1>9. ASSUME NEW b \in Bridges, Connect(b)
      PROVE  Own'
  <2>1. \A c \in Bridges : SharesId(c)' <=> SharesId(c)
    BY <1>9, SharingStays DEF Connect
  <2> QED
    BY <1>9, <2>1 DEF Connect, Goto
<1>10. ASSUME NEW b \in Bridges, Shell(b)
      PROVE  Own'
  <2>1. \A c \in Bridges : SharesId(c)' <=> SharesId(c)
    BY <1>10, SharingStays DEF Shell
  <2> QED
    BY <1>10, <2>1 DEF Shell, Goto
<1>11. ASSUME NEW b \in Bridges, ShellFails(b)
      PROVE  Own'
  <2>1. \A c \in Bridges : SharesId(c)' <=> SharesId(c)
    BY <1>11, SharingStays DEF ShellFails
  <2> QED
    BY <1>11, <2>1 DEF ShellFails, Goto
<1>12. ASSUME NEW b \in Bridges, CtxDone(b)
      PROVE  Own'
  <2>1. \A c \in Bridges : SharesId(c)' <=> SharesId(c)
    BY <1>12, SharingStays DEF CtxDone
  <2> QED
    BY <1>12, <2>1 DEF CtxDone, Goto
<1>13. ASSUME NEW b \in Bridges, PingFails(b)
      PROVE  Own'
  <2>1. \A c \in Bridges : SharesId(c)' <=> SharesId(c)
    BY <1>13, SharingStays DEF PingFails
  <2> QED
    BY <1>13, <2>1 DEF PingFails, Goto, Cancel
<1>14. ASSUME NEW b \in Bridges, CloseWs(b)
      PROVE  Own'
  <2>1. \A c \in Bridges : SharesId(c)' <=> SharesId(c)
    BY <1>14, SharingStays DEF CloseWs
  <2> QED
    BY <1>14, <2>1 DEF CloseWs, Goto
<1>15. ASSUME NEW b \in Bridges, OutputTop(b)
      PROVE  Own'
  <2>1. \A c \in Bridges : SharesId(c)' <=> SharesId(c)
    BY <1>15, SharingStays DEF OutputTop
  <2> QED
    BY <1>15, <2>1 DEF OutputTop
<1>16. ASSUME NEW b \in Bridges, Emit(b)
      PROVE  Own'
  <2>1. \A c \in Bridges : SharesId(c)' <=> SharesId(c)
    BY <1>16, SharingStays DEF Emit
  <2> QED
    BY <1>16, <2>1 DEF Emit
<1>17. ASSUME NEW b \in Bridges, OutputFails(b)
      PROVE  Own'
  <2>1. \A c \in Bridges : SharesId(c)' <=> SharesId(c)
    BY <1>17, SharingStays DEF OutputFails
  <2> QED
    BY <1>17, <2>1 DEF OutputFails, Cancel
<1>18. ASSUME NEW b \in Bridges, InputTop(b)
      PROVE  Own'
  <2>1. \A c \in Bridges : SharesId(c)' <=> SharesId(c)
    BY <1>18, SharingStays DEF InputTop
  <2> QED
    BY <1>18, <2>1 DEF InputTop
<1>19. ASSUME NEW b \in Bridges, Type(b)
      PROVE  Own'
  <2>1. \A c \in Bridges : SharesId(c)' <=> SharesId(c)
    BY <1>19, SharingStays DEF Type
  <2> QED
    BY <1>19, <2>1 DEF Type
<1>20. ASSUME NEW b \in Bridges, InputFails(b)
      PROVE  Own'
  <2>1. \A c \in Bridges : SharesId(c)' <=> SharesId(c)
    BY <1>20, SharingStays DEF InputFails
  <2> QED
    BY <1>20, <2>1 DEF InputFails, Cancel
<1>21. ASSUME NEW b \in Bridges, SendSize(b)
      PROVE  Own'
  <2>1. \A c \in Bridges : SharesId(c)' <=> SharesId(c)
    BY <1>21, SharingStays DEF SendSize
  <2> QED
    BY <1>21, <2>1 DEF SendSize
<1>22. ASSUME NEW b \in Bridges, Resize(b)
      PROVE  Own'
  <2>1. \A c \in Bridges : SharesId(c)' <=> SharesId(c)
    BY <1>22, SharingStays DEF Resize
  <2> QED
    BY <1>22, <2>1 DEF Resize
<1>23. ASSUME NEW b \in Bridges, ResizerStops(b)
      PROVE  Own'
  <2>1. \A c \in Bridges : SharesId(c)' <=> SharesId(c)
    BY <1>23, SharingStays DEF ResizerStops
  <2> QED
    BY <1>23, <2>1 DEF ResizerStops
<1>24. ASSUME NEW b \in Bridges, Breaks(b)
      PROVE  Own'
  <2>1. \A c \in Bridges : SharesId(c)' <=> SharesId(c)
    BY <1>24, SharingStays DEF Breaks
  <2> QED
    BY <1>24, <2>1 DEF Breaks
<1>25. ASSUME NEW b \in Bridges, Panic(b)
      PROVE  Own'
  BY <1>25, <1>4 DEF Panic
<1>26. ASSUME Exit
      PROVE  Own'
  BY <1>26, <1>4 DEF Exit
<1> QED
  BY <1>1, <1>2, <1>3, <1>4, <1>5, <1>6, <1>7, <1>8, <1>9, <1>10, <1>11, <1>12, <1>13, <1>14, <1>15, <1>16, <1>17, <1>18, <1>19, <1>20, <1>21, <1>22, <1>23, <1>24, <1>25, <1>26
  DEF Next, Serve, Pump, Feed

-----------------------------------------------------------------------------
(* Theorems *)

\* The typing invariant holds in every reachable state.
LEMMA BaseInvariance == Spec => []Base
  BY Start, BaseStep, PTL DEF Spec

\* So does the invariant about who holds what.
LEMMA OwnInvariance == Spec => [](Base /\ Own)
<1>1. Init => Own
  BY DEF Init, Own, ActiveIsTracked, Released
<1>2. Base /\ Own /\ [Next]_vars => Own'
  BY OwnStep
<1> QED
  BY <1>1, <1>2, BaseInvariance, PTL DEF Spec

\* Every variable of the bridges keeps its type; resizeCh never holds more
\* than its capacity.
THEOREM TypeCorrect == Spec => []TypeOK
  BY BaseInvariance, PTL DEF Base

\* Terminate and CloseAll find every bridge that is alive and shares its id
\* with no other.
THEOREM Tracked == Spec => []ActiveIsTracked
  BY OwnInvariance, PTL DEF Own

\* A handler that returned has left nothing behind, save an SSH connection
\* when its id is shared.
THEOREM NothingHeld == Spec => []ReturnedHoldsNothing
<1>1. Base /\ Own => ReturnedHoldsNothing
  BY DEF Base, Own, Entries, Released, ReturnedHoldsNothing
<1> QED
  BY <1>1, OwnInvariance, PTL

\* Only the handler's own deferred Unregister takes it from "leave" to "close".
LEMMA LeavesByLeave ==
  ASSUME Base, Next, NEW b \in Bridges, pc[b] = "leave", pc'[b] = "close"
  PROVE  Leave(b)
  BY DEF Base, TypeOK, Next, Serve, Pump, Feed, Goto, ProcessEnds, Upgrade, ConnectFails,
         Connect, Register, Shell, ShellFails, CtxDone, PingFails, Leave, CloseWs, OutputTop,
         Emit, OutputFails, InputTop, Type, InputFails, SendSize, Panic, Resize, ResizerStops,
         TerminateSSHSession, CloseAll, Exit, Breaks

\* The end of one bridge leaves alone the connections of every bridge with
\* another id, whatever ids the calls share.
THEOREM Isolation == Spec => OneEndsNoOther
<1>1. Base /\ [Next]_vars =>
        [\A b, c \in Bridges :
           pc[b] = "leave" /\ pc'[b] = "close" /\ c # b /\ sid[c] # sid[b]
             => ws'[c] = ws[c] /\ ssh'[c] = ssh[c]]_vars
  <2> SUFFICES ASSUME Base, Next, NEW b \in Bridges, NEW c \in Bridges,
                      pc[b] = "leave", pc'[b] = "close", c # b, sid[c] # sid[b]
               PROVE  ws'[c] = ws[c] /\ ssh'[c] = ssh[c]
    OBVIOUS
  <2>1. Leave(b)
    BY LeavesByLeave
  <2>2. c \notin Entry(sid[b])
    BY <2>1, OwnEntry
  <2> QED
    BY <2>1, <2>2 DEF Leave, Unregister, Cleanup
<1> QED
  BY <1>1, BaseInvariance, PTL DEF Spec, OneEndsNoOther

\* No two calls can come with the same session id.
DistinctIds ==
  \A b, c \in Bridges : b # c => IdChoices[b] \cap IdChoices[c] = {}

\* Then no id is ever shared, and the exceptions above are void: every bridge
\* that is alive is found, and a handler that returned has left nothing.
THEOREM NobodyShares ==
  DistinctIds => (Spec => [](\A b \in Bridges : ~SharesId(b)))
<1> SUFFICES ASSUME DistinctIds PROVE Spec => [](\A b \in Bridges : ~SharesId(b))
  OBVIOUS
<1>1. Base => \A b \in Bridges : ~SharesId(b)
  BY DEF Base, Handlers, SharesId, DistinctIds
<1> QED
  BY <1>1, BaseInvariance, PTL

-----------------------------------------------------------------------------
(* What is over stays over *)

\* The channel and the context of a bridge are closed and cancelled for good,
\* a handler that returned never runs again, and a connection once closed is
\* opened only by the handler that has not opened it yet.
NothingReopens ==
  [][\A b \in Bridges :
       /\ cancelled[b] => cancelled'[b]
       /\ sealed[b] => sealed'[b]
       /\ pc[b] = "returned" => pc'[b] = "returned" /\ ws'[b] = ws[b]
       /\ ws[b] = "closed" /\ pc[b] # "idle" => ws'[b] = "closed"
       /\ ssh[b] = "closed" /\ pc[b] \notin {"idle", "dial"} => ssh'[b] = "closed"]_vars

THEOREM OverIsOver == Spec => NothingReopens
<1>1. Base /\ Own /\ [Next]_vars =>
        [\A b \in Bridges :
           /\ cancelled[b] => cancelled'[b]
           /\ sealed[b] => sealed'[b]
           /\ pc[b] = "returned" => pc'[b] = "returned" /\ ws'[b] = ws[b]
           /\ ws[b] = "closed" /\ pc[b] # "idle" => ws'[b] = "closed"
           /\ ssh[b] = "closed" /\ pc[b] \notin {"idle", "dial"} => ssh'[b] = "closed"]_vars
  <2> SUFFICES ASSUME Base, Own, Next, NEW b \in Bridges
               PROVE  /\ cancelled[b] => cancelled'[b]
                      /\ sealed[b] => sealed'[b]
                      /\ pc[b] = "returned" => pc'[b] = "returned" /\ ws'[b] = ws[b]
                      /\ ws[b] = "closed" /\ pc[b] # "idle" => ws'[b] = "closed"
                      /\ ssh[b] = "closed" /\ pc[b] \notin {"idle", "dial"} => ssh'[b] = "closed"
    OBVIOUS
  <2>1. pc[b] = "returned" => ws[b] = "closed"
    BY DEF Own, Released
  <2> USE <2>1 DEF Base, TypeOK, Goto, Cancel, Cleanup, Unregister, ProcessEnds
  <2> QED
    BY DEF Next, Serve, Pump, Feed, Upgrade, ConnectFails, Connect, Register, Shell, ShellFails,
           CtxDone, PingFails, Leave, CloseWs, OutputTop, Emit, OutputFails, InputTop, Type,
           InputFails, SendSize, Panic, Resize, ResizerStops, TerminateSSHSession, CloseAll,
           Exit, Breaks
<1> QED
  BY <1>1, OwnInvariance, PTL DEF Spec, NothingReopens
=============================================================================
