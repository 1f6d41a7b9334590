------------------------ MODULE OutsideRemote_proofs ------------------------
(***************************************************************************)
(* Proofs about the services of Outside that wait for somebody else: a     *)
(* container runtime, a payment processor, message transports, a language  *)
(* model and an issue tracker.  Of each service an inductive invariant is  *)
(* shown to hold at the start, to be kept by every step and to imply what  *)
(* the service promises, for any sets of rows, requests and accounts.      *)
(***************************************************************************)
EXTENDS Outside, TLAPS

-----------------------------------------------------------------------------
(* container-bridge-service *)

\* The request makes a row with this id.
Creating(k, id) == bridgeCall[k].op = "create" /\ bridgeCall[k].row.id = id

\* A create that has seen the container run, or has just started it.
Making(k, c) ==
  /\ bridgeCall[k].op = "create" /\ bridgeCall[k].at \in {"started", "ran", "insert"}
  /\ bridgeCall[k].row.container = c

\* The request deletes the row with this id, which had this container.
Deleting(k, id, c) ==
  bridgeCall[k].op = "delete" /\ bridgeCall[k].row.id = id /\ bridgeCall[k].row.container = c

\* A delete that is done with the container of the row and will drop the row.
Dooming(k, id) ==
  /\ bridgeCall[k].op = "delete" /\ bridgeCall[k].row.id = id
  /\ \/ bridgeCall[k].at = "remove"
     \/ bridgeCall[k].at = "drop" /\ bridgeCall[k].tried

\* A container that need not be known: it was accounted for, or abandoned.
Excused(c) == c \in accounted \/ c \in abandoned

\* A row counts only as long as no delete is about to drop it, and a request
\* only when it is a create past its look at the runtime.
Anchored(c) ==
  \/ Excused(c)
  \/ \E r \in bridges : r.container = c /\ \A k \in Calls : ~Dooming(k, r.id)
  \/ \E k \in Calls : Making(k, c)

\* The id of a row that is being made is nobody else's.
NewIdsAreNew ==
  \A k \in Calls, id \in RowIds : Creating(k, id) =>
    /\ \A r \in bridges : r.id # id
    /\ \A j \in Calls : Creating(j, id) => j = k
    /\ \A j \in Calls, c \in Containers : ~Deleting(j, id, c)

\* A delete has the container of the row it deletes.
IdsKeepContainers ==
  /\ \A a, b \in bridges : a.id = b.id => a.container = b.container
  /\ \A k \in Calls, r \in bridges, c \in Containers :
       Deleting(k, r.id, c) => r.container = c

\* What the service has begun and is running is known to a row, a request, an
\* answer or the log.
RunningAreAnchored ==
  \A c \in begotten : container[c] = "running" => Anchored(c)

\* The inductive invariant.
BridgeInv ==
  Bridge!TypeOK /\ NewIdsAreNew /\ IdsKeepContainers /\ RunningAreAnchored

\* The strengthening implies what it is for.
LEMMA BridgeImplies == BridgeInv => Bridge!OrphansAreAccounted
<1> SUFFICES ASSUME BridgeInv, NEW c \in begotten, container[c] = "running"
             PROVE  Bridge!Known(c) \/ c \in abandoned
  BY DEF Bridge!OrphansAreAccounted
<1>1. Anchored(c)
  BY DEF BridgeInv, RunningAreAnchored
<1> QED
  BY <1>1 DEF Anchored, Excused, Making, Bridge!Known

\* It holds of an empty table.
LEMMA BridgeStart == Bridge!Init => BridgeInv
  BY DEF Bridge!Init, BridgeInv, Bridge!TypeOK, Bridge!Call, Bridge!States, NewIdsAreNew,
         IdsKeepContainers, RunningAreAnchored, Creating, Deleting, Bridge!Idle

\* What the op of a call says of its fields, and which calls there are.
LEMMA BridgeCalls ==
  /\ Bridge!Idle \in Bridge!Call
  /\ \A at \in {"look", "start", "started", "run", "ran", "insert"}, row \in Bridge!Bridge :
       [op |-> "create", at |-> at, row |-> row] \in Bridge!Call
  /\ \A rest \in SUBSET Bridge!Bridge :
       /\ [op |-> "read", at |-> "look", rest |-> rest] \in Bridge!Call
       /\ \A row \in Bridge!Bridge :
            [op |-> "read", at |-> "write", row |-> row, rest |-> rest] \in Bridge!Call
  /\ \A at \in {"look", "write"}, row \in Bridge!Bridge :
       [op |-> "update", at |-> at, row |-> row] \in Bridge!Call
  /\ \A at \in {"stop", "remove"}, row \in Bridge!Bridge :
       [op |-> "delete", at |-> at, row |-> row] \in Bridge!Call
  /\ \A tried \in BOOLEAN, row \in Bridge!Bridge :
       [op |-> "delete", at |-> "drop", row |-> row, tried |-> tried] \in Bridge!Call
  /\ \A c \in Bridge!Call :
       /\ c.op = "create" =>
            c \in [op : {"create"}, row : Bridge!Bridge,
                   at : {"look", "start", "started", "run", "ran", "insert"}]
       /\ c.op = "delete" => c.row \in Bridge!Bridge
       /\ c.op = "delete" /\ c.at \in {"stop", "remove"} =>
            c \in [op : {"delete"}, at : {"stop", "remove"}, row : Bridge!Bridge]
       /\ c.op = "delete" /\ c.at = "drop" => c.tried \in BOOLEAN
       /\ c.op \in {"create", "delete"} => "row" \in DOMAIN c
       /\ c.op = "update" =>
            c \in [op : {"update"}, at : {"look", "write"}, row : Bridge!Bridge]
       /\ c.op = "read" => c.rest \in SUBSET Bridge!Bridge
       /\ c.op = "read" /\ c.at = "write" => c.row \in Bridge!Bridge
  BY DEF Bridge!Call, Bridge!Idle

\* What leaves the ids and containers of the rows, makes no new id, and lets
\* no anchor go before the container is stopped or accounted for.
LEMMA BridgeKeeps ==
  ASSUME BridgeInv, Bridge!TypeOK',
         \A r \in bridges' : \E q \in bridges : q.id = r.id /\ q.container = r.container,
         \A q \in bridges : \E r \in bridges' : q.id = r.id /\ q.container = r.container,
         \A k \in Calls, id \in RowIds : Creating(k, id)' => Creating(k, id),
         \A k \in Calls, id \in RowIds, c \in Containers :
           Deleting(k, id, c)' =>
             Deleting(k, id, c) \/ \E r \in bridges : r.id = id /\ r.container = c,
         \A k \in Calls, id \in RowIds :
           Dooming(k, id)' =>
             \/ Dooming(k, id)
             \/ \A r \in bridges :
                  r.id = id => Excused(r.container)' \/ container'[r.container] # "running",
         \A k \in Calls, c \in Containers :
           Making(k, c) => Excused(c)' \/ \E j \in Calls : Making(j, c)',
         \A c \in Containers : container'[c] = "running" =>
           \/ c \in begotten' => c \in begotten /\ container[c] = "running"
           \/ \E j \in Calls : Making(j, c)',
         \A c \in Containers : Excused(c) =>
           Excused(c)' \/ (\E j \in Calls : Making(j, c)') \/ container'[c] # "running"
  PROVE  BridgeInv'
<1>1. \A r \in bridges : r.id \in RowIds /\ r.container \in Containers
  BY DEF BridgeInv, Bridge!TypeOK, Bridge!Bridge
<1>2. IdsKeepContainers'
  BY <1>1 DEF BridgeInv, IdsKeepContainers
<1>3. NewIdsAreNew'
  <2> SUFFICES ASSUME NEW k \in Calls, NEW id \in RowIds, Creating(k, id)'
               PROVE  /\ \A r \in bridges' : r.id # id
                      /\ \A j \in Calls : Creating(j, id)' => j = k
                      /\ \A j \in Calls, c \in Containers : ~Deleting(j, id, c)'
    BY DEF NewIdsAreNew
  <2> QED
    BY DEF BridgeInv, NewIdsAreNew
<1>4. RunningAreAnchored'
  <2> SUFFICES ASSUME NEW c \in begotten', container'[c] = "running", ~Excused(c)',
                      ~\E j \in Calls : Making(j, c)'
               PROVE  \E r \in bridges' : r.container = c /\ \A k \in Calls : ~Dooming(k, r.id)'
    BY DEF RunningAreAnchored, Anchored
  <2>1. c \in Containers /\ c \in begotten /\ container[c] = "running" /\ ~Excused(c)
    BY DEF Bridge!TypeOK
  <2>2. PICK q \in bridges : q.container = c /\ \A k \in Calls : ~Dooming(k, q.id)
    BY <2>1 DEF BridgeInv, RunningAreAnchored, Anchored
  <2>3. PICK r \in bridges' : q.id = r.id /\ q.container = r.container
    OBVIOUS
  <2> QED
    BY <1>1, <2>2, <2>3
<1> QED
  BY <1>2, <1>3, <1>4 DEF BridgeInv

\* It is inductive: one step for each action, one more for each of its turns.
LEMMA BridgeStep == BridgeInv /\ [Bridge!Next]_bridgeVars => BridgeInv'
<1> SUFFICES ASSUME BridgeInv, [Bridge!Next]_bridgeVars PROVE BridgeInv'
  OBVIOUS
<1> USE DEF Bridge!Answer, Bridge!At, Bridge!Account, Bridge!observed, Excused
<1>a. /\ Bridge!TypeOK /\ bridgeCall \in [Calls -> Bridge!Call]
      /\ \A k \in Calls : bridgeCall[k] \in Bridge!Call
      /\ Bridge!Idle.op = "none"
  BY DEF BridgeInv, Bridge!TypeOK, Bridge!Idle
<1>b. \A c : /\ Bridge!RuntimeStatus(c) \in Bridge!Statuses
             /\ Bridge!StatusOrInactive(c) \subseteq Bridge!Statuses
  BY DEF Bridge!StatusOrInactive, Bridge!RuntimeStatus, Bridge!StatusFromState, Bridge!Statuses
<1>1. ASSUME NEW k \in Calls, NEW c \in Containers, NEW n \in BridgeNames,
             Bridge!CreateBridge(k, c, n)
      PROVE  BridgeInv'
  <2>1. PICK id \in RowIds \ Bridge!IdsInUse :
          bridgeCall' = [bridgeCall EXCEPT ![k] =
            [op |-> "create", at |-> "look",
             row |-> [id |-> id, container |-> c, name |-> n, status |-> "inactive"]]]
    BY <1>1 DEF Bridge!CreateBridge
  <2>2. Bridge!TypeOK'
    <3>1. [id |-> id, container |-> c, name |-> n, status |-> "inactive"] \in Bridge!Bridge
      BY DEF Bridge!Bridge, Bridge!Statuses
    <3> QED
      BY <1>1, <1>a, <2>1, <3>1, BridgeCalls DEF Bridge!CreateBridge, Bridge!TypeOK
  <2>3. \A r \in bridges : r.id # id
    BY <2>1 DEF Bridge!IdsInUse
  <2>4. \A j \in Calls : bridgeCall[j].op \in {"create", "delete"} => bridgeCall[j].row.id # id
    <3> SUFFICES ASSUME NEW j \in Calls, bridgeCall[j].op \in {"create", "delete"}
                 PROVE  bridgeCall[j].row \in Bridge!Held(j)
      BY <2>1 DEF Bridge!IdsInUse
    <3>1. "row" \in DOMAIN bridgeCall[j]
      BY <1>a, BridgeCalls
    <3> QED
      BY <3>1 DEF Bridge!Held
  <2>5. /\ \A j \in Calls : \A i, d : /\ Making(j, d)' <=> Making(j, d)
                                      /\ Deleting(j, i, d)' <=> Deleting(j, i, d)
                                      /\ Dooming(j, i)' <=> Dooming(j, i)
        /\ \A j \in Calls : \A i : Creating(j, i)' <=> IF j = k THEN i = id ELSE Creating(j, i)
    BY <1>1, <1>a, <2>1
    DEF Bridge!CreateBridge, Bridge!Idle, Making, Deleting, Dooming, Creating
  <2>6. UNCHANGED <<bridges, container, begotten, accounted, abandoned>>
    BY <1>1 DEF Bridge!CreateBridge
  <2>7. NewIdsAreNew'
    <3> SUFFICES ASSUME NEW j \in Calls, NEW i \in RowIds, Creating(j, i)'
                 PROVE  /\ \A r \in bridges : r.id # i
                        /\ \A l \in Calls : Creating(l, i)' => l = j
                        /\ \A l \in Calls, d \in Containers : ~Deleting(l, i, d)'
      BY <2>6 DEF NewIdsAreNew
    <3>1. CASE i = id
      <4>1. \A l \in Calls : Creating(l, i)' => l = k
        BY <2>4, <2>5, <3>1 DEF Creating
      <4>2. \A l \in Calls, d \in Containers : ~Deleting(l, i, d)'
        BY <2>4, <2>5, <3>1 DEF Deleting
      <4> QED
        BY <2>3, <3>1, <4>1, <4>2
    <3>2. CASE i # id
      BY <2>5, <3>2 DEF BridgeInv, NewIdsAreNew
    <3> QED
      BY <3>1, <3>2
  <2>8. IdsKeepContainers' /\ RunningAreAnchored'
    BY <2>5, <2>6 DEF BridgeInv, IdsKeepContainers, RunningAreAnchored, Anchored
  <2> QED
    BY <2>2, <2>7, <2>8 DEF BridgeInv
<1>2. ASSUME NEW k \in Calls, Bridge!Look(k)
      PROVE  BridgeInv'
  <2>1. PICK row \in Bridge!Bridge : bridgeCall[k].op = "create" /\ row = bridgeCall[k].row
    BY <1>2, <1>a, BridgeCalls DEF Bridge!Look
  <2>2. PICK next \in Bridge!Call :
          /\ bridgeCall' = [bridgeCall EXCEPT ![k] = next]
          /\ next.op = "create" /\ next.row.id = row.id
    BY <1>2, <1>a, <2>1, BridgeCalls DEF Bridge!Look, Bridge!Goto, Bridge!Bridge, Bridge!Statuses
  <2>3. Bridge!TypeOK'
    BY <1>2, <1>a, <2>2 DEF Bridge!Look, Bridge!TypeOK
  <2>4. /\ \A j \in Calls : \A i : Creating(j, i)' => Creating(j, i)
        /\ \A j \in Calls : \A i, d : /\ Deleting(j, i, d)' => Deleting(j, i, d)
                                      /\ Dooming(j, i)' => Dooming(j, i)
                                      /\ Making(j, d) => Making(j, d)'
    BY <1>2, <1>a, <2>1, <2>2 DEF Bridge!Look, Creating, Deleting, Dooming, Making
  <2> QED
    BY <1>2, <2>3, <2>4, BridgeKeeps DEF Bridge!Look
<1>3. ASSUME NEW k \in Calls, Bridge!StartExisting(k)
      PROVE  BridgeInv'
  <2>1. PICK row \in Bridge!Bridge :
          /\ bridgeCall[k].op = "create" /\ bridgeCall[k].at = "start"
          /\ row = bridgeCall[k].row /\ row.container \in Containers
    BY <1>3, <1>a, BridgeCalls DEF Bridge!StartExisting, Bridge!Bridge
  <2>2. CASE Bridge!Answer(k) /\ UNCHANGED container
    <3>1. Bridge!TypeOK'
      BY <1>3, <1>a, <2>2, BridgeCalls DEF Bridge!StartExisting, Bridge!TypeOK
    <3>2. /\ \A j \in Calls : \A i : Creating(j, i)' => Creating(j, i)
          /\ \A j \in Calls : \A i, d : /\ Deleting(j, i, d)' => Deleting(j, i, d)
                                        /\ Dooming(j, i)' => Dooming(j, i)
                                        /\ Making(j, d) => Making(j, d)'
      BY <1>a, <2>1, <2>2 DEF Creating, Deleting, Dooming, Making
    <3> QED
      BY <1>3, <2>2, <3>1, <3>2, BridgeKeeps DEF Bridge!StartExisting
  <2>3. CASE /\ container' = [container EXCEPT ![row.container] = "running"]
             /\ Bridge!Goto(k, "started")
    <3>1. PICK next \in Bridge!Call :
            /\ bridgeCall' = [bridgeCall EXCEPT ![k] = next]
            /\ next.op = "create" /\ next.at = "started" /\ next.row = row
      <4> DEFINE next == [bridgeCall[k] EXCEPT !.at = "started"]
                 Creates == [op : {"create"}, row : Bridge!Bridge,
                             at : {"look", "start", "started", "run", "ran", "insert"}]
      <4>1. bridgeCall' = [bridgeCall EXCEPT ![k] = next]
        BY <1>a, <2>3 DEF Bridge!Goto
      <4>2. bridgeCall[k] \in Creates
        BY <1>a, <2>1, BridgeCalls
      <4>3. next \in Creates /\ next.at = "started" /\ next.row = row
        BY <2>1, <4>2
      <4> HIDE DEF next
      <4> QED
        BY <4>1, <4>3 DEF Bridge!Call
    <3>2. Bridge!TypeOK'
      BY <1>3, <1>a, <2>1, <2>3, <3>1 DEF Bridge!StartExisting, Bridge!TypeOK, Bridge!States
    <3>3. /\ \A j \in Calls : \A i : Creating(j, i)' => Creating(j, i)
          /\ \A j \in Calls : \A i, d : /\ Deleting(j, i, d)' => Deleting(j, i, d)
                                        /\ Dooming(j, i)' => Dooming(j, i)
                                        /\ Making(j, d) => Making(j, d)'
          /\ Making(k, row.container)'
      BY <1>a, <2>1, <3>1 DEF Creating, Deleting, Dooming, Making
    <3>4. \A d \in Containers : d # row.container => container'[d] = container[d]
      BY <1>a, <2>3 DEF Bridge!TypeOK
    <3> QED
      BY <1>3, <3>2, <3>3, <3>4, BridgeKeeps DEF Bridge!StartExisting
  <2> QED
    BY <1>3, <2>1, <2>2, <2>3 DEF Bridge!StartExisting
<1>4. ASSUME NEW k \in Calls, Bridge!ConfirmStarted(k) \/ Bridge!ConfirmNew(k)
      PROVE  BridgeInv'
  <2>1. PICK row \in Bridge!Bridge :
          /\ bridgeCall[k].op = "create" /\ row = bridgeCall[k].row
          /\ row.container \in Containers
    BY <1>4, <1>a, BridgeCalls DEF Bridge!ConfirmStarted, Bridge!ConfirmNew, Bridge!Bridge
  <2>a. UNCHANGED <<bridges, container, begotten, abandoned>>
    BY <1>4 DEF Bridge!ConfirmStarted, Bridge!ConfirmNew
  <2>2. CASE Bridge!Answer(k) /\ Bridge!Account(row.container)
    <3>1. Bridge!TypeOK'
      BY <1>a, <2>a, <2>1, <2>2, BridgeCalls DEF Bridge!TypeOK
    <3>2. /\ \A j \in Calls : \A i : Creating(j, i)' => Creating(j, i)
          /\ \A j \in Calls : \A i, d : /\ Deleting(j, i, d)' => Deleting(j, i, d)
                                        /\ Dooming(j, i)' => Dooming(j, i)
                                        /\ Making(j, d) => Making(j, d)' \/ d = row.container
      BY <1>a, <2>1, <2>2 DEF Creating, Deleting, Dooming, Making
    <3> QED
      BY <2>a, <2>2, <3>1, <3>2, BridgeKeeps
  <2>3. CASE /\ UNCHANGED accounted
             /\ \E status \in Bridge!Statuses :
                  bridgeCall' = [bridgeCall EXCEPT ![k].at = "insert", ![k].row.status = status]
    <3>1. PICK next \in Bridge!Call :
            /\ bridgeCall' = [bridgeCall EXCEPT ![k] = next]
            /\ next.op = "create" /\ next.at = "insert" /\ next.row.id = row.id
            /\ next.row.container = row.container
      <4>1. PICK status \in Bridge!Statuses :
              bridgeCall' = [bridgeCall EXCEPT ![k].at = "insert", ![k].row.status = status]
        BY <2>3
      <4> DEFINE next == [bridgeCall[k] EXCEPT !.at = "insert", !.row.status = status]
                 Creates == [op : {"create"}, row : Bridge!Bridge,
                             at : {"look", "start", "started", "run", "ran", "insert"}]
      <4>2. bridgeCall' = [bridgeCall EXCEPT ![k] = next]
        BY <1>a, <4>1
      <4>3. bridgeCall[k] \in Creates
        BY <1>a, <2>1, BridgeCalls
      <4>4. /\ next \in Creates /\ next.at = "insert"
            /\ next.row.id = row.id /\ next.row.container = row.container
        BY <2>1, <4>3 DEF Bridge!Bridge
      <4> HIDE DEF next
      <4> QED
        BY <4>2, <4>4 DEF Bridge!Call
    <3>2. Bridge!TypeOK'
      BY <1>a, <2>a, <2>3, <3>1 DEF Bridge!TypeOK
    <3>3. /\ \A j \in Calls : \A i : Creating(j, i)' => Creating(j, i)
          /\ \A j \in Calls : \A i, d : /\ Deleting(j, i, d)' => Deleting(j, i, d)
                                        /\ Dooming(j, i)' => Dooming(j, i)
                                        /\ Making(j, d) => Making(j, d)'
      BY <1>a, <2>1, <3>1 DEF Creating, Deleting, Dooming, Making
    <3> QED
      BY <2>a, <2>3, <3>2, <3>3, BridgeKeeps
  <2> QED
    BY <1>4, <1>b, <2>1, <2>2, <2>3 DEF Bridge!ConfirmStarted, Bridge!ConfirmNew, Bridge!Statuses
<1>5. ASSUME NEW k \in Calls, Bridge!RunNew(k)
      PROVE  BridgeInv'
  <2>1. PICK row \in Bridge!Bridge :
          /\ bridgeCall[k].op = "create" /\ bridgeCall[k].at = "run"
          /\ row = bridgeCall[k].row /\ row.container \in Containers
    BY <1>5, <1>a, BridgeCalls DEF Bridge!RunNew, Bridge!Bridge
  <2>a. UNCHANGED <<bridges>>
    BY <1>5 DEF Bridge!RunNew
  <2> DEFINE Make(state) == /\ container' = [container EXCEPT ![row.container] = state]
                            /\ begotten' = begotten \cup {row.container}
                            /\ abandoned' = abandoned \ {row.container}
  <2>2. ASSUME Bridge!Answer(k),
               \/ /\ \E left \in {"created", "running"} : Make(left)
                  /\ Bridge!Account(row.container)
               \/ UNCHANGED <<container, begotten, accounted, abandoned>>
        PROVE  BridgeInv'
    <3>1. Bridge!TypeOK'
      BY <1>a, <2>a, <2>1, <2>2, BridgeCalls DEF Bridge!TypeOK, Bridge!States
    <3>2. /\ \A j \in Calls : \A i : Creating(j, i)' => Creating(j, i)
          /\ \A j \in Calls : \A i, d : /\ Deleting(j, i, d)' => Deleting(j, i, d)
                                        /\ Dooming(j, i)' => Dooming(j, i)
                                        /\ Making(j, d) => Making(j, d)'
      BY <1>a, <2>1, <2>2 DEF Creating, Deleting, Dooming, Making
    <3>3. CASE UNCHANGED <<container, begotten, accounted, abandoned>>
      BY <2>a, <3>1, <3>2, <3>3, BridgeKeeps
    <3>4. CASE /\ \E left \in {"created", "running"} : Make(left)
               /\ Bridge!Account(row.container)
      <4>1. /\ row.container \in accounted'
            /\ \A d \in Containers : Excused(d) => Excused(d)'
            /\ \A d \in Containers : d # row.container =>
                 container'[d] = container[d] /\ (d \in begotten' => d \in begotten)
        BY <1>a, <3>4 DEF Bridge!TypeOK
      <4>2. NewIdsAreNew' /\ IdsKeepContainers'
        <5>1. NewIdsAreNew'
          BY <2>a, <3>2 DEF BridgeInv, NewIdsAreNew
        <5>2. IdsKeepContainers'
          BY <2>a, <3>2 DEF BridgeInv, IdsKeepContainers
        <5> QED
          BY <5>1, <5>2
      <4>3. RunningAreAnchored'
        <5> SUFFICES ASSUME NEW d \in begotten', container'[d] = "running" PROVE Anchored(d)'
          BY DEF RunningAreAnchored
        <5>1. CASE d = row.container
          BY <4>1, <5>1 DEF Anchored
        <5>2. CASE d # row.container
          <6>1. d \in Containers /\ Anchored(d)
            BY <3>1, <4>1, <5>2 DEF BridgeInv, RunningAreAnchored, Bridge!TypeOK
          <6> QED
            BY <2>a, <3>2, <4>1, <6>1 DEF Anchored, BridgeInv, Bridge!TypeOK, Bridge!Bridge
        <5> QED
          BY <5>1, <5>2
      <4> QED
        BY <3>1, <4>2, <4>3 DEF BridgeInv
    <3> QED
      BY <2>2, <3>3, <3>4
  <2>3. CASE /\ Make("running") /\ accounted' = accounted \ {row.container}
             /\ Bridge!Goto(k, "ran")
    <3>1. PICK next \in Bridge!Call :
            /\ bridgeCall' = [bridgeCall EXCEPT ![k] = next]
            /\ next.op = "create" /\ next.at = "ran" /\ next.row = row
      <4> DEFINE next == [bridgeCall[k] EXCEPT !.at = "ran"]
                 Creates == [op : {"create"}, row : Bridge!Bridge,
                             at : {"look", "start", "started", "run", "ran", "insert"}]
      <4>1. bridgeCall' = [bridgeCall EXCEPT ![k] = next]
        BY <1>a, <2>3 DEF Bridge!Goto
      <4>2. bridgeCall[k] \in Creates
        BY <1>a, <2>1, BridgeCalls
      <4>3. next \in Creates /\ next.at = "ran" /\ next.row = row
        BY <2>1, <4>2
      <4> HIDE DEF next
      <4> QED
        BY <4>1, <4>3 DEF Bridge!Call
    <3>2. Bridge!TypeOK'
      BY <1>a, <2>a, <2>1, <2>3, <3>1 DEF Bridge!TypeOK, Bridge!States
    <3>3. /\ \A j \in Calls : \A i : Creating(j, i)' => Creating(j, i)
          /\ \A j \in Calls : \A i, d : /\ Deleting(j, i, d)' => Deleting(j, i, d)
                                        /\ Dooming(j, i)' => Dooming(j, i)
                                        /\ Making(j, d) => Making(j, d)'
          /\ Making(k, row.container)'
      BY <1>a, <2>1, <3>1 DEF Creating, Deleting, Dooming, Making
    <3>4. /\ \A d \in Containers :
               d # row.container =>
                 container'[d] = container[d] /\ (d \in begotten' => d \in begotten)
          /\ \A d \in Containers : d # row.container => (Excused(d) => Excused(d)')
      BY <1>a, <2>3 DEF Bridge!TypeOK
    <3> QED
      BY <2>a, <3>2, <3>3, <3>4, BridgeKeeps
  <2> QED
    BY <1>5, <2>1, <2>2, <2>3 DEF Bridge!RunNew
<1>6. ASSUME NEW k \in Calls, Bridge!InsertRow(k)
      PROVE  BridgeInv'
  <2>1. PICK row \in Bridge!Bridge :
          /\ bridgeCall[k].op = "create" /\ bridgeCall[k].at = "insert"
          /\ row = bridgeCall[k].row /\ row.container \in Containers /\ row.id \in RowIds
    BY <1>6, <1>a, BridgeCalls DEF Bridge!InsertRow, Bridge!Bridge
  <2>a. UNCHANGED <<container, begotten, abandoned>> /\ Bridge!Answer(k)
    BY <1>6 DEF Bridge!InsertRow
  <2>2. /\ \A j \in Calls : \A i : Creating(j, i)' => Creating(j, i) /\ j # k
        /\ \A j \in Calls : \A i, d : /\ Deleting(j, i, d)' <=> Deleting(j, i, d)
                                      /\ Dooming(j, i)' <=> Dooming(j, i)
                                      /\ Making(j, d) => Making(j, d)' \/ d = row.container
    BY <1>a, <2>a, <2>1 DEF Creating, Deleting, Dooming, Making
  <2>3. CASE Bridge!Account(row.container) /\ UNCHANGED bridges
    <3>1. Bridge!TypeOK'
      BY <1>a, <2>a, <2>1, <2>3, BridgeCalls DEF Bridge!TypeOK
    <3> QED
      BY <2>a, <2>2, <2>3, <3>1, BridgeKeeps
  <2>4. CASE Bridge!InsertBridge(row) /\ UNCHANGED accounted
    <3>1. Bridge!TypeOK' /\ bridges' = bridges \cup {row}
      BY <1>a, <2>a, <2>1, <2>4, BridgeCalls DEF Bridge!TypeOK, Bridge!InsertBridge
    <3>2. /\ \A r \in bridges : r.id # row.id
          /\ \A j \in Calls : j # k => ~Creating(j, row.id)
          /\ \A j \in Calls, d \in Containers : ~Deleting(j, row.id, d)
      BY <2>1 DEF BridgeInv, NewIdsAreNew, Creating
    <3>3. NewIdsAreNew'
      <4> SUFFICES ASSUME NEW j \in Calls, NEW i \in RowIds, Creating(j, i)'
                   PROVE  /\ \A r \in bridges' : r.id # i
                          /\ \A l \in Calls : Creating(l, i)' => l = j
                          /\ \A l \in Calls, d \in Containers : ~Deleting(l, i, d)'
        BY DEF NewIdsAreNew
      <4> QED
        BY <2>2, <3>1, <3>2 DEF BridgeInv, NewIdsAreNew
    <3>4. IdsKeepContainers'
      BY <2>2, <3>1, <3>2 DEF BridgeInv, IdsKeepContainers
    <3>5. \A j \in Calls : ~Dooming(j, row.id)'
      BY <1>a, <2>2, <3>2, BridgeCalls DEF Dooming, Deleting, Bridge!Bridge
    <3>6. RunningAreAnchored'
      BY <2>a, <2>2, <2>4, <3>1, <3>5 DEF BridgeInv, RunningAreAnchored, Anchored
    <3> QED
      BY <3>1, <3>3, <3>4, <3>6 DEF BridgeInv
  <2> QED
    BY <1>6, <2>1, <2>3, <2>4 DEF Bridge!InsertRow
<1>7. ASSUME NEW k \in Calls, NEW S \in SUBSET bridges, Bridge!ReadRows(k, S)
      PROVE  BridgeInv'
  <2>1. Bridge!TypeOK'
    BY <1>7, <1>a, BridgeCalls DEF Bridge!ReadRows, Bridge!TypeOK
  <2>2. /\ \A j \in Calls : \A i : Creating(j, i)' => Creating(j, i)
        /\ \A j \in Calls : \A i, d : /\ Deleting(j, i, d)' => Deleting(j, i, d)
                                      /\ Dooming(j, i)' => Dooming(j, i)
                                      /\ Making(j, d) => Making(j, d)'
    BY <1>7, <1>a DEF Bridge!ReadRows, Creating, Deleting, Dooming, Making
  <2> QED
    BY <1>7, <2>1, <2>2, BridgeKeeps DEF Bridge!ReadRows
<1>8. ASSUME NEW k \in Calls, Bridge!Reconcile(k)
      PROVE  BridgeInv'
  <2>1. PICK r \in bridgeCall[k].rest :
          \/ Bridge!Proceed(k, bridgeCall[k].rest \ {r})
          \/ \E real \in Bridge!StatusOrInactive(r.container) :
               bridgeCall' = [bridgeCall EXCEPT ![k] =
                 [op |-> "read", at |-> "write", row |-> [r EXCEPT !.status = real],
                  rest |-> bridgeCall[k].rest \ {r}]]
    BY <1>8 DEF Bridge!Reconcile
  <2>2. r \in Bridge!Bridge /\ bridgeCall[k].rest \in SUBSET Bridge!Bridge /\ bridgeCall[k].op = "read"
    BY <1>8, <1>a, BridgeCalls DEF Bridge!Reconcile
  <2>3. \A real \in Bridge!StatusOrInactive(r.container) :
          [r EXCEPT !.status = real] \in Bridge!Bridge
    BY <1>b, <2>2 DEF Bridge!Bridge
  <2>4. PICK next \in Bridge!Call : /\ bridgeCall' = [bridgeCall EXCEPT ![k] = next]
                                   /\ next.op \in {"none", "read"}
    <3> DEFINE rest == bridgeCall[k].rest \ {r}
    <3>0. rest \in SUBSET Bridge!Bridge
      BY <2>2
    <3> HIDE DEF rest
    <3>1. CASE Bridge!Proceed(k, rest)
      <4>1. CASE rest = {}
        BY <3>1, <4>1, <1>a, BridgeCalls DEF Bridge!Proceed
      <4>2. CASE rest # {}
        <5> DEFINE next == [op |-> "read", at |-> "look", rest |-> rest]
        <5>1. next \in Bridge!Call /\ next.op = "read"
          BY <3>0, BridgeCalls
        <5>2. bridgeCall' = [bridgeCall EXCEPT ![k] = next]
          BY <3>1, <4>2 DEF Bridge!Proceed
        <5> HIDE DEF next
        <5> QED
          BY <5>1, <5>2
      <4> QED
        BY <4>1, <4>2
    <3>2. ASSUME NEW row \in Bridge!Bridge,
                 bridgeCall' = [bridgeCall EXCEPT ![k] =
                   [op |-> "read", at |-> "write", row |-> row,
                    rest |-> rest]]
          PROVE  \E next \in Bridge!Call : /\ bridgeCall' = [bridgeCall EXCEPT ![k] = next]
                                           /\ next.op \in {"none", "read"}
      <4> DEFINE next == [op |-> "read", at |-> "write", row |-> row, rest |-> rest]
      <4>1. next \in Bridge!Call /\ next.op = "read"
        BY <3>0, <3>2, BridgeCalls
      <4>2. bridgeCall' = [bridgeCall EXCEPT ![k] = next]
        BY <3>2
      <4> HIDE DEF next
      <4> QED
        BY <4>1, <4>2
    <3> QED
      BY <2>1, <2>3, <3>1, <3>2 DEF rest
  <2>5. Bridge!TypeOK'
    BY <1>8, <1>a, <2>4 DEF Bridge!Reconcile, Bridge!TypeOK
  <2>6. /\ \A j \in Calls : \A i : Creating(j, i)' => Creating(j, i)
        /\ \A j \in Calls : \A i, d : /\ Deleting(j, i, d)' => Deleting(j, i, d)
                                      /\ Dooming(j, i)' => Dooming(j, i)
                                      /\ Making(j, d) => Making(j, d)'
    BY <1>a, <2>2, <2>4 DEF Creating, Deleting, Dooming, Making
  <2> QED
    BY <1>8, <2>5, <2>6, BridgeKeeps DEF Bridge!Reconcile
<1>9. ASSUME NEW k \in Calls, Bridge!ReconcileWrite(k) \/ Bridge!UpdateWrite(k)
      PROVE  BridgeInv'
  <2>1. PICK row \in Bridge!Bridge :
          row = bridgeCall[k].row /\ bridgeCall[k].op \in {"read", "update"}
    BY <1>9, <1>a, BridgeCalls DEF Bridge!ReconcileWrite, Bridge!UpdateWrite
  <2>2. PICK next \in Bridge!Call : /\ bridgeCall' = [bridgeCall EXCEPT ![k] = next]
                                   /\ next.op \in {"none", "read"}
    BY <1>9, <1>a, BridgeCalls DEF Bridge!ReconcileWrite, Bridge!UpdateWrite, Bridge!Proceed
  <2>3. Bridge!StoreBridge(row) \/ UNCHANGED bridges
    BY <1>9, <2>1 DEF Bridge!ReconcileWrite, Bridge!UpdateWrite
  <2> DEFINE store(r) == IF r.id = row.id
                           THEN [r EXCEPT !.name = row.name, !.status = row.status] ELSE r
  <2>4. \A r \in bridges : /\ store(r) \in Bridge!Bridge /\ store(r).id = r.id
                           /\ store(r).container = r.container
    BY <1>a, <2>1 DEF Bridge!TypeOK, Bridge!Bridge
  <2>5. bridges' = {store(r) : r \in bridges} \/ UNCHANGED bridges
    BY <2>3 DEF Bridge!StoreBridge
  <2> HIDE DEF store
  <2>6. UNCHANGED <<container, begotten, accounted, abandoned>>
    BY <1>9 DEF Bridge!ReconcileWrite, Bridge!UpdateWrite
  <2>7. Bridge!TypeOK'
    BY <1>a, <2>2, <2>4, <2>5, <2>6 DEF Bridge!TypeOK
  <2>8. /\ \A j \in Calls : \A i : Creating(j, i)' => Creating(j, i)
        /\ \A j \in Calls : \A i, d : /\ Deleting(j, i, d)' => Deleting(j, i, d)
                                      /\ Dooming(j, i)' => Dooming(j, i)
                                      /\ Making(j, d) => Making(j, d)'
    BY <1>a, <2>1, <2>2 DEF Creating, Deleting, Dooming, Making
  <2> QED
    BY <2>4, <2>5, <2>6, <2>7, <2>8, BridgeKeeps
<1>10. ASSUME NEW k \in Calls, NEW id \in RowIds, NEW n \in BridgeNames,
              Bridge!UpdateBridge(k, id, n)
      PROVE  BridgeInv'
  <2>1. PICK r \in bridges : bridgeCall' = [bridgeCall EXCEPT ![k] =
          [op |-> "update", at |-> "look", row |-> [r EXCEPT !.name = n]]]
    BY <1>10 DEF Bridge!UpdateBridge, Bridge!GetBridgeByID
  <2>2. [r EXCEPT !.name = n] \in Bridge!Bridge
    BY <1>a, <2>1 DEF Bridge!TypeOK, Bridge!Bridge
  <2>3. Bridge!TypeOK'
    BY <1>10, <1>a, <2>1, <2>2, BridgeCalls DEF Bridge!UpdateBridge, Bridge!TypeOK
  <2>4. /\ \A j \in Calls : \A i : Creating(j, i)' => Creating(j, i)
        /\ \A j \in Calls : \A i, d : /\ Deleting(j, i, d)' => Deleting(j, i, d)
                                      /\ Dooming(j, i)' => Dooming(j, i)
                                      /\ Making(j, d) => Making(j, d)'
    BY <1>10, <1>a, <2>1 DEF Bridge!UpdateBridge, Creating, Deleting, Dooming, Making
  <2> QED
    BY <1>10, <2>3, <2>4, BridgeKeeps DEF Bridge!UpdateBridge
<1>11. ASSUME NEW k \in Calls, Bridge!UpdateLook(k)
      PROVE  BridgeInv'
  <2>1. PICK row \in Bridge!Bridge : bridgeCall[k].op = "update" /\ row = bridgeCall[k].row
    BY <1>11, <1>a, BridgeCalls DEF Bridge!UpdateLook
  <2>2. PICK next \in Bridge!Call : /\ bridgeCall' = [bridgeCall EXCEPT ![k] = next]
                                   /\ next.op = "update"
    <3>0. PICK status \in Bridge!StatusOrInactive(row.container) \cup {row.status} :
            bridgeCall' = [bridgeCall EXCEPT ![k].at = "write", ![k].row.status = status]
      BY <1>11, <2>1 DEF Bridge!UpdateLook
    <3> DEFINE next == [bridgeCall[k] EXCEPT !.at = "write", !.row.status = status]
               Updates == [op : {"update"}, at : {"look", "write"}, row : Bridge!Bridge]
    <3>1. bridgeCall' = [bridgeCall EXCEPT ![k] = next]
      BY <1>a, <3>0
    <3>2. status \in Bridge!Statuses
      BY <1>b, <2>1 DEF Bridge!Bridge
    <3>3. bridgeCall[k] \in Updates
      BY <1>a, <2>1, BridgeCalls
    <3>4. next \in Updates
      BY <3>2, <3>3 DEF Bridge!Bridge
    <3> HIDE DEF next
    <3> QED
      BY <3>1, <3>4 DEF Bridge!Call
  <2>3. Bridge!TypeOK'
    BY <1>11, <1>a, <2>2 DEF Bridge!UpdateLook, Bridge!TypeOK
  <2>4. /\ \A j \in Calls : \A i : Creating(j, i)' => Creating(j, i)
        /\ \A j \in Calls : \A i, d : /\ Deleting(j, i, d)' => Deleting(j, i, d)
                                      /\ Dooming(j, i)' => Dooming(j, i)
                                      /\ Making(j, d) => Making(j, d)'
    BY <1>a, <2>1, <2>2 DEF Creating, Deleting, Dooming, Making
  <2> QED
    BY <1>11, <2>3, <2>4, BridgeKeeps DEF Bridge!UpdateLook
<1>12. ASSUME NEW k \in Calls, NEW id \in RowIds, Bridge!DeleteBridge(k, id)
      PROVE  BridgeInv'
  <2>1. PICK r \in bridges, next \in Bridge!Call :
          /\ bridgeCall' = [bridgeCall EXCEPT ![k] = next]
          /\ next.op = "delete" /\ next.row = r
          /\ \/ next.at = "stop"
             \/ next.at = "drop" /\ ~next.tried
    <3>1. PICK r \in bridges :
            \/ bridgeCall' = [bridgeCall EXCEPT ![k] = [op |-> "delete", at |-> "stop", row |-> r]]
            \/ bridgeCall' = [bridgeCall EXCEPT ![k] =
                 [op |-> "delete", at |-> "drop", row |-> r, tried |-> FALSE]]
      BY <1>12 DEF Bridge!DeleteBridge, Bridge!GetBridgeByID
    <3>2. /\ [op |-> "delete", at |-> "stop", row |-> r] \in Bridge!Call
          /\ [op |-> "delete", at |-> "drop", row |-> r, tried |-> FALSE] \in Bridge!Call
      BY <1>a, <3>1, BridgeCalls DEF Bridge!TypeOK
    <3> QED
      BY <3>1, <3>2
  <2>2. r \in Bridge!Bridge /\ r.container \in Containers
    BY <1>a, <2>1 DEF Bridge!TypeOK, Bridge!Bridge
  <2>3. Bridge!TypeOK'
    BY <1>12, <1>a, <2>1, <2>2 DEF Bridge!DeleteBridge, Bridge!TypeOK
  <2>4. /\ \A j \in Calls : \A i : Creating(j, i)' => Creating(j, i)
        /\ \A j \in Calls : \A i, d :
             /\ Deleting(j, i, d)' => Deleting(j, i, d) \/ (i = r.id /\ d = r.container)
             /\ Dooming(j, i)' => Dooming(j, i)
             /\ Making(j, d) => Making(j, d)'
    BY <1>12, <1>a, <2>1 DEF Bridge!DeleteBridge, Creating, Deleting, Dooming, Making
  <2>5. UNCHANGED <<bridges, container, begotten, accounted, abandoned>>
    BY <1>12 DEF Bridge!DeleteBridge
  <2> QED
    BY <2>1, <2>3, <2>4, <2>5, BridgeKeeps
<1>13. ASSUME NEW k \in Calls, Bridge!StopContainer(k) \/ Bridge!RemoveContainer(k)
      PROVE  BridgeInv'
  <2>1. PICK row \in Bridge!Bridge :
          /\ bridgeCall[k].op = "delete" /\ row = bridgeCall[k].row
          /\ row.id \in RowIds /\ row.container \in Containers
    BY <1>13, <1>a, BridgeCalls DEF Bridge!StopContainer, Bridge!RemoveContainer, Bridge!Bridge
  <2>2. PICK next \in Bridge!Call :
          /\ bridgeCall' = [bridgeCall EXCEPT ![k] = next]
          /\ next.op = "delete" /\ next.row = row
    <3>1. CASE Bridge!StopContainer(k)
      <4> DEFINE stopped == [bridgeCall[k] EXCEPT !.at = "remove"]
                 Deletes == [op : {"delete"}, at : {"stop", "remove"}, row : Bridge!Bridge]
      <4>1. bridgeCall[k].at = "stop" /\ bridgeCall' = [bridgeCall EXCEPT ![k] = stopped]
        BY <1>a, <3>1 DEF Bridge!StopContainer, Bridge!Goto
      <4>2. bridgeCall[k] \in Deletes
        BY <1>a, <2>1, <4>1, BridgeCalls
      <4>3. stopped \in Deletes /\ stopped.op = "delete" /\ stopped.row = row
        BY <2>1, <4>2
      <4> HIDE DEF stopped
      <4> QED
        BY <4>1, <4>3 DEF Bridge!Call
    <3>2. CASE Bridge!RemoveContainer(k)
      <4>1. [op |-> "delete", at |-> "drop", row |-> row, tried |-> TRUE] \in Bridge!Call
        BY <2>1, BridgeCalls
      <4> QED
        BY <2>1, <3>2, <4>1 DEF Bridge!RemoveContainer
    <3> QED
      BY <1>13, <3>1, <3>2
  <2>3. /\ UNCHANGED <<bridges, begotten, abandoned>>
        /\ \/ /\ \E state \in {"created", "absent"} :
                   container' = [container EXCEPT ![row.container] = state]
              /\ UNCHANGED accounted
           \/ Bridge!Account(row.container) /\ UNCHANGED container
    BY <1>13, <2>1 DEF Bridge!StopContainer, Bridge!RemoveContainer
  <2>4. Bridge!TypeOK'
    BY <1>a, <2>1, <2>2, <2>3 DEF Bridge!TypeOK, Bridge!States
  <2>5. /\ accounted \subseteq accounted'
        /\ row.container \in accounted' \/ container'[row.container] # "running"
        /\ \A c \in Containers : container'[c] = "running" => container[c] = "running"
    BY <1>a, <2>1, <2>3 DEF Bridge!TypeOK
  <2>6. /\ \A j \in Calls : \A i : Creating(j, i)' => Creating(j, i)
        /\ \A j \in Calls : \A i, d : /\ Deleting(j, i, d)' => Deleting(j, i, d)
                                      /\ Dooming(j, i)' => Dooming(j, i) \/ i = row.id
                                      /\ Making(j, d) => Making(j, d)'
    BY <1>a, <2>1, <2>2 DEF Creating, Deleting, Dooming, Making
  <2>7. \A r \in bridges : r.id = row.id => r.container = row.container
    BY <2>1 DEF BridgeInv, IdsKeepContainers, Deleting
  <2> QED
    BY <2>3, <2>4, <2>5, <2>6, <2>7, BridgeKeeps
<1>14. ASSUME NEW k \in Calls, Bridge!DropRow(k)
      PROVE  BridgeInv'
  <2>1. PICK row \in Bridge!Bridge :
          /\ bridgeCall[k].op = "delete" /\ bridgeCall[k].at = "drop"
          /\ row = bridgeCall[k].row
    BY <1>14, <1>a, BridgeCalls DEF Bridge!DropRow
  <2>2. /\ bridges' \subseteq bridges /\ Bridge!Answer(k)
        /\ \A r \in bridges \ bridges' : r.id = row.id
        /\ \A r \in bridges \ bridges' : bridgeCall[k].tried \/ r.container \in abandoned'
        /\ abandoned \subseteq abandoned' /\ abandoned' \subseteq Containers
        /\ UNCHANGED <<container, begotten, accounted>>
    BY <1>14, <1>a, <2>1
    DEF Bridge!DropRow, Bridge!DropBridge, Bridge!GetBridgeByID, Bridge!TypeOK, Bridge!Bridge
  <2>3. Bridge!TypeOK'
    BY <1>a, <2>2, BridgeCalls DEF Bridge!TypeOK
  <2>4. /\ \A j \in Calls : \A i : Creating(j, i)' => Creating(j, i)
        /\ \A j \in Calls : \A i, d : /\ Deleting(j, i, d)' => Deleting(j, i, d)
                                      /\ Dooming(j, i)' => Dooming(j, i)
                                      /\ Making(j, d) => Making(j, d)'
        /\ bridgeCall[k].tried => Dooming(k, row.id)
    BY <1>a, <2>1, <2>2 DEF Creating, Deleting, Dooming, Making
  <2>5. NewIdsAreNew'
    <3> SUFFICES ASSUME NEW j \in Calls, NEW i \in RowIds, Creating(j, i)'
                 PROVE  /\ \A r \in bridges' : r.id # i
                        /\ \A l \in Calls : Creating(l, i)' => l = j
                        /\ \A l \in Calls, d \in Containers : ~Deleting(l, i, d)'
      BY DEF NewIdsAreNew
    <3> QED
      BY <2>2, <2>4 DEF BridgeInv, NewIdsAreNew
  <2>6. IdsKeepContainers'
    BY <2>2, <2>4 DEF BridgeInv, IdsKeepContainers
  <2>7. RunningAreAnchored'
    BY <2>2, <2>4 DEF BridgeInv, RunningAreAnchored, Anchored
  <2> QED
    BY <2>3, <2>5, <2>6, <2>7 DEF BridgeInv
<1>15. ASSUME NEW c \in Containers,
              Bridge!ContainerExits(c) \/ Bridge!RemovedByHand(c)
      PROVE  BridgeInv'
  <2>1. /\ Bridge!TypeOK'
        /\ UNCHANGED <<bridges, bridgeCall, begotten, accounted, abandoned>>
        /\ \A d \in Containers : container'[d] = "running" => container[d] = "running"
    BY <1>15, <1>a DEF Bridge!ContainerExits, Bridge!RemovedByHand,
                       Bridge!TypeOK, Bridge!States
  <2> QED
    BY <2>1, BridgeKeeps DEF Creating, Deleting, Dooming, Making
<1>16. CASE Bridge!Restart
  <2>1. Bridge!TypeOK'
    BY <1>16, <1>a, BridgeCalls DEF Bridge!Restart, Bridge!TypeOK, Bridge!Bridge
  <2>2. /\ \A k \in Calls : bridgeCall'[k] = Bridge!Idle
        /\ \A k \in Calls : \A c : Making(k, c) => c \in accounted'
        /\ accounted \subseteq accounted' /\ UNCHANGED abandoned
    BY <1>16 DEF Bridge!Restart, Making
  <2>3. \A k \in Calls : \A i, c : /\ ~Creating(k, i)' /\ ~Deleting(k, i, c)'
                              /\ ~Dooming(k, i)'
    BY <1>a, <2>2 DEF Creating, Deleting, Dooming
  <2> QED
    BY <1>16, <2>1, <2>2, <2>3, BridgeKeeps DEF Bridge!Restart
<1>17. CASE UNCHANGED bridgeVars
  <2>1. Bridge!TypeOK'
    BY <1>17, <1>a DEF bridgeVars, Bridge!TypeOK
  <2> QED
    BY <1>17, <2>1, BridgeKeeps DEF bridgeVars, Creating, Deleting, Dooming, Making
<1> QED
  BY <1>1, <1>2, <1>3, <1>4, <1>5, <1>6, <1>7, <1>8, <1>9, <1>10, <1>11, <1>12, <1>13, <1>14,
     <1>15, <1>16, <1>17
  DEF Bridge!Next, Bridge!GetBridge, Bridge!ListBridges, Bridge!GetBridgeByID

-----------------------------------------------------------------------------
(* billing-service *)

\* The processor charges this customer for this subscription; it made the
\* customer for this organisation.
Charged(external, customer) ==
  \E s \in processed : s.id = external /\ s.customer = customer
MadeFor(customer, org) == \E c \in customers : c.id = customer /\ c.org = org

\* What a request is about to store, or to ask for, is as the rows must be.
Matched(call) ==
  /\ call.op \in {"customer", "subscribe"} =>
       \A c \in call.customer : MadeFor(c, call.org)
  /\ call.op = "insert" =>
       Charged(call.is.external, call.is.customer) /\ MadeFor(call.is.customer, call.is.org)

\* The inductive invariant.
BillInv ==
  /\ Bill!TypeOK
  /\ Bill!RetriesCreateOnce
  /\ Bill!RowsMatchProcessor
  /\ \A k \in Calls : Matched(billingCall[k])

\* What the op of a call says of its fields.
LEMMA BillCalls ==
  /\ Bill!Idle \in Bill!Call
  /\ \A op \in {"customer", "subscribe"}, o \in BilledOrgs, key \in RetryKeys,
        c \in SUBSET Customers :
       [op |-> op, org |-> o, key |-> key, customer |-> c] \in Bill!Call
  /\ \A is \in Bill!Content : [op |-> "insert", is |-> is] \in Bill!Call
  /\ \A op \in {"plan", "cancel", "store"}, row \in Bill!Row :
       [op |-> op, row |-> row] \in Bill!Call
  /\ \A c \in Bill!Call :
       /\ c.op \in {"customer", "subscribe"} =>
            /\ c.org \in BilledOrgs /\ c.key \in RetryKeys /\ c.customer \in SUBSET Customers
            /\ c = [op |-> c.op, org |-> c.org, key |-> c.key, customer |-> c.customer]
       /\ c.op = "insert" => c.is \in Bill!Content
       /\ c.op \in {"plan", "cancel", "store"} => c.row \in Bill!Row
  BY DEF Bill!Call, Bill!Idle

\* It holds when the processor has nothing yet.
LEMMA BillStart == Bill!Init => BillInv
  BY BillCalls
  DEF Bill!Init, BillInv, Bill!TypeOK, Bill!RetriesCreateOnce, Bill!RowsMatchProcessor,
      Matched, Bill!Idle

\* Neither the processor nor the table loses anything, and a request is over
\* or has found what it is about to store.
LEMMA BillKeeps ==
  ASSUME BillInv, Bill!TypeOK', Bill!RetriesCreateOnce',
         \A e, c : Charged(e, c) => Charged(e, c)',
         \A c, o : MadeFor(c, o) => MadeFor(c, o)',
         \A r \in subscriptions' :
           \/ \E q \in subscriptions : /\ q.is.external = r.is.external
                                       /\ q.is.customer = r.is.customer
                                       /\ q.is.org = r.is.org
           \/ Charged(r.is.external, r.is.customer) /\ MadeFor(r.is.customer, r.is.org),
         \A k \in Calls : billingCall'[k] = billingCall[k] \/ Matched(billingCall[k])'
  PROVE  BillInv'
<1>1. Bill!RowsMatchProcessor'
  <2> SUFFICES ASSUME NEW r \in subscriptions'
               PROVE  /\ Charged(r.is.external, r.is.customer)'
                      /\ MadeFor(r.is.customer, r.is.org)'
    BY DEF Bill!RowsMatchProcessor, Charged, MadeFor
  <2> QED
    BY DEF BillInv, Bill!RowsMatchProcessor, Charged, MadeFor
<1>2. ASSUME NEW k \in Calls PROVE Matched(billingCall[k])'
  BY DEF BillInv, Matched
<1> QED
  BY <1>1, <1>2 DEF BillInv

\* A new status at the processor changes nothing else of a subscription.
LEMMA SetStatusKeeps ==
  ASSUME BillInv, NEW external, NEW status \in {"active", "canceled"},
         Bill!SetStatus(external, status), external \in Externals
  PROVE  /\ processed' \subseteq Bill!External
         /\ webhooks' \subseteq [external : Externals, status : {"active", "canceled"}]
         /\ \A a, b \in processed' : a.key = b.key => a = b
         /\ \A e, c : Charged(e, c) => Charged(e, c)'
<1> DEFINE set(s) == IF s.id = external THEN [s EXCEPT !.status = status] ELSE s
<1>1. \A s \in processed : /\ set(s) \in Bill!External /\ set(s).id = s.id
                           /\ set(s).customer = s.customer /\ set(s).key = s.key
  BY DEF BillInv, Bill!TypeOK, Bill!External
<1>2. processed' = {set(s) : s \in processed}
  BY DEF Bill!SetStatus
<1> HIDE DEF set
<1>3. webhooks' \subseteq [external : Externals, status : {"active", "canceled"}]
  BY DEF BillInv, Bill!TypeOK, Bill!SetStatus
<1>4. \A e, c : Charged(e, c) => Charged(e, c)'
  BY <1>1, <1>2 DEF Charged
<1>5. \A a, b \in processed' : a.key = b.key => a = b
  BY <1>1, <1>2 DEF BillInv, Bill!RetriesCreateOnce
<1> QED
  BY <1>1, <1>2, <1>3, <1>4, <1>5

\* It is inductive: one step for each action.
LEMMA BillStep == BillInv /\ [Bill!Next]_billingVars => BillInv'
<1> SUFFICES ASSUME BillInv, [Bill!Next]_billingVars PROVE BillInv'
  OBVIOUS
<1> USE DEF Bill!Become, Bill!Answer
<1>a. /\ Bill!TypeOK /\ Bill!RetriesCreateOnce
      /\ \A k \in Calls : billingCall[k] \in Bill!Call
      /\ billingCall \in [Calls -> Bill!Call]
      /\ Matched(Bill!Idle)'
  BY DEF BillInv, Bill!TypeOK, Bill!Idle, Matched
<1>b. \A op \in {"plan", "cancel", "store"} : \A row : Matched([op |-> op, row |-> row])'
  BY DEF Matched
<1>1. ASSUME NEW k \in Calls, NEW o \in BilledOrgs, NEW key \in RetryKeys,
             Bill!CreateSubscription(k, o, key)
      PROVE  BillInv'
  <2>1. PICK existing \in Bill!GetLatestExternalCustomerID(o) :
          Bill!Become(k, [op |-> IF existing = {} THEN "customer" ELSE "subscribe",
                          org |-> o, key |-> key, customer |-> existing])
    BY <1>1 DEF Bill!CreateSubscription
  <2>2. existing \in SUBSET Customers /\ \A c \in existing : MadeFor(c, o)
    BY <1>a DEF Bill!GetLatestExternalCustomerID, Bill!TypeOK, Bill!Row, Bill!Content,
                BillInv, Bill!RowsMatchProcessor, MadeFor
  <2>3. Bill!TypeOK'
    BY <1>1, <1>a, <2>1, <2>2, BillCalls DEF Bill!CreateSubscription, Bill!TypeOK
  <2>4. \A c, d : MadeFor(c, d) => MadeFor(c, d)'
    BY <1>1 DEF Bill!CreateSubscription, MadeFor
  <2>5. Matched([op |-> IF existing = {} THEN "customer" ELSE "subscribe",
                 org |-> o, key |-> key, customer |-> existing])'
    BY <2>2, <2>4 DEF Matched
  <2> QED
    BY <1>1, <1>a, <2>1, <2>3, <2>4, <2>5, BillKeeps
    DEF Bill!TypeOK, Bill!CreateSubscription, Bill!RetriesCreateOnce, Charged, MadeFor
<1>2. ASSUME NEW k \in Calls, Bill!CreateCustomer(k)
      PROVE  BillInv'
  <2>a. PICK call \in Bill!Call : call = billingCall[k]
    BY <1>a
  <2>1. CASE Bill!Answer(k) /\ UNCHANGED customers
    <3>1. Bill!TypeOK'
      BY <1>2, <1>a, <2>1, BillCalls DEF Bill!CreateCustomer, Bill!TypeOK
    <3> QED
      BY <1>2, <1>a, <2>1, <3>1, BillKeeps
      DEF Bill!CreateCustomer, Bill!RetriesCreateOnce, Charged, MadeFor
  <2>2. ASSUME NEW c \in Bill!CustomersFor(call.org, call.key),
               customers' = customers \cup {c},
               \/ Bill!Answer(k)
               \/ Bill!Become(k, [call EXCEPT !.op = "subscribe", !.customer = {c.id}])
        PROVE  BillInv'
    <3>1. call.op = "customer" /\ call.org \in BilledOrgs /\ call.key \in RetryKeys
      BY <1>2, <1>a, <2>a, BillCalls DEF Bill!CreateCustomer
    <3>2. /\ c \in [id : Customers, org : BilledOrgs, key : RetryKeys]
          /\ c.org = call.org /\ c.key = call.key
          /\ \A a \in customers : a.key = c.key => a = c
      BY <1>a, <2>2, <3>1 DEF Bill!CustomersFor, Bill!TypeOK, Bill!RetriesCreateOnce
    <3> DEFINE next == [call EXCEPT !.op = "subscribe", !.customer = {c.id}]
    <3>3. /\ next \in Bill!Call
          /\ next.op = "subscribe" /\ next.org = call.org /\ next.customer = {c.id}
      <4>1. call \in [op : {"customer"}, org : BilledOrgs, key : RetryKeys,
                      customer : SUBSET Customers]
        BY <3>1, BillCalls
      <4>2. /\ next \in [op : {"subscribe"}, org : BilledOrgs, key : RetryKeys,
                         customer : SUBSET Customers]
            /\ next.org = call.org /\ next.customer = {c.id}
        BY <3>2, <4>1
      <4> QED
        BY <4>2 DEF Bill!Call
    <3>a. Bill!Answer(k) \/ Bill!Become(k, next)
      BY <2>2
    <3> HIDE DEF next
    <3>4. Bill!TypeOK'
      BY <1>2, <1>a, <2>2, <3>a, <3>1, <3>2, <3>3, BillCalls
      DEF Bill!CreateCustomer, Bill!TypeOK
    <3>5. Bill!RetriesCreateOnce'
      BY <1>2, <1>a, <2>2, <3>2 DEF Bill!CreateCustomer, Bill!RetriesCreateOnce
    <3>6. MadeFor(c.id, call.org)' /\ \A d, o : MadeFor(d, o) => MadeFor(d, o)'
      BY <2>2, <3>2 DEF MadeFor
    <3>7. \A n : n.op = "subscribe" /\ n.org = call.org /\ n.customer = {c.id} => Matched(n)'
      BY <3>6 DEF Matched
    <3> QED
      BY <1>2, <1>a, <3>a, <3>3, <3>4, <3>5, <3>6, <3>7, BillKeeps
      DEF Bill!TypeOK, Bill!CreateCustomer, Charged
  <2> QED
    BY <1>2, <2>a, <2>1, <2>2 DEF Bill!CreateCustomer
<1>3. ASSUME NEW k \in Calls, Bill!CreateExternal(k)
      PROVE  BillInv'
  <2>a. PICK call \in Bill!Call : call = billingCall[k]
    BY <1>a
  <2>1. CASE Bill!Answer(k) /\ UNCHANGED processed
    <3>1. Bill!TypeOK'
      BY <1>3, <1>a, <2>1, BillCalls DEF Bill!CreateExternal, Bill!TypeOK
    <3> QED
      BY <1>3, <1>a, <2>1, <3>1, BillKeeps
      DEF Bill!CreateExternal, Bill!RetriesCreateOnce, Charged, MadeFor
  <2>2. ASSUME NEW c \in call.customer, NEW s \in Bill!SubscriptionsFor(c, call.key),
               processed' = IF \E p \in processed : p.id = s.id THEN processed
                            ELSE processed \cup {s},
               \/ Bill!Answer(k)
               \/ Bill!Become(k, [op |-> "insert",
                                  is |-> [org |-> call.org, external |-> s.id,
                                          customer |-> c, status |-> "active"]])
        PROVE  BillInv'
    <3>1. /\ call.op = "subscribe" /\ call.org \in BilledOrgs /\ call.key \in RetryKeys
          /\ c \in Customers /\ MadeFor(c, call.org)
      BY <1>3, <1>a, <2>a, <2>2, BillCalls DEF Bill!CreateExternal, BillInv, Matched
    <3>2. s \in Bill!External /\ s.customer = c /\ s.key = call.key
      BY <1>a, <2>2, <3>1
      DEF Bill!SubscriptionsFor, Bill!NewSubscriptions, Bill!TypeOK, Bill!External
    <3>3. s \in processed \/ (\A p \in processed : p.id # s.id /\ p.key # s.key)
      BY <2>2 DEF Bill!SubscriptionsFor, Bill!NewSubscriptions
    <3>4. processed' = processed \cup {s}
      BY <2>2, <3>3
    <3>5. Bill!TypeOK'
      BY <1>3, <1>a, <2>2, <3>1, <3>2, <3>4, BillCalls
      DEF Bill!CreateExternal, Bill!TypeOK, Bill!External, Bill!Content
    <3>6. Bill!RetriesCreateOnce'
      BY <1>3, <1>a, <3>3, <3>4 DEF Bill!CreateExternal, Bill!RetriesCreateOnce
    <3>7. /\ Charged(s.id, c)' /\ \A e, d : Charged(e, d) => Charged(e, d)'
          /\ UNCHANGED <<customers, subscriptions>>
      BY <1>3, <3>2, <3>4 DEF Charged, Bill!CreateExternal
    <3>8. MadeFor(c, call.org)' /\ \A d, o : MadeFor(d, o) => MadeFor(d, o)'
      BY <3>1, <3>7 DEF MadeFor
    <3>9. Matched([op |-> "insert", is |-> [org |-> call.org, external |-> s.id,
                                            customer |-> c, status |-> "active"]])'
      BY <3>7, <3>8 DEF Matched
    <3> QED
      BY <1>a, <2>2, <3>5, <3>6, <3>7, <3>8, <3>9, BillKeeps DEF Bill!TypeOK
  <2> QED
    BY <1>3, <2>a, <2>1, <2>2 DEF Bill!CreateExternal
<1>4. ASSUME NEW k \in Calls, Bill!InsertRow(k)
      PROVE  BillInv'
  <2>1. /\ billingCall[k].op = "insert" /\ billingCall[k].is \in Bill!Content
        /\ Charged(billingCall[k].is.external, billingCall[k].is.customer)
        /\ MadeFor(billingCall[k].is.customer, billingCall[k].is.org)
    BY <1>4, <1>a, BillCalls DEF Bill!InsertRow, BillInv, Matched
  <2>2. \/ UNCHANGED subscriptions
        \/ \E id \in SubscriptionIds :
             subscriptions' = subscriptions \cup {[id |-> id, is |-> billingCall[k].is]}
    BY <1>4 DEF Bill!InsertRow, Bill!InsertSubscription
  <2>3. Bill!TypeOK'
    BY <1>4, <1>a, <2>1, <2>2, BillCalls DEF Bill!InsertRow, Bill!TypeOK, Bill!Row
  <2>4. \A r \in subscriptions' : r \in subscriptions \/ r.is = billingCall[k].is
    BY <2>2
  <2> QED
    BY <1>4, <1>a, <2>1, <2>3, <2>4, BillKeeps
    DEF Bill!InsertRow, Bill!RetriesCreateOnce, Charged, MadeFor
<1>5. ASSUME NEW k \in Calls, NEW id \in SubscriptionIds, Bill!UpdateSubscription(k, id)
      PROVE  BillInv'
  <2>1. PICK row \in Bill!Row, op \in {"plan", "store"} : Bill!Become(k, [op |-> op, row |-> row])
    BY <1>5, <1>a
    DEF Bill!UpdateSubscription, Bill!GetSubscriptionByID, Bill!TypeOK, Bill!Row, Bill!Content
  <2>2. Bill!TypeOK'
    BY <1>5, <1>a, <2>1, BillCalls DEF Bill!UpdateSubscription, Bill!TypeOK
  <2> QED
    BY <1>5, <1>a, <1>b, <2>1, <2>2, BillKeeps
    DEF Bill!UpdateSubscription, Bill!RetriesCreateOnce, Charged, MadeFor
<1>6. ASSUME NEW k \in Calls, NEW id \in SubscriptionIds, Bill!CancelSubscription(k, id)
      PROVE  BillInv'
  <2>1. PICK row \in Bill!Row : Bill!Become(k, [op |-> "cancel", row |-> row])
    BY <1>6, <1>a DEF Bill!CancelSubscription, Bill!GetSubscriptionByID, Bill!TypeOK
  <2>2. Bill!TypeOK'
    BY <1>6, <1>a, <2>1, BillCalls DEF Bill!CancelSubscription, Bill!TypeOK
  <2> QED
    BY <1>6, <1>a, <1>b, <2>1, <2>2, BillKeeps
    DEF Bill!CancelSubscription, Bill!RetriesCreateOnce, Charged, MadeFor
<1>7. ASSUME NEW k \in Calls, Bill!ChangePlan(k)
      PROVE  BillInv'
  <2>1. PICK row \in Bill!Row : row = billingCall[k].row
    BY <1>7, <1>a, BillCalls DEF Bill!ChangePlan
  <2>2. \/ Bill!Answer(k)
        \/ \E r \in Bill!Row : Bill!Become(k, [op |-> "store", row |-> r])
    BY <1>7, <2>1 DEF Bill!ChangePlan, Bill!Row, Bill!Content
  <2>3. webhooks' \subseteq [external : Externals, status : {"active", "canceled"}]
    BY <1>7, <1>a, <2>1 DEF Bill!ChangePlan, Bill!TypeOK, Bill!Row, Bill!Content
  <2>4. Bill!TypeOK'
    BY <1>7, <1>a, <2>2, <2>3, BillCalls DEF Bill!ChangePlan, Bill!TypeOK
  <2> QED
    BY <1>7, <1>a, <1>b, <2>2, <2>4, BillKeeps
    DEF Bill!ChangePlan, Bill!RetriesCreateOnce, Charged, MadeFor
<1>8. ASSUME NEW k \in Calls, Bill!CancelExternal(k)
      PROVE  BillInv'
  <2>1. PICK row \in Bill!Row : row = billingCall[k].row /\ row.is.external \in Externals
    BY <1>8, <1>a, BillCalls DEF Bill!CancelExternal, Bill!Row, Bill!Content
  <2>2. \/ Bill!Answer(k)
        \/ \E r \in Bill!Row : Bill!Become(k, [op |-> "store", row |-> r])
    BY <1>8, <2>1 DEF Bill!CancelExternal, Bill!Row, Bill!Content
  <2>3. \/ UNCHANGED <<processed, webhooks>>
        \/ Bill!SetStatus(row.is.external, "canceled")
    BY <1>8, <2>1 DEF Bill!CancelExternal
  <2>4. /\ processed' \subseteq Bill!External
        /\ webhooks' \subseteq [external : Externals, status : {"active", "canceled"}]
        /\ \A a, b \in processed' : a.key = b.key => a = b
        /\ \A e, c : Charged(e, c) => Charged(e, c)'
    BY <1>a, <2>1, <2>3, SetStatusKeeps DEF Bill!TypeOK, Bill!RetriesCreateOnce, Charged
  <2>5. Bill!TypeOK'
    BY <1>8, <1>a, <2>2, <2>4, BillCalls DEF Bill!CancelExternal, Bill!TypeOK
  <2> QED
    BY <1>8, <1>a, <1>b, <2>2, <2>4, <2>5, BillKeeps
    DEF Bill!CancelExternal, Bill!RetriesCreateOnce, MadeFor
<1>9. ASSUME NEW k \in Calls, Bill!StoreStatus(k)
      PROVE  BillInv'
  <2>1. PICK row \in Bill!Row : row = billingCall[k].row
    BY <1>9, <1>a, BillCalls DEF Bill!StoreStatus
  <2>2. \A r \in subscriptions' :
          /\ r \in Bill!Row
          /\ \E q \in subscriptions : /\ q.is.external = r.is.external
                                      /\ q.is.customer = r.is.customer
                                      /\ q.is.org = r.is.org
    BY <1>9, <1>a, <2>1
    DEF Bill!StoreStatus, Bill!UpdateRow, Bill!TypeOK, Bill!Row, Bill!Content
  <2>3. Bill!TypeOK'
    BY <1>9, <1>a, <2>2, BillCalls DEF Bill!StoreStatus, Bill!TypeOK
  <2> QED
    BY <1>9, <1>a, <2>2, <2>3, BillKeeps
    DEF Bill!StoreStatus, Bill!RetriesCreateOnce, Charged, MadeFor
<1>10. ASSUME NEW s \in processed, Bill!ProcessorCancels(s)
      PROVE  BillInv'
  <2>1. s.id \in Externals
    BY <1>a DEF Bill!TypeOK, Bill!External
  <2>2. /\ processed' \subseteq Bill!External
        /\ webhooks' \subseteq [external : Externals, status : {"active", "canceled"}]
        /\ \A a, b \in processed' : a.key = b.key => a = b
        /\ \A e, c : Charged(e, c) => Charged(e, c)'
    BY <1>10, <2>1, SetStatusKeeps DEF Bill!ProcessorCancels
  <2>3. Bill!TypeOK'
    BY <1>10, <1>a, <2>2 DEF Bill!ProcessorCancels, Bill!TypeOK
  <2> QED
    BY <1>10, <1>a, <2>2, <2>3, BillKeeps
    DEF Bill!ProcessorCancels, Bill!RetriesCreateOnce, MadeFor
<1>11. ASSUME NEW e \in webhooks, Bill!StripeWebhook(e)
      PROVE  BillInv'
  <2>1. e.status \in {"active", "canceled"} /\ webhooks' \subseteq webhooks
    BY <1>11, <1>a DEF Bill!StripeWebhook, Bill!TypeOK
  <2>2. \A r \in subscriptions' :
          /\ r \in Bill!Row
          /\ \E q \in subscriptions : /\ q.is.external = r.is.external
                                      /\ q.is.customer = r.is.customer
                                      /\ q.is.org = r.is.org
    BY <1>11, <1>a, <2>1
    DEF Bill!StripeWebhook, Bill!UpdateStatusByExternalID, Bill!TypeOK, Bill!Row, Bill!Content
  <2>3. Bill!TypeOK'
    BY <1>11, <1>a, <2>1, <2>2 DEF Bill!StripeWebhook, Bill!TypeOK
  <2> QED
    BY <1>11, <1>a, <2>2, <2>3, BillKeeps
    DEF Bill!StripeWebhook, Bill!RetriesCreateOnce, Charged, MadeFor
<1>12. CASE Bill!Restart
  <2>1. Bill!TypeOK'
    BY <1>12, <1>a, BillCalls DEF Bill!Restart, Bill!TypeOK
  <2> QED
    BY <1>12, <1>a, <2>1, BillKeeps DEF Bill!Restart, Bill!RetriesCreateOnce, Charged, MadeFor
<1>13. CASE UNCHANGED billingVars
  <2>1. Bill!TypeOK'
    BY <1>13, <1>a DEF billingVars, Bill!TypeOK
  <2> QED
    BY <1>13, <1>a, <2>1, BillKeeps DEF billingVars, Bill!RetriesCreateOnce, Charged, MadeFor
<1> QED
  BY <1>1, <1>2, <1>3, <1>4, <1>5, <1>6, <1>7, <1>8, <1>9, <1>10, <1>11, <1>12, <1>13
  DEF Bill!Next

\* What RowsKeepTheirSubscription asks of a step.
BillStands ==
  /\ \A s \in processed : \E t \in processed' :
       /\ t.id = s.id /\ t.customer = s.customer /\ t.key = s.key
       /\ s.status = "canceled" => t.status = "canceled"
  /\ \A r \in subscriptions : \E q \in subscriptions' :
       /\ q.id = r.id /\ q.is.org = r.is.org
       /\ q.is.external = r.is.external /\ q.is.customer = r.is.customer

\* A cancellation is the only change of status at the processor, and an UPDATE
\* writes nothing of a row but its status.
LEMMA BillStays == BillInv /\ [Bill!Next]_billingVars => BillStands
<1> SUFFICES ASSUME BillInv, [Bill!Next]_billingVars PROVE BillStands
  OBVIOUS
<1> USE DEF Bill!Become, Bill!Answer
<1>a. processed \subseteq Bill!External /\ subscriptions \subseteq Bill!Row
  BY DEF BillInv, Bill!TypeOK
<1>1. ASSUME NEW external, Bill!SetStatus(external, "canceled"), UNCHANGED subscriptions
      PROVE  BillStands
  <2> DEFINE set(s) == IF s.id = external THEN [s EXCEPT !.status = "canceled"] ELSE s
  <2>1. \A s \in processed :
          /\ set(s).id = s.id /\ set(s).customer = s.customer /\ set(s).key = s.key
          /\ s.status = "canceled" => set(s).status = "canceled"
    BY <1>a DEF Bill!External
  <2>2. processed' = {set(s) : s \in processed}
    BY <1>1 DEF Bill!SetStatus
  <2> HIDE DEF set
  <2> QED
    BY <1>1, <2>1, <2>2 DEF BillStands
<1>2. ASSUME NEW row, Bill!UpdateRow(row), UNCHANGED processed
      PROVE  BillStands
  <2> DEFINE upd(r) == IF r.id = row.id /\ r.is.org = row.is.org
                         THEN [r EXCEPT !.is.status = row.is.status] ELSE r
  <2>1. \A r \in subscriptions :
          /\ upd(r).id = r.id /\ upd(r).is.org = r.is.org
          /\ upd(r).is.external = r.is.external /\ upd(r).is.customer = r.is.customer
    BY <1>a DEF Bill!Row, Bill!Content
  <2>2. subscriptions' = {upd(r) : r \in subscriptions}
    BY <1>2 DEF Bill!UpdateRow
  <2> HIDE DEF upd
  <2> QED
    BY <1>2, <2>1, <2>2 DEF BillStands
<1>3. ASSUME NEW external, NEW status, Bill!UpdateStatusByExternalID(external, status),
             UNCHANGED processed
      PROVE  BillStands
  <2> DEFINE upd(r) == IF r.is.external = external THEN [r EXCEPT !.is.status = status] ELSE r
  <2>1. \A r \in subscriptions :
          /\ upd(r).id = r.id /\ upd(r).is.org = r.is.org
          /\ upd(r).is.external = r.is.external /\ upd(r).is.customer = r.is.customer
    BY <1>a DEF Bill!Row, Bill!Content
  <2>2. subscriptions' = {upd(r) : r \in subscriptions}
    BY <1>3 DEF Bill!UpdateStatusByExternalID
  <2> HIDE DEF upd
  <2> QED
    BY <1>3, <2>1, <2>2 DEF BillStands
<1>4. CASE processed \subseteq processed' /\ subscriptions \subseteq subscriptions'
  BY <1>4 DEF BillStands
<1>5. ASSUME NEW k \in Calls,
             \/ \E o \in BilledOrgs, key \in RetryKeys : Bill!CreateSubscription(k, o, key)
             \/ Bill!CreateCustomer(k) \/ Bill!CreateExternal(k) \/ Bill!InsertRow(k)
             \/ \E id \in SubscriptionIds :
                  Bill!UpdateSubscription(k, id) \/ Bill!CancelSubscription(k, id)
             \/ Bill!ChangePlan(k)
      PROVE  BillStands
  <2>1. CASE Bill!CreateExternal(k)
    <3>1. UNCHANGED subscriptions /\ processed \subseteq processed'
      BY <2>1 DEF Bill!CreateExternal
    <3> QED
      BY <1>4, <3>1
  <2>2. CASE Bill!InsertRow(k)
    <3>1. UNCHANGED processed /\ subscriptions \subseteq subscriptions'
      BY <2>2 DEF Bill!InsertRow, Bill!InsertSubscription
    <3> QED
      BY <1>4, <3>1
  <2>3. CASE Bill!CreateCustomer(k) \/ Bill!ChangePlan(k)
    <3>1. Bill!CreateCustomer(k) => UNCHANGED <<processed, subscriptions>>
      BY ZenonT(30) DEF Bill!CreateCustomer
    <3>2. Bill!ChangePlan(k) => UNCHANGED <<processed, subscriptions>>
      BY ZenonT(30) DEF Bill!ChangePlan
    <3> QED
      BY <1>4, <2>3, <3>1, <3>2
  <2>4. ASSUME NEW id \in SubscriptionIds,
               Bill!UpdateSubscription(k, id) \/ Bill!CancelSubscription(k, id)
        PROVE  BillStands
    <3>1. UNCHANGED <<processed, subscriptions>>
      BY <2>4 DEF Bill!UpdateSubscription, Bill!CancelSubscription
    <3> QED
      BY <1>4, <3>1
  <2>5. ASSUME NEW o \in BilledOrgs, NEW key \in RetryKeys, Bill!CreateSubscription(k, o, key)
        PROVE  BillStands
    <3>1. UNCHANGED <<processed, subscriptions>>
      BY <2>5 DEF Bill!CreateSubscription
    <3> QED
      BY <1>4, <3>1
  <2> QED
    BY <1>5, <2>1, <2>2, <2>3, <2>4, <2>5
<1>6. ASSUME NEW k \in Calls, Bill!CancelExternal(k)
      PROVE  BillStands
  BY <1>1, <1>4, <1>6 DEF Bill!CancelExternal
<1>7. ASSUME NEW k \in Calls, Bill!StoreStatus(k)
      PROVE  BillStands
  BY <1>2, <1>4, <1>7 DEF Bill!StoreStatus
<1>8. ASSUME NEW s \in processed, Bill!ProcessorCancels(s)
      PROVE  BillStands
  BY <1>1, <1>8 DEF Bill!ProcessorCancels
<1>9. ASSUME NEW e \in webhooks, Bill!StripeWebhook(e)
      PROVE  BillStands
  BY <1>3, <1>4, <1>9 DEF Bill!StripeWebhook
<1>10. CASE Bill!Restart \/ UNCHANGED billingVars
  BY <1>4, <1>10 DEF Bill!Restart, billingVars
<1> QED
  BY <1>5, <1>6, <1>7, <1>8, <1>9, <1>10 DEF Bill!Next

-----------------------------------------------------------------------------
(* notification-service *)

\* What a row, or a row about to be written, claims has happened.
Claimed(row) ==
  row.channel # "in_app" /\ row.status \in {"sent", "delivered"} => row.id \in accepted

\* A token in hand was good for more than the skew when it was got, and at
\* most one tick has passed since.
Honest(call) ==
  /\ call.op = "insert" => Claimed(call.row)
  /\ call.op = "push" => call.token + call.held > RefreshSkew

\* The inductive invariant.
NotifyInv ==
  /\ Notify!TypeOK
  /\ \A n \in notifications : Claimed(n)
  /\ \A k \in Calls : Honest(notifyCall[k])

\* What the op of a call says of its fields.
LEMMA NotifyCalls ==
  /\ Notify!Idle \in Notify!Call
  /\ \A op \in {"deliver", "insert"}, row \in Notify!Row :
       [op |-> op, row |-> row] \in Notify!Call
  /\ \A row \in Notify!Row, left \in 0 .. TokenLife, held \in {0, 1} :
       [op |-> "push", row |-> row, token |-> left, held |-> held] \in Notify!Call
  /\ \A op \in {"read", "delete"}, u \in Recipients, id \in RowIds :
       [op |-> op, by |-> u, id |-> id] \in Notify!Call
  /\ \A u \in Recipients : [op |-> "list", by |-> u] \in Notify!Call
  /\ \A c \in Notify!Call :
       /\ c.op \in {"deliver", "insert", "push"} => c.row \in Notify!Row
       /\ c.op = "push" => c \in [op : {"push"}, row : Notify!Row, token : 0 .. TokenLife,
                                  held : {0, 1}]
  BY DEF Notify!Call, Notify!Idle

\* The strengthening implies what it is for.
LEMMA NotifyImplies ==
  NotifyInv => Notify!SuccessIsReal /\ Notify!PushesCarryLiveTokens
<1> SUFFICES ASSUME NotifyInv PROVE Notify!SuccessIsReal /\ Notify!PushesCarryLiveTokens
  OBVIOUS
<1>1. Notify!SuccessIsReal
  BY DEF NotifyInv, Notify!SuccessIsReal, Claimed
<1>2. ASSUME NEW k \in Calls, notifyCall[k].op = "push"
      PROVE  notifyCall[k].token > 0
  <2>1. /\ notifyCall[k].token \in Nat /\ notifyCall[k].held \in {0, 1}
        /\ notifyCall[k].token + notifyCall[k].held > RefreshSkew
    BY <1>2, NotifyCalls, OutsideAssumption DEF NotifyInv, Notify!TypeOK, Honest
  <2> QED
    BY <2>1, OutsideAssumption
<1> QED
  BY <1>1, <1>2 DEF Notify!PushesCarryLiveTokens

\* It holds when nothing has been asked for.
LEMMA NotifyStart == Notify!Init => NotifyInv
  BY NotifyCalls, OutsideAssumption DEF Notify!Init, NotifyInv, Notify!TypeOK, Honest, Notify!Idle

\* Nothing accepted is forgotten, and what is new keeps its word.
LEMMA NotifyKeeps ==
  ASSUME NotifyInv, Notify!TypeOK', accepted \subseteq accepted',
         \A n \in notifications' :
           \/ Claimed(n)'
           \/ \E m \in notifications :
                m.id = n.id /\ m.channel = n.channel /\ m.status = n.status,
         \A k \in Calls : notifyCall'[k] = notifyCall[k] \/ Honest(notifyCall[k])'
  PROVE  NotifyInv'
<1>1. \A k \in Calls : Honest(notifyCall[k])'
  BY DEF NotifyInv, Honest, Claimed
<1>2. \A n \in notifications' : Claimed(n)'
  BY DEF NotifyInv, Claimed
<1> QED
  BY <1>1, <1>2 DEF NotifyInv


\* A delivery ends with what has happened to its message.
LEMMA OutcomeKeeps ==
  ASSUME NotifyInv, NEW k \in Calls, notifyCall[k].op \in {"deliver", "push"},
         NEW status \in Notify!Statuses, Notify!Outcome(k, status),
         UNCHANGED <<notifications, preferences, sender>>,
         mailing' \subseteq RowIds, fcmToken' \in 0 .. TokenLife,
         accepted' \subseteq RowIds, accepted \subseteq accepted',
         status \in {"sent", "delivered"} => notifyCall[k].row.id \in accepted'
  PROVE  NotifyInv'
<1>1. notifyCall[k].row \in Notify!Row /\ notifyCall \in [Calls -> Notify!Call]
  BY NotifyCalls DEF NotifyInv, Notify!TypeOK
<1> DEFINE row == [notifyCall[k].row EXCEPT !.status = status]
           next == [op |-> "insert", row |-> row]
<1>2. row \in Notify!Row /\ row.id = notifyCall[k].row.id /\ row.status = status
  BY <1>1 DEF Notify!Row
<1>3. notifyCall' = [notifyCall EXCEPT ![k] = next]
  BY DEF Notify!Outcome, Notify!Become
<1> HIDE DEF row
<1>4. next \in Notify!Call /\ next.op = "insert" /\ next.row = row
  BY <1>2, NotifyCalls
<1> HIDE DEF next
<1>5. Notify!TypeOK'
  BY <1>1, <1>3, <1>4 DEF NotifyInv, Notify!TypeOK
<1>6. \A j \in Calls : notifyCall'[j] = notifyCall[j] \/ Honest(notifyCall[j])'
  BY <1>1, <1>2, <1>3, <1>4 DEF Honest, Claimed
<1> QED
  BY <1>5, <1>6, NotifyKeeps DEF NotifyInv

\* What a transport may answer.
LEMMA SendKeeps ==
  ASSUME NotifyInv, NEW k \in Calls, notifyCall[k].op \in {"deliver", "push"},
         NEW good \in Notify!Statuses, Notify!Send(k, good),
         UNCHANGED <<notifications, preferences, sender, mailing, fcmToken>>
  PROVE  NotifyInv'
<1>1. notifyCall[k].row \in Notify!Row /\ notifyCall[k].row.id \in RowIds
  BY NotifyCalls DEF NotifyInv, Notify!TypeOK, Notify!Row
<1>2. /\ accepted \subseteq accepted' /\ accepted' \subseteq RowIds
      /\ mailing' \subseteq RowIds /\ fcmToken' \in 0 .. TokenLife
  BY <1>1 DEF NotifyInv, Notify!TypeOK, Notify!Send
<1>3. \E status \in {"failed", good} :
        /\ Notify!Outcome(k, status)
        /\ status = good /\ status # "failed" => notifyCall[k].row.id \in accepted'
  BY DEF Notify!Send
<1>4. PICK status \in {"failed", good} :
        /\ Notify!Outcome(k, status)
        /\ status = "failed" \/ notifyCall[k].row.id \in accepted'
  BY <1>3
<1> QED
  BY <1>2, <1>4, OutcomeKeeps DEF Notify!Statuses

\* A request that ends, or that holds no row yet.
LEMMA NotifyQuiet ==
  ASSUME NotifyInv, NEW k \in Calls, NEW next \in Notify!Call, Notify!Become(k, next),
         next.op \notin {"insert", "push"}, Notify!TypeOK', accepted \subseteq accepted',
         \A n \in notifications' :
           \E m \in notifications : m.id = n.id /\ m.channel = n.channel /\ m.status = n.status
  PROVE  NotifyInv'
  BY NotifyKeeps DEF NotifyInv, Notify!TypeOK, Notify!Become, Honest

\* It is inductive: one step for each action.
LEMMA NotifyStep == NotifyInv /\ [Notify!Next]_notifyVars => NotifyInv'
<1> SUFFICES ASSUME NotifyInv, [Notify!Next]_notifyVars PROVE NotifyInv'
  OBVIOUS
<1> USE DEF Notify!tableVars, Notify!deliveryVars
<1>a. /\ Notify!TypeOK /\ notifyCall \in [Calls -> Notify!Call]
      /\ \A k \in Calls : notifyCall[k] \in Notify!Call
      /\ Notify!Idle \in Notify!Call /\ Notify!Idle.op = "none"
  BY NotifyCalls DEF NotifyInv, Notify!TypeOK, Notify!Idle
<1>b. {"pending", "sent", "delivered", "failed", "pending_provider_unconfigured"}
         \subseteq Notify!Statuses
  BY DEF Notify!Statuses
<1>1. ASSUME NEW k \in Calls, NEW u \in Recipients, NEW channel \in Notify!Channels,
             Notify!CreateNotification(k, u, channel, "pending")
      PROVE  NotifyInv'
  <2>1. PICK id \in Notify!FreshIds :
          /\ Notify!Become(k, [op |-> IF channel = "in_app" THEN "insert" ELSE "deliver",
                               row |-> [id |-> id, user |-> u, channel |-> channel,
                                        status |-> "pending", read |-> FALSE]])
          /\ accepted' = accepted \ {id}
    BY <1>1 DEF Notify!CreateNotification
  <2> DEFINE row == [id |-> id, user |-> u, channel |-> channel, status |-> "pending",
                     read |-> FALSE]
             next == [op |-> IF channel = "in_app" THEN "insert" ELSE "deliver", row |-> row]
  <2>2. row \in Notify!Row /\ row.status = "pending"
    BY <1>b, <2>1 DEF Notify!Row, Notify!FreshIds
  <2> HIDE DEF row
  <2>3. next \in Notify!Call /\ next.op \in {"insert", "deliver"} /\ next.row = row
    BY <2>2, NotifyCalls
  <2>4. notifyCall' = [notifyCall EXCEPT ![k] = next]
    BY <2>1 DEF Notify!Become, row
  <2> HIDE DEF next
  <2>5. UNCHANGED <<notifications, preferences, sender, mailing, fcmToken>>
    BY <1>1 DEF Notify!CreateNotification
  <2>6. Notify!TypeOK'
    BY <1>a, <2>1, <2>3, <2>4, <2>5 DEF Notify!TypeOK
  <2>7. \A n \in notifications : n.id # id
    BY <2>1 DEF Notify!FreshIds
  <2>8. \A j \in Calls :
          notifyCall[j].op = "insert" => notifyCall[j].row.id # id
    BY <2>1 DEF Notify!FreshIds, Notify!HeldIds
  <2>9. \A n \in notifications' : Claimed(n)'
    BY <2>1, <2>5, <2>7 DEF NotifyInv, Claimed
  <2>10. ASSUME NEW j \in Calls PROVE Honest(notifyCall[j])'
    <3>1. CASE j = k
      BY <1>a, <2>2, <2>3, <2>4, <3>1 DEF Honest, Claimed
    <3>2. CASE j # k
      BY <1>a, <2>1, <2>4, <2>8, <3>2 DEF NotifyInv, Honest, Claimed
    <3> QED
      BY <3>1, <3>2
  <2> QED
    BY <2>6, <2>9, <2>10 DEF NotifyInv
<1>2. ASSUME NEW k \in Calls, Notify!DeliverEmail(k)
      PROVE  NotifyInv'
  <2>1. /\ notifyCall[k].op = "deliver" /\ notifyCall[k].row.id \in RowIds
        /\ UNCHANGED <<notifications, preferences, sender, fcmToken>>
    BY <1>2, <1>a, NotifyCalls DEF Notify!DeliverEmail, Notify!Delivering, Notify!Row
  <2>2. CASE Notify!Outcome(k, "failed") /\ UNCHANGED <<mailing, accepted>>
    BY <1>a, <1>b, <2>1, <2>2, OutcomeKeeps DEF Notify!TypeOK
  <2>3. CASE Notify!Send(k, "sent") /\ UNCHANGED mailing
    BY <1>a, <1>b, <2>1, <2>3, SendKeeps
  <2>4. CASE /\ mailing' = mailing \cup {notifyCall[k].row.id}
             /\ Notify!Answer(k) /\ UNCHANGED accepted
    <3>1. Notify!TypeOK'
      BY <1>a, <2>1, <2>4 DEF Notify!TypeOK, Notify!Answer, Notify!Become
    <3> QED
      BY <1>a, <2>1, <2>4, <3>1, NotifyQuiet DEF Notify!Answer
  <2> QED
    BY <1>2, <2>2, <2>3, <2>4 DEF Notify!DeliverEmail
<1>3. ASSUME NEW k \in Calls, Notify!DeliverWebhook(k)
      PROVE  NotifyInv'
  BY <1>3, <1>b, SendKeeps DEF Notify!DeliverWebhook, Notify!Delivering
<1>4. ASSUME NEW k \in Calls, Notify!DeliverSlack(k)
      PROVE  NotifyInv'
  <2>1. /\ notifyCall[k].op = "deliver"
        /\ UNCHANGED <<notifications, preferences, sender, mailing, fcmToken>>
    BY <1>4 DEF Notify!DeliverSlack, Notify!Delivering
  <2>2. CASE Notify!Outcome(k, "pending_provider_unconfigured") /\ UNCHANGED accepted
    BY <1>a, <1>b, <2>1, <2>2, OutcomeKeeps DEF Notify!TypeOK
  <2>3. CASE Notify!Send(k, "sent")
    BY <1>b, <2>1, <2>3, SendKeeps
  <2> QED
    BY <1>4, <2>2, <2>3 DEF Notify!DeliverSlack
<1>5. ASSUME NEW k \in Calls, Notify!DeliverPush(k)
      PROVE  NotifyInv'
  <2>1. /\ notifyCall[k].op = "deliver" /\ notifyCall[k].row \in Notify!Row
        /\ UNCHANGED <<notifications, preferences, sender, mailing, accepted>>
    BY <1>5, <1>a, NotifyCalls DEF Notify!DeliverPush, Notify!Delivering
  <2>2. CASE /\ \E status \in {"failed", "pending_provider_unconfigured"} :
                  Notify!Outcome(k, status)
             /\ UNCHANGED fcmToken
    BY <1>a, <1>b, <2>1, <2>2, OutcomeKeeps DEF Notify!TypeOK
  <2>3. CASE /\ fcmToken' = Notify!AccessToken
             /\ Notify!Become(k, [op |-> "push", row |-> notifyCall[k].row,
                                  token |-> Notify!AccessToken, held |-> 0])
    <3>1. Notify!AccessToken \in 0 .. TokenLife /\ Notify!AccessToken > RefreshSkew
      BY <1>a, OutsideAssumption DEF Notify!AccessToken, Notify!Cached, Notify!TypeOK
    <3> DEFINE next == [op |-> "push", row |-> notifyCall[k].row,
                        token |-> Notify!AccessToken, held |-> 0]
    <3>2. /\ next \in Notify!Call /\ next.op = "push"
          /\ next.token + next.held > RefreshSkew
      <4>1. next \in Notify!Call
        BY <2>1, <3>1, NotifyCalls
      <4>2. next.op = "push" /\ next.token = Notify!AccessToken /\ next.held = 0
        OBVIOUS
      <4> HIDE DEF next
      <4> QED
        BY <3>1, <4>1, <4>2, OutsideAssumption
    <3>3. notifyCall' = [notifyCall EXCEPT ![k] = next]
      BY <2>3 DEF Notify!Become
    <3> HIDE DEF next
    <3>4. Notify!TypeOK'
      BY <1>a, <2>1, <2>3, <3>1, <3>2, <3>3 DEF Notify!TypeOK
    <3>5. \A j \in Calls : notifyCall'[j] = notifyCall[j] \/ Honest(notifyCall[j])'
      BY <1>a, <3>2, <3>3 DEF Honest
    <3> QED
      BY <2>1, <3>4, <3>5, NotifyKeeps DEF NotifyInv
  <2> QED
    BY <1>5, <2>2, <2>3 DEF Notify!DeliverPush
<1>6. ASSUME NEW k \in Calls, Notify!PushSend(k)
      PROVE  NotifyInv'
  BY <1>6, <1>b, SendKeeps DEF Notify!PushSend
<1>7. ASSUME NEW k \in Calls, Notify!InsertNotification(k)
      PROVE  NotifyInv'
  <2>1. /\ notifyCall[k].row \in Notify!Row /\ Claimed(notifyCall[k].row)
        /\ notifications' \in {notifications, notifications \cup {notifyCall[k].row}}
        /\ Notify!Answer(k)
        /\ UNCHANGED <<preferences, sender, mailing, accepted, fcmToken>>
    BY <1>7, <1>a, NotifyCalls DEF Notify!InsertNotification, NotifyInv, Honest
  <2>2. Notify!TypeOK'
    BY <1>a, <2>1 DEF Notify!TypeOK, Notify!Answer, Notify!Become
  <2>3. \A n \in notifications' : Claimed(n)'
    BY <2>1 DEF NotifyInv, Claimed
  <2>4. \A j \in Calls : notifyCall'[j] = notifyCall[j] \/ Honest(notifyCall[j])'
    BY <1>a, <2>1 DEF Honest, Notify!Answer, Notify!Become
  <2> QED
    BY <2>1, <2>2, <2>3, <2>4, NotifyKeeps
<1>8. ASSUME NEW k \in Calls, Notify!MarkRead(k)
      PROVE  NotifyInv'
  <2> DEFINE mark(n) == IF n.id = notifyCall[k].id /\ n.user = notifyCall[k].by
                          THEN [n EXCEPT !.read = TRUE] ELSE n
  <2>1. \A n \in notifications : /\ mark(n) \in Notify!Row /\ mark(n).id = n.id
                                 /\ mark(n).channel = n.channel /\ mark(n).status = n.status
    BY <1>a DEF Notify!TypeOK, Notify!Row
  <2>2. notifications' = {mark(n) : n \in notifications}
    BY <1>8 DEF Notify!MarkRead
  <2> HIDE DEF mark
  <2>3. Notify!Become(k, Notify!Idle) /\ UNCHANGED <<preferences, sender, mailing, accepted, fcmToken>>
    BY <1>8 DEF Notify!MarkRead, Notify!Answer
  <2>4. Notify!TypeOK'
    BY <1>a, <2>1, <2>2, <2>3 DEF Notify!TypeOK, Notify!Become
  <2> QED
    BY <1>a, <2>1, <2>2, <2>3, <2>4, NotifyQuiet
<1>9. ASSUME NEW k \in Calls, NEW u \in Recipients, Notify!MarkAllRead(k, u)
      PROVE  NotifyInv'
  <2> DEFINE mark(n) == IF n.user = u THEN [n EXCEPT !.read = TRUE] ELSE n
  <2>1. \A n \in notifications : /\ mark(n) \in Notify!Row /\ mark(n).id = n.id
                                 /\ mark(n).channel = n.channel /\ mark(n).status = n.status
    BY <1>a DEF Notify!TypeOK, Notify!Row
  <2>2. notifications' = {mark(n) : n \in notifications}
    BY <1>9 DEF Notify!MarkAllRead
  <2> HIDE DEF mark
  <2>3. UNCHANGED <<preferences, notifyCall, sender, mailing, accepted, fcmToken>>
    BY <1>9 DEF Notify!MarkAllRead
  <2>4. Notify!TypeOK'
    BY <1>a, <2>1, <2>2, <2>3 DEF Notify!TypeOK
  <2> QED
    BY <2>1, <2>2, <2>3, <2>4, NotifyKeeps
<1>10. ASSUME NEW k \in Calls, Notify!DeleteNotification(k) \/ Notify!ListPage(k)
      PROVE  NotifyInv'
  <2>1. /\ notifications' \subseteq notifications /\ Notify!Become(k, Notify!Idle)
        /\ UNCHANGED <<preferences, sender, mailing, accepted, fcmToken>>
    BY <1>10 DEF Notify!DeleteNotification, Notify!ListPage, Notify!Answer
  <2>2. Notify!TypeOK'
    BY <1>a, <2>1 DEF Notify!TypeOK, Notify!Become
  <2> QED
    BY <1>a, <2>1, <2>2, NotifyQuiet
<1>11. ASSUME NEW k \in Calls, NEW u \in Recipients,
              \/ Notify!ListNotifications(k, u)
              \/ \E op \in {"read", "delete"}, id \in RowIds : Notify!Scope(k, u, op, id)
      PROVE  NotifyInv'
  <2>1. PICK next \in Notify!Call :
          Notify!Become(k, next) /\ next.op \in {"list", "read", "delete"}
    BY <1>11, NotifyCalls DEF Notify!ListNotifications, Notify!Scope
  <2>2. UNCHANGED <<notifications, preferences, sender, mailing, accepted, fcmToken>>
    BY <1>11 DEF Notify!ListNotifications, Notify!Scope
  <2>3. Notify!TypeOK'
    BY <1>a, <2>1, <2>2 DEF Notify!TypeOK, Notify!Become
  <2> QED
    BY <2>1, <2>2, <2>3, NotifyQuiet
<1>12. ASSUME NEW k \in Calls, NEW u \in Recipients, Notify!UpdatePreference(k, u)
      PROVE  NotifyInv'
  <2>1. Notify!TypeOK'
    BY <1>12, <1>a DEF Notify!UpdatePreference, Notify!TypeOK
  <2> QED
    BY <1>12, <2>1, NotifyKeeps DEF Notify!UpdatePreference, NotifyInv
<1>13. ASSUME NEW id \in mailing, Notify!MailGoesOut(id)
      PROVE  NotifyInv'
  <2>1. Notify!TypeOK' /\ accepted \subseteq accepted'
    BY <1>13, <1>a DEF Notify!MailGoesOut, Notify!TypeOK
  <2> QED
    BY <1>13, <2>1, NotifyKeeps DEF Notify!MailGoesOut
<1>14. CASE Notify!Tick
  <2> DEFINE ticked(c) == [c EXCEPT !.held = 1, !.token = IF @ = 0 THEN 0 ELSE @ - 1]
  <2>0. \A t \in 0 .. TokenLife : (IF t = 0 THEN 0 ELSE t - 1) \in 0 .. TokenLife
    BY OutsideAssumption
  <2>1. \A k \in Calls : notifyCall[k].op = "push" =>
          /\ ticked(notifyCall[k]) \in Notify!Call
          /\ ticked(notifyCall[k]).op = "push"
          /\ ticked(notifyCall[k]).token + ticked(notifyCall[k]).held > RefreshSkew
    <3> SUFFICES ASSUME NEW k \in Calls, notifyCall[k].op = "push"
                 PROVE  /\ ticked(notifyCall[k]) \in Notify!Call
                        /\ ticked(notifyCall[k]).op = "push"
                        /\ ticked(notifyCall[k]).token + ticked(notifyCall[k]).held
                             > RefreshSkew
      OBVIOUS
    <3>1. /\ notifyCall[k] \in [op : {"push"}, row : Notify!Row, token : 0 .. TokenLife,
                                held : {0, 1}]
          /\ notifyCall[k].token + notifyCall[k].held > RefreshSkew
      BY <1>a, NotifyCalls DEF NotifyInv, Honest
    <3>2. notifyCall[k].held = 0
      BY <1>14 DEF Notify!Tick
    <3>3. ticked(notifyCall[k]) \in [op : {"push"}, row : Notify!Row, token : 0 .. TokenLife,
                                     held : {0, 1}]
      <4> DEFINE less == IF notifyCall[k].token = 0 THEN 0 ELSE notifyCall[k].token - 1
      <4>1. less \in 0 .. TokenLife
        BY <3>1, <2>0
      <4>2. ticked(notifyCall[k]) = [notifyCall[k] EXCEPT !.held = 1, !.token = less]
        OBVIOUS
      <4> HIDE DEF less, ticked
      <4> QED
        BY <3>1, <4>1, <4>2
    <3>4. /\ ticked(notifyCall[k]).token = notifyCall[k].token - 1
          /\ ticked(notifyCall[k]).held = 1
      BY <3>1, <3>2, OutsideAssumption
    <3> HIDE DEF ticked
    <3> QED
      BY <3>1, <3>2, <3>3, <3>4, OutsideAssumption DEF Notify!Call
  <2>2. notifyCall' = [k \in Calls |-> IF notifyCall[k].op = "push"
                                         THEN ticked(notifyCall[k]) ELSE notifyCall[k]]
    BY <1>14 DEF Notify!Tick
  <2> HIDE DEF ticked
  <2>3. fcmToken' \in 0 .. TokenLife
    <3>1. fcmToken \in 0 .. TokenLife
      BY <1>a DEF Notify!TypeOK
    <3>2. fcmToken' = IF fcmToken = 0 THEN 0 ELSE fcmToken - 1
      BY <1>14 DEF Notify!Tick
    <3> QED
      BY <2>0, <3>1, <3>2
  <2>4. UNCHANGED <<notifications, preferences, sender, mailing, accepted>>
    BY <1>14 DEF Notify!Tick
  <2>5. Notify!TypeOK'
    BY <1>a, <2>1, <2>2, <2>3, <2>4 DEF Notify!TypeOK
  <2>6. \A k \in Calls : notifyCall'[k] = notifyCall[k] \/ Honest(notifyCall[k])'
    BY <2>1, <2>2 DEF Honest
  <2> QED
    BY <2>4, <2>5, <2>6, NotifyKeeps DEF NotifyInv
<1>15. CASE Notify!Restart
  <2>1. Notify!TypeOK'
    BY <1>15, <1>a, OutsideAssumption DEF Notify!Restart, Notify!TypeOK
  <2> QED
    BY <1>15, <1>a, <2>1, NotifyKeeps DEF Notify!Restart, Honest, NotifyInv
<1>16. CASE UNCHANGED notifyVars
  <2>1. Notify!TypeOK'
    BY <1>16, <1>a DEF notifyVars, Notify!TypeOK
  <2> QED
    BY <1>16, <2>1, NotifyKeeps DEF notifyVars
<1> QED
  BY <1>1, <1>2, <1>3, <1>4, <1>5, <1>6, <1>7, <1>8, <1>9, <1>10, <1>11, <1>12, <1>13, <1>14,
     <1>15, <1>16
  DEF Notify!Next

\* The request holds the row it is going to insert.
Holds(k, id) ==
  notifyCall[k].op \in {"deliver", "insert", "push"} /\ notifyCall[k].row.id = id

\* A row's id is its own, and of no row that is still to come.
RowInv ==
  /\ \A n, m \in notifications : n.id = m.id => n = m
  /\ \A k \in Calls, n \in notifications : ~Holds(k, n.id)
  /\ \A j, k \in Calls, id \in RowIds : Holds(j, id) /\ Holds(k, id) => j = k

\* It holds of an empty table.
LEMMA RowStart == Notify!Init => RowInv
  BY DEF Notify!Init, RowInv, Holds, Notify!Idle

\* No row is new, and no request holds one it did not hold.
LEMMA RowKeeps ==
  ASSUME RowInv,
         \A n, m \in notifications' : n.id = m.id => n = m,
         \A n \in notifications' : \E m \in notifications : m.id = n.id,
         \A k \in Calls : \A id : Holds(k, id)' => Holds(k, id)
  PROVE  RowInv'
  BY DEF RowInv

\* An outcome, or a push, is of the row that the request held before.
LEMMA OutcomeHolds ==
  ASSUME NotifyInv, RowInv, UNCHANGED notifications, NEW k \in Calls,
         notifyCall[k].op \in {"deliver", "push"},
         NEW next, notifyCall' = [notifyCall EXCEPT ![k] = next],
         next.op \in {"deliver", "insert", "push"} => next.row.id = notifyCall[k].row.id
  PROVE  RowInv'
<1>1. \A j \in Calls : notifyCall'[j] = IF j = k THEN next ELSE notifyCall[j]
  BY DEF NotifyInv, Notify!TypeOK
<1>2. \A j \in Calls : \A id : Holds(j, id)' => Holds(j, id)
  BY <1>1 DEF Holds
<1> QED
  BY <1>2, RowKeeps DEF RowInv

\* A call of a transport comes to an outcome.
LEMMA SendHolds ==
  ASSUME NotifyInv, RowInv, UNCHANGED notifications, NEW k \in Calls,
         notifyCall[k].op \in {"deliver", "push"},
         NEW status, Notify!Outcome(k, status)
  PROVE  RowInv'
<1> DEFINE row == [notifyCall[k].row EXCEPT !.status = status]
           next == [op |-> "insert", row |-> row]
<1>1. notifyCall[k].row \in Notify!Row
  BY NotifyCalls DEF NotifyInv, Notify!TypeOK
<1>2. row.id = notifyCall[k].row.id
  BY <1>1 DEF Notify!Row
<1>3. notifyCall' = [notifyCall EXCEPT ![k] = next]
  BY DEF Notify!Outcome, Notify!Become
<1> HIDE DEF row
<1>4. next.op = "insert" /\ next.row = row
  OBVIOUS
<1> HIDE DEF next
<1> QED
  BY <1>2, <1>3, <1>4, OutcomeHolds

\* It is inductive: one step for each action.
LEMMA RowStep == NotifyInv /\ RowInv /\ [Notify!Next]_notifyVars => RowInv'
<1> SUFFICES ASSUME NotifyInv, RowInv, [Notify!Next]_notifyVars PROVE RowInv'
  OBVIOUS
<1> USE DEF Notify!tableVars, Notify!deliveryVars
<1>a. /\ notifyCall \in [Calls -> Notify!Call]
      /\ \A k \in Calls : notifyCall[k] \in Notify!Call
      /\ Notify!Idle.op = "none"
      /\ notifications \subseteq Notify!Row
  BY DEF NotifyInv, Notify!TypeOK, Notify!Idle
<1>b. ASSUME UNCHANGED notifications, \A k \in Calls : \A id : Holds(k, id)' => Holds(k, id)
      PROVE  RowInv'
  BY <1>b, RowKeeps DEF RowInv
<1>1. ASSUME NEW k \in Calls, NEW u \in Recipients, NEW channel \in Notify!Channels,
             Notify!CreateNotification(k, u, channel, "pending")
      PROVE  RowInv'
  <2>1. PICK id \in Notify!FreshIds :
          Notify!Become(k, [op |-> IF channel = "in_app" THEN "insert" ELSE "deliver",
                            row |-> [id |-> id, user |-> u, channel |-> channel,
                                     status |-> "pending", read |-> FALSE]])
    BY <1>1 DEF Notify!CreateNotification
  <2> DEFINE row == [id |-> id, user |-> u, channel |-> channel, status |-> "pending",
                     read |-> FALSE]
             next == [op |-> IF channel = "in_app" THEN "insert" ELSE "deliver", row |-> row]
  <2>2. row.id = id
    OBVIOUS
  <2> HIDE DEF row
  <2>3. next.row = row
    OBVIOUS
  <2>4. notifyCall' = [notifyCall EXCEPT ![k] = next]
    BY <2>1 DEF Notify!Become, row
  <2> HIDE DEF next
  <2>5. \A j \in Calls : \A i : Holds(j, i)' => IF j = k THEN i = id ELSE Holds(j, i)
    BY <1>a, <2>2, <2>3, <2>4 DEF Holds
  <2>6. /\ \A n \in notifications : n.id # id
        /\ \A j \in Calls : ~Holds(j, id)
    BY <2>1 DEF Notify!FreshIds, Notify!HeldIds, Holds
  <2>7. UNCHANGED notifications
    BY <1>1 DEF Notify!CreateNotification
  <2> QED
    BY <2>5, <2>6, <2>7 DEF RowInv
<1>2. ASSUME NEW k \in Calls, Notify!DeliverEmail(k)
      PROVE  RowInv'
  <2>1. notifyCall[k].op = "deliver" /\ UNCHANGED notifications
    BY <1>2 DEF Notify!DeliverEmail, Notify!Delivering
  <2>2. ASSUME NEW status, Notify!Outcome(k, status) PROVE RowInv'
    BY <2>1, <2>2, SendHolds
  <2>3. CASE Notify!Answer(k)
    BY <1>a, <2>1, <2>3, OutcomeHolds DEF Notify!Answer, Notify!Become
  <2> QED
    BY <1>2, <2>2, <2>3 DEF Notify!DeliverEmail, Notify!Send
<1>3. ASSUME NEW k \in Calls,
             Notify!DeliverWebhook(k) \/ Notify!DeliverSlack(k) \/ Notify!PushSend(k)
      PROVE  RowInv'
  <2>1. /\ notifyCall[k].op \in {"deliver", "push"} /\ UNCHANGED notifications
        /\ \E status : Notify!Outcome(k, status)
    BY <1>3
    DEF Notify!DeliverWebhook, Notify!DeliverSlack, Notify!PushSend, Notify!Send, Notify!Delivering
  <2> QED
    BY <2>1, SendHolds
<1>4. ASSUME NEW k \in Calls, Notify!DeliverPush(k)
      PROVE  RowInv'
  <2>1. notifyCall[k].op = "deliver" /\ UNCHANGED notifications
    BY <1>4 DEF Notify!DeliverPush, Notify!Delivering
  <2>2. ASSUME NEW status, Notify!Outcome(k, status) PROVE RowInv'
    BY <2>1, <2>2, SendHolds
  <2>3. CASE Notify!Become(k, [op |-> "push", row |-> notifyCall[k].row,
                               token |-> Notify!AccessToken, held |-> 0])
    <3> DEFINE next == [op |-> "push", row |-> notifyCall[k].row,
                        token |-> Notify!AccessToken, held |-> 0]
    <3>1. next.row = notifyCall[k].row /\ notifyCall' = [notifyCall EXCEPT ![k] = next]
      BY <2>3 DEF Notify!Become
    <3> HIDE DEF next
    <3> QED
      BY <2>1, <3>1, OutcomeHolds
  <2> QED
    BY <1>4, <2>2, <2>3 DEF Notify!DeliverPush
<1>5. ASSUME NEW k \in Calls, Notify!InsertNotification(k)
      PROVE  RowInv'
  <2>1. PICK row \in Notify!Row :
          /\ row = notifyCall[k].row /\ Holds(k, row.id)
          /\ notifications' \in {notifications, notifications \cup {row}}
    BY <1>5, <1>a, NotifyCalls DEF Notify!InsertNotification, Holds
  <2>2. \A j \in Calls : \A id : Holds(j, id)' => j # k /\ Holds(j, id)
    BY <1>5, <1>a DEF Notify!InsertNotification, Notify!Answer, Notify!Become, Holds
  <2>3. row.id \in RowIds
    BY <2>1 DEF Notify!Row
  <2> QED
    BY <2>1, <2>2, <2>3 DEF RowInv
<1>6. ASSUME NEW k \in Calls, Notify!MarkRead(k)
      PROVE  RowInv'
  <2> DEFINE mark(n) == IF n.id = notifyCall[k].id /\ n.user = notifyCall[k].by
                          THEN [n EXCEPT !.read = TRUE] ELSE n
  <2>1. \A n \in notifications : mark(n).id = n.id
    BY <1>a DEF Notify!Row
  <2>2. notifications' = {mark(n) : n \in notifications}
    BY <1>6 DEF Notify!MarkRead
  <2> HIDE DEF mark
  <2>3. \A j \in Calls : \A id : Holds(j, id)' => Holds(j, id)
    BY <1>6, <1>a DEF Notify!MarkRead, Notify!Answer, Notify!Become, Holds
  <2>4. \A n, m \in notifications' : n.id = m.id => n = m
    BY <2>1, <2>2 DEF RowInv
  <2> QED
    BY <2>1, <2>2, <2>3, <2>4, RowKeeps
<1>7. ASSUME NEW k \in Calls, NEW u \in Recipients, Notify!MarkAllRead(k, u)
      PROVE  RowInv'
  <2> DEFINE mark(n) == IF n.user = u THEN [n EXCEPT !.read = TRUE] ELSE n
  <2>1. \A n \in notifications : mark(n).id = n.id
    BY <1>a DEF Notify!Row
  <2>2. notifications' = {mark(n) : n \in notifications} /\ UNCHANGED notifyCall
    BY <1>7 DEF Notify!MarkAllRead
  <2> HIDE DEF mark
  <2>3. \A j \in Calls : \A id : Holds(j, id)' => Holds(j, id)
    BY <2>2 DEF Holds
  <2>4. \A n, m \in notifications' : n.id = m.id => n = m
    BY <2>1, <2>2 DEF RowInv
  <2> QED
    BY <2>1, <2>2, <2>3, <2>4, RowKeeps
<1>8. ASSUME NEW k \in Calls, Notify!DeleteNotification(k) \/ Notify!ListPage(k)
      PROVE  RowInv'
  <2>1. notifications' \subseteq notifications /\ Notify!Become(k, Notify!Idle)
    BY <1>8 DEF Notify!DeleteNotification, Notify!ListPage, Notify!Answer
  <2>2. \A j \in Calls : \A id : Holds(j, id)' => Holds(j, id)
    BY <1>a, <2>1 DEF Notify!Become, Holds
  <2> QED
    BY <2>1, <2>2, RowKeeps DEF RowInv
<1>9. ASSUME NEW k \in Calls, NEW u \in Recipients,
             \/ Notify!ListNotifications(k, u)
             \/ \E op \in {"read", "delete"}, id \in RowIds : Notify!Scope(k, u, op, id)
      PROVE  RowInv'
  <2>1. PICK next \in Notify!Call : /\ next.op \in {"list", "read", "delete"}
                                   /\ notifyCall' = [notifyCall EXCEPT ![k] = next]
    BY <1>9, NotifyCalls DEF Notify!ListNotifications, Notify!Scope, Notify!Become
  <2>2. \A j \in Calls : \A id : Holds(j, id)' => Holds(j, id)
    BY <1>a, <2>1 DEF Holds
  <2>3. UNCHANGED notifications
    BY <1>9 DEF Notify!ListNotifications, Notify!Scope
  <2> QED
    BY <1>b, <2>2, <2>3
<1>10. CASE UNCHANGED <<notifications, notifyCall>>
  BY <1>b, <1>10 DEF Holds
<1>11. CASE Notify!Tick
  <2> DEFINE ticked(c) == [c EXCEPT !.held = 1, !.token = IF @ = 0 THEN 0 ELSE @ - 1]
  <2>1. \A k \in Calls : notifyCall[k].op = "push" =>
          ticked(notifyCall[k]).op = "push" /\ ticked(notifyCall[k]).row = notifyCall[k].row
    <3> SUFFICES ASSUME NEW c \in [op : {"push"}, row : Notify!Row, token : 0 .. TokenLife,
                                   held : {0, 1}]
                 PROVE  ticked(c).op = "push" /\ ticked(c).row = c.row
      BY <1>a, NotifyCalls
    <3> QED
      OBVIOUS
  <2>2. notifyCall' = [k \in Calls |-> IF notifyCall[k].op = "push"
                                         THEN ticked(notifyCall[k]) ELSE notifyCall[k]]
    BY <1>11 DEF Notify!Tick
  <2>3. UNCHANGED <<notifications, preferences, sender, mailing, accepted>>
    BY <1>11 DEF Notify!Tick
  <2> HIDE DEF ticked
  <2>4. \A k \in Calls : \A id : Holds(k, id)' => Holds(k, id)
    BY <2>1, <2>2 DEF Holds
  <2> QED
    BY <1>b, <2>3, <2>4
<1>12. CASE Notify!Restart
  BY <1>b, <1>12, <1>a DEF Notify!Restart, Holds
<1> QED
  BY <1>1, <1>2, <1>3, <1>4, <1>5, <1>6, <1>7, <1>8, <1>9, <1>10, <1>11, <1>12
  DEF Notify!Next, Notify!UpdatePreference, Notify!MailGoesOut, notifyVars

\* What OutcomesStand asks of a step.
NotifyStands ==
  \A n \in notifications : \A m \in notifications' :
    m.id = n.id => m = n \/ m = [n EXCEPT !.read = TRUE]

\* Rows are inserted with ids of their own, marked as read or deleted.
LEMMA NotifyStays == NotifyInv /\ RowInv /\ [Notify!Next]_notifyVars => NotifyStands
<1> SUFFICES ASSUME NotifyInv, RowInv, [Notify!Next]_notifyVars PROVE NotifyStands
  OBVIOUS
<1> USE DEF Notify!tableVars, Notify!deliveryVars
<1>a. notifications \subseteq Notify!Row
  BY DEF NotifyInv, Notify!TypeOK
<1>1. CASE notifications' \subseteq notifications
  BY <1>1 DEF RowInv, NotifyStands
<1>2. ASSUME NEW k \in Calls, Notify!InsertNotification(k)
      PROVE  NotifyStands
  <2>1. Holds(k, notifyCall[k].row.id)
    BY <1>2 DEF Notify!InsertNotification, Holds
  <2>2. \A m \in notifications' : m \in notifications \/ m = notifyCall[k].row
    BY <1>2 DEF Notify!InsertNotification
  <2> QED
    BY <2>1, <2>2 DEF RowInv, NotifyStands
<1>3. ASSUME NEW mark, \A n \in notifications : mark[n] = n \/ mark[n] = [n EXCEPT !.read = TRUE],
             notifications' = {mark[n] : n \in notifications}
      PROVE  NotifyStands
  <2>1. \A n \in notifications : mark[n].id = n.id
    BY <1>a, <1>3 DEF Notify!Row
  <2>2. ASSUME NEW n \in notifications, NEW m \in notifications', m.id = n.id
        PROVE  m = n \/ m = [n EXCEPT !.read = TRUE]
    <3>1. PICK o \in notifications : m = mark[o]
      BY <1>3
    <3>2. o = n
      BY <2>1, <2>2, <3>1 DEF RowInv
    <3> QED
      BY <1>3, <3>1, <3>2
  <2> QED
    BY <2>2 DEF NotifyStands
<1>4. ASSUME NEW k \in Calls, Notify!MarkRead(k)
      PROVE  NotifyStands
  <2> DEFINE mark == [n \in notifications |->
                        IF n.id = notifyCall[k].id /\ n.user = notifyCall[k].by
                          THEN [n EXCEPT !.read = TRUE] ELSE n]
  <2>1. \A n \in notifications : mark[n] = n \/ mark[n] = [n EXCEPT !.read = TRUE]
    OBVIOUS
  <2>2. notifications' = {mark[n] : n \in notifications}
    BY <1>4 DEF Notify!MarkRead
  <2> HIDE DEF mark
  <2> QED
    BY <1>3, <2>1, <2>2
<1>5. ASSUME NEW k \in Calls, NEW u \in Recipients, Notify!MarkAllRead(k, u)
      PROVE  NotifyStands
  <2> DEFINE mark == [n \in notifications |->
                        IF n.user = u THEN [n EXCEPT !.read = TRUE] ELSE n]
  <2>1. \A n \in notifications : mark[n] = n \/ mark[n] = [n EXCEPT !.read = TRUE]
    OBVIOUS
  <2>2. notifications' = {mark[n] : n \in notifications}
    BY <1>5 DEF Notify!MarkAllRead
  <2> HIDE DEF mark
  <2> QED
    BY <1>3, <2>1, <2>2
<1>6. ASSUME NEW k \in Calls,
             \/ \E u \in Recipients, channel \in Notify!Channels :
                  Notify!CreateNotification(k, u, channel, "pending")
             \/ Notify!DeliverEmail(k) \/ Notify!DeliverWebhook(k) \/ Notify!DeliverSlack(k)
             \/ Notify!DeliverPush(k) \/ Notify!PushSend(k)
             \/ Notify!DeleteNotification(k) \/ Notify!ListPage(k)
      PROVE  NotifyStands
  BY <1>1, <1>6
  DEF Notify!CreateNotification, Notify!DeliverEmail, Notify!DeliverWebhook,
      Notify!DeliverSlack, Notify!DeliverPush, Notify!PushSend, Notify!DeleteNotification,
      Notify!ListPage
<1>7. ASSUME NEW k \in Calls, NEW u \in Recipients,
             \/ Notify!ListNotifications(k, u) \/ Notify!UpdatePreference(k, u)
             \/ \E op \in {"read", "delete"}, id \in RowIds : Notify!Scope(k, u, op, id)
      PROVE  NotifyStands
  BY <1>1, <1>7 DEF Notify!ListNotifications, Notify!UpdatePreference, Notify!Scope
<1>8. CASE \/ \E id \in mailing : Notify!MailGoesOut(id)
           \/ Notify!Restart \/ UNCHANGED notifyVars
  BY <1>1, <1>8 DEF Notify!MailGoesOut, Notify!Restart, notifyVars
<1>9. CASE Notify!Tick
  <2>1. UNCHANGED <<notifications, preferences, sender, mailing, accepted>>
    BY <1>9 DEF Notify!Tick
  <2> QED
    BY <1>1, <2>1
<1> QED
  BY <1>2, <1>4, <1>5, <1>6, <1>7, <1>8, <1>9 DEF Notify!Next

-----------------------------------------------------------------------------
(* ai-service *)

\* A service that serves has passed its check, and no completion is older than
\* its timeout.
Timely(call) == call.op = "complete" => aiUp /\ call.age <= llmTimeout

\* The inductive invariant: besides, the id of a row that will be inserted is
\* nobody else's.
ModelInv ==
  /\ Model!TypeOK
  /\ aiUp = Model!ValidateTimeoutInvariant(writeTimeout, llmTimeout)
  /\ \A k \in Calls : Timely(aiCall[k])
  /\ \A k \in Calls : aiCall[k] # Model!Idle =>
       /\ \A r \in aiRows : r.id # aiCall[k].id
       /\ \A j \in Calls : aiCall[j] # Model!Idle /\ aiCall[j].id = aiCall[k].id => j = k

\* What the op of a call says of its fields; there is a longest time.
LEMMA ModelCalls ==
  /\ Model!MaxAge \in Nat
  /\ Model!Idle \in Model!Call /\ Model!Idle.op = "none"
  /\ \A id \in RowIds, age \in 0 .. Model!MaxAge :
       /\ [op |-> "complete", id |-> id, age |-> age] \in Model!Call
       /\ \A status \in Model!Status, gone \in BOOLEAN :
            [op |-> "persist", id |-> id, age |-> age, status |-> status, gone |-> gone]
              \in Model!Call
  /\ \A c \in Model!Call :
       /\ c # Model!Idle => /\ c.op \in {"complete", "persist"}
                            /\ c.id \in RowIds /\ c.age \in 0 .. Model!MaxAge
       /\ c.op \in {"complete", "persist"} => c # Model!Idle
       /\ c.op = "complete" =>
            c \in [op : {"complete"}, id : RowIds, age : 0 .. Model!MaxAge]
       /\ c.op = "persist" =>
            c \in [op : {"persist"}, id : RowIds, age : 0 .. Model!MaxAge,
                   status : Model!Status, gone : BOOLEAN]
<1>1. Model!MaxAge \in Nat
  BY OutsideAssumption DEF Model!MaxAge
<1> QED
  BY <1>1 DEF Model!Call, Model!Idle

\* A completion is over in its own time, and that ends MinMargin before the
\* response must be written.
LEMMA ModelImplies == ModelInv => Model!CompletionsEndInTime
<1> SUFFICES ASSUME ModelInv, NEW k \in Calls, aiCall[k].op = "complete"
             PROVE  aiCall[k].age + MinMargin <= writeTimeout
  BY DEF Model!CompletionsEndInTime
<1>1. aiCall[k].age <= llmTimeout /\ llmTimeout + MinMargin <= writeTimeout
  BY DEF ModelInv, Timely, Model!ValidateTimeoutInvariant
<1>2. aiCall[k].age \in Nat /\ llmTimeout \in Nat /\ writeTimeout \in Nat /\ MinMargin \in Nat
  BY OutsideAssumption, ModelCalls DEF ModelInv, Model!TypeOK
<1> QED
  BY <1>1, <1>2

\* The invariant holds however the service is configured.
LEMMA ModelStart == Model!Init => ModelInv
  BY ModelCalls
  DEF Model!Init, ModelInv, Model!TypeOK, Timely, Model!ValidateTimeoutInvariant

\* A request that goes on with the same row id, or ends.
LEMMA ModelKeeps ==
  ASSUME ModelInv, UNCHANGED <<llmTimeout, writeTimeout, aiUp>>,
         aiCall' \in [Calls -> Model!Call],
         aiRows' = aiRows,
         \A k \in Calls :
           /\ Timely(aiCall[k])'
           /\ aiCall'[k] # Model!Idle => aiCall[k] # Model!Idle /\ aiCall'[k].id = aiCall[k].id
  PROVE  ModelInv'
  BY DEF ModelInv, Model!TypeOK, Model!ValidateTimeoutInvariant

\* It is inductive: one step for each action.
LEMMA ModelStep == ModelInv /\ [Model!Next]_aiVars => ModelInv'
<1> SUFFICES ASSUME ModelInv, [Model!Next]_aiVars PROVE ModelInv'
  OBVIOUS
<1>a. /\ Model!TypeOK /\ aiCall \in [Calls -> Model!Call]
      /\ \A k \in Calls : aiCall[k] \in Model!Call
      /\ \A k \in Calls : Timely(aiCall[k])
      /\ Model!Idle \in Model!Call /\ Model!Idle.op = "none"
      /\ Model!MaxAge \in Nat
  BY ModelCalls DEF ModelInv, Model!TypeOK
<1>1. ASSUME NEW k \in Calls, Model!CreateRequest(k)
      PROVE  ModelInv'
  <2>1. PICK id \in RowIds \ Model!Ids :
          Model!Become(k, [op |-> "complete", id |-> id, age |-> 0])
    BY <1>1 DEF Model!CreateRequest
  <2>2. PICK next : next = [op |-> "complete", id |-> id, age |-> 0]
    OBVIOUS
  <2>3. /\ next \in Model!Call /\ next # Model!Idle /\ next.id = id
        /\ next.op = "complete" /\ next.age = 0
    BY <1>a, <2>2, ModelCalls
  <2>4. /\ aiUp /\ aiCall[k] = Model!Idle /\ aiCall' = [aiCall EXCEPT ![k] = next]
        /\ UNCHANGED <<llmTimeout, writeTimeout, aiUp, aiRows>>
    BY <1>1, <2>1, <2>2 DEF Model!CreateRequest, Model!Become
  <2>5. /\ \A r \in aiRows : r.id # id
        /\ \A j \in Calls : aiCall[j] # Model!Idle => aiCall[j].id # id
    BY <2>1 DEF Model!Ids
  <2>6. Model!TypeOK'
    BY <1>a, <2>3, <2>4 DEF Model!TypeOK
  <2>7. \A j \in Calls : Timely(aiCall[j])'
    BY <1>a, <2>3, <2>4, OutsideAssumption DEF Timely, Model!TypeOK
  <2>8. \A j \in Calls : aiCall'[j] = IF j = k THEN next ELSE aiCall[j]
    BY <1>a, <2>4
  <2> QED
    <3>1. ASSUME NEW j \in Calls, aiCall'[j] # Model!Idle
          PROVE  /\ \A r \in aiRows' : r.id # aiCall'[j].id
                 /\ \A l \in Calls :
                      aiCall'[l] # Model!Idle /\ aiCall'[l].id = aiCall'[j].id => l = j
      <4>1. CASE j = k
        BY <2>3, <2>4, <2>5, <2>8, <4>1
      <4>2. CASE j # k
        <5>1. aiCall'[j] = aiCall[j] /\ aiCall[j].id # id
          BY <2>5, <2>8, <3>1, <4>2
        <5> QED
          BY <2>3, <2>4, <2>8, <3>1, <4>2, <5>1 DEF ModelInv
      <4> QED
        BY <4>1, <4>2
    <3>2. aiUp' = Model!ValidateTimeoutInvariant(writeTimeout, llmTimeout)'
      BY <2>4 DEF ModelInv, Model!ValidateTimeoutInvariant
    <3> QED
      BY <2>6, <2>7, <3>1, <3>2 DEF ModelInv
<1>2. ASSUME NEW k \in Calls, Model!Complete(k) \/ Model!CallerLeaves(k)
      PROVE  ModelInv'
  <2>1. aiCall[k].op = "complete" /\ UNCHANGED <<llmTimeout, writeTimeout, aiUp, aiRows>>
    BY <1>2 DEF Model!Complete, Model!CallerLeaves
  <2>2. PICK status \in Model!Status, gone \in BOOLEAN : Model!Persist(k, status, gone)
    BY <1>2 DEF Model!Complete, Model!CallerLeaves, Model!Status
  <2>3. PICK next : next = [op |-> "persist", id |-> aiCall[k].id, age |-> aiCall[k].age,
                            status |-> status, gone |-> gone]
    OBVIOUS
  <2>4. /\ next \in Model!Call /\ next.op = "persist" /\ next.id = aiCall[k].id
        /\ aiCall[k] # Model!Idle
    BY <1>a, <2>1, <2>3, ModelCalls
  <2>5. aiCall' = [aiCall EXCEPT ![k] = next]
    BY <2>2, <2>3 DEF Model!Persist, Model!Become
  <2>6. /\ aiCall' \in [Calls -> Model!Call]
        /\ \A j \in Calls : aiCall'[j] = IF j = k THEN next ELSE aiCall[j]
    BY <1>a, <2>4, <2>5
  <2>7. \A j \in Calls : Timely(aiCall[j])'
    BY <1>a, <2>1, <2>4, <2>6 DEF Timely
  <2> QED
    BY <2>1, <2>4, <2>6, <2>7, ModelKeeps
<1>3. ASSUME NEW k \in Calls, Model!InsertRequest(k)
      PROVE  ModelInv'
  <2>1. /\ aiCall[k].op = "persist" /\ UNCHANGED <<llmTimeout, writeTimeout, aiUp>>
        /\ aiCall' = [aiCall EXCEPT ![k] = Model!Idle]
        /\ \/ aiRows' = aiRows \cup {[id |-> aiCall[k].id, status |-> aiCall[k].status]}
           \/ aiRows' = aiRows
    BY <1>3 DEF Model!InsertRequest, Model!Answer, Model!Become
  <2>2. aiCall[k].id \in RowIds /\ aiCall[k].status \in Model!Status /\ aiCall[k] # Model!Idle
    BY <1>a, <2>1, ModelCalls
  <2>3. PICK row : row = [id |-> aiCall[k].id, status |-> aiCall[k].status]
    OBVIOUS
  <2>4. row \in Model!Row /\ row.id = aiCall[k].id
    BY <2>2, <2>3 DEF Model!Row
  <2>5. \A r \in aiRows : r.id # row.id
    BY <2>2, <2>4 DEF ModelInv
  <2>6. \A j \in Calls : j # k /\ aiCall[j] # Model!Idle => aiCall[j].id # row.id
    BY <2>2, <2>4 DEF ModelInv
  <2>7. \A j \in Calls : aiCall'[j] = IF j = k THEN Model!Idle ELSE aiCall[j]
    BY <1>a, <2>1
  <2>8. aiRows' = aiRows \cup {row} \/ aiRows' = aiRows
    BY <2>1, <2>3
  <2>9. Model!TypeOK'
    BY <1>a, <2>1, <2>4, <2>5, <2>8 DEF Model!TypeOK
  <2>10. \A j \in Calls : Timely(aiCall[j])'
    BY <1>a, <2>1, <2>7 DEF Timely
  <2> QED
    BY <2>1, <2>6, <2>7, <2>8, <2>9, <2>10 DEF ModelInv, Model!ValidateTimeoutInvariant
<1>4. CASE Model!Elapse
  <2> DEFINE older(call) == [call EXCEPT !.age = @ + 1]
  <2>1. /\ UNCHANGED <<llmTimeout, writeTimeout, aiUp, aiRows>>
        /\ \A k \in Calls : aiCall[k].op = "complete" => aiCall[k].age < llmTimeout
        /\ aiCall' = [k \in Calls |->
             IF aiCall[k] # Model!Idle /\ aiCall[k].age < Model!MaxAge
               THEN older(aiCall[k]) ELSE aiCall[k]]
    BY <1>4 DEF Model!Elapse
  <2>2. llmTimeout \in Nat
    BY <1>a, OutsideAssumption DEF Model!TypeOK
  <2>3. ASSUME NEW call \in Model!Call, call # Model!Idle, call.age < Model!MaxAge
        PROVE  /\ older(call) \in Model!Call /\ older(call).op = call.op
               /\ older(call).id = call.id /\ older(call).age = call.age + 1
    <3>1. call.age \in Nat /\ call.age + 1 \in 0 .. Model!MaxAge
      BY <1>a, <2>3, ModelCalls
    <3>2. CASE call.op = "complete"
      <4>1. call \in [op : {"complete"}, id : RowIds, age : 0 .. Model!MaxAge]
        BY <2>3, <3>2, ModelCalls
      <4>2. /\ older(call) \in [op : {"complete"}, id : RowIds, age : 0 .. Model!MaxAge]
            /\ older(call).op = call.op
            /\ older(call).id = call.id /\ older(call).age = call.age + 1
        BY <3>1, <4>1
      <4> HIDE DEF older
      <4> QED
        BY <4>2 DEF Model!Call
    <3>3. CASE call.op = "persist"
      <4>1. call \in [op : {"persist"}, id : RowIds, age : 0 .. Model!MaxAge,
                      status : Model!Status, gone : BOOLEAN]
        BY <2>3, <3>3, ModelCalls
      <4>2. /\ older(call) \in [op : {"persist"}, id : RowIds, age : 0 .. Model!MaxAge,
                                status : Model!Status, gone : BOOLEAN]
            /\ older(call).op = call.op
            /\ older(call).id = call.id /\ older(call).age = call.age + 1
        BY <3>1, <4>1
      <4> HIDE DEF older
      <4> QED
        BY <4>2 DEF Model!Call
    <3> QED
      BY <2>3, <3>2, <3>3, ModelCalls
  <2> HIDE DEF older
  <2>4. aiCall' \in [Calls -> Model!Call]
    BY <1>a, <2>1, <2>3
  <2>5. ASSUME NEW k \in Calls
        PROVE  /\ Timely(aiCall[k])'
               /\ aiCall'[k] # Model!Idle => aiCall[k] # Model!Idle /\ aiCall'[k].id = aiCall[k].id
    <3>1. CASE aiCall[k] # Model!Idle /\ aiCall[k].age < Model!MaxAge
      <4>1. /\ aiCall'[k] = older(aiCall[k]) /\ older(aiCall[k]).op = aiCall[k].op
            /\ older(aiCall[k]).id = aiCall[k].id
            /\ older(aiCall[k]).age = aiCall[k].age + 1 /\ aiCall[k].age \in Nat
        BY <1>a, <2>1, <2>3, <3>1, ModelCalls
      <4> QED
        BY <1>a, <2>1, <2>2, <3>1, <4>1 DEF Timely
    <3>2. CASE ~(aiCall[k] # Model!Idle /\ aiCall[k].age < Model!MaxAge)
      <4>1. aiCall'[k] = aiCall[k]
        BY <2>1, <3>2
      <4> QED
        BY <1>a, <2>1, <4>1 DEF Timely
    <3> QED
      BY <3>1, <3>2
  <2> QED
    BY <2>1, <2>4, <2>5, ModelKeeps
<1>5. CASE Model!Restart
  BY <1>5, <1>a, ModelCalls
  DEF Model!Restart, ModelInv, Model!TypeOK, Timely, Model!ValidateTimeoutInvariant
<1>6. CASE UNCHANGED aiVars
  BY <1>6 DEF aiVars, ModelInv, Model!TypeOK, Timely, Model!ValidateTimeoutInvariant
<1> QED
  BY <1>1, <1>2, <1>3, <1>4, <1>5, <1>6 DEF Model!Next

-----------------------------------------------------------------------------
(* helixtrack-bridge-service *)

\* The inductive invariant: ids that were used stay used.
TrackInv ==
  /\ Track!TypeOK
  /\ Track!InsertsWereAccepted
  /\ \A b \in trackBridges : b.id \in everUsed

\* The calls there are.
LEMMA TrackCalls ==
  /\ Track!Idle \in Track!Call /\ Track!Idle.op = "none"
  /\ [op |-> "login"] \in Track!Call /\ [op |-> "page"] \in Track!Call
  /\ [op |-> "insert", accepted |-> TRUE] \in Track!Call
  BY DEF Track!Call, Track!Idle

\* The invariant holds of an empty table.
LEMMA TrackStart == Track!Init => TrackInv
  BY TrackCalls DEF Track!Init, TrackInv, Track!TypeOK, Track!InsertsWereAccepted

\* A step that leaves the table alone and lets no request stand on a login that
\* was not accepted.
LEMMA TrackKeeps ==
  ASSUME TrackInv, trackCall' \in [Calls -> Track!Call],
         token' \in {"none", "valid"}, coreAnswers' \in BOOLEAN,
         UNCHANGED <<trackBridges, everUsed>>,
         \A k \in Calls : \/ trackCall'[k] = trackCall[k]
                          \/ trackCall'[k].op # "insert"
                          \/ trackCall'[k].accepted
  PROVE  TrackInv'
  BY DEF TrackInv, Track!TypeOK, Track!InsertsWereAccepted

\* It is inductive: one step for each action.
LEMMA TrackStep == TrackInv /\ [Track!Next]_trackVars => TrackInv'
<1> SUFFICES ASSUME TrackInv, [Track!Next]_trackVars PROVE TrackInv'
  OBVIOUS
<1>a. /\ Track!TypeOK /\ trackCall \in [Calls -> Track!Call]
      /\ token \in {"none", "valid"} /\ coreAnswers \in BOOLEAN
  BY DEF TrackInv, Track!TypeOK
<1>1. ASSUME NEW k \in Calls,
             Track!CreateBridge(k) \/ Track!Authenticate(k)
               \/ Track!CountBridges(k) \/ Track!ListBridges(k)
      PROVE  TrackInv'
  <2>1. \E next \in Track!Call :
          trackCall' = [trackCall EXCEPT ![k] = next] /\ (next.op # "insert" \/ next.accepted)
    BY <1>1, TrackCalls
    DEF Track!CreateBridge, Track!EnsureAuthenticated, Track!Authenticate, Track!CountBridges,
        Track!ListBridges, Track!Become, Track!Answer
  <2>2. /\ UNCHANGED <<trackBridges, everUsed>>
        /\ token' \in {"none", "valid"} /\ coreAnswers' \in BOOLEAN
    BY <1>1, <1>a
    DEF Track!CreateBridge, Track!Authenticate, Track!CountBridges, Track!ListBridges
  <2> QED
    BY <1>a, <2>1, <2>2, TrackKeeps
<1>2. ASSUME NEW k \in Calls, Track!InsertBridge(k)
      PROVE  TrackInv'
  <2>1. /\ trackCall' = [trackCall EXCEPT ![k] = Track!Idle]
        /\ UNCHANGED <<token, coreAnswers>>
    BY <1>2 DEF Track!InsertBridge, Track!Answer, Track!Become
  <2>2. CASE UNCHANGED <<trackBridges, everUsed>>
    BY <1>a, <2>1, <2>2, TrackCalls, TrackKeeps
  <2>3. ASSUME NEW id \in RowIds \ everUsed, Track!InsertRow(id)
        PROVE  TrackInv'
    <3>1. PICK row : row = [id |-> id, status |-> "active"]
      OBVIOUS
    <3>2. row \in Track!Row /\ row.id = id
      BY <3>1 DEF Track!Row, Track!Status
    <3>3. /\ trackBridges' = trackBridges \cup {row} /\ everUsed' = everUsed \cup {id}
          /\ \A b \in trackBridges : b.id # id
      BY <2>3, <3>1 DEF Track!InsertRow, TrackInv
    <3>4. Track!TypeOK'
      BY <1>a, <2>1, <3>2, <3>3, TrackCalls DEF Track!TypeOK
    <3>5. Track!InsertsWereAccepted'
      BY <1>a, <2>1, TrackCalls DEF TrackInv, Track!InsertsWereAccepted
    <3> QED
      BY <3>2, <3>3, <3>4, <3>5 DEF TrackInv
  <2> QED
    BY <1>2, <2>2, <2>3 DEF Track!InsertBridge
<1>3. ASSUME NEW id \in RowIds, Track!DropRow(id), UNCHANGED <<everUsed, token, coreAnswers, trackCall>>
      PROVE  TrackInv'
  BY <1>3 DEF Track!DropRow, TrackInv, Track!TypeOK, Track!InsertsWereAccepted
<1>4. ASSUME NEW id \in RowIds, NEW status \in Track!Status, Track!StoreRow(id, status),
             UNCHANGED <<everUsed, token, coreAnswers, trackCall>>
      PROVE  TrackInv'
  <2> DEFINE f(b) == IF b.id = id THEN [b EXCEPT !.status = status] ELSE b
  <2>1. ASSUME NEW b \in Track!Row PROVE f(b) \in Track!Row /\ f(b).id = b.id
    BY DEF Track!Row
  <2>2. trackBridges' = {f(b) : b \in trackBridges}
    BY <1>4 DEF Track!StoreRow, Track!GetBridgeByID
  <2> HIDE DEF f
  <2>3. \A c \in trackBridges' : \E b \in trackBridges : c = f(b) /\ c \in Track!Row /\ c.id = b.id
    BY <1>a, <2>1, <2>2 DEF Track!TypeOK
  <2>4. Track!TypeOK'
    BY <1>4, <1>a, <2>3 DEF Track!TypeOK
  <2> QED
    BY <1>4, <2>3, <2>4 DEF TrackInv, Track!InsertsWereAccepted
<1>5. CASE Track!CoreChanges \/ Track!TokenExpires \/ Track!Restart
  <2>1. /\ UNCHANGED <<trackBridges, everUsed>>
        /\ token' \in {"none", "valid"} /\ coreAnswers' \in BOOLEAN
        /\ trackCall' = trackCall \/ trackCall' = [k \in Calls |-> Track!Idle]
    BY <1>5, <1>a DEF Track!CoreChanges, Track!TokenExpires, Track!Restart
  <2> QED
    BY <1>a, <2>1, TrackCalls, TrackKeeps
<1>6. CASE UNCHANGED trackVars
  BY <1>6 DEF trackVars, TrackInv, Track!TypeOK, Track!InsertsWereAccepted
<1> QED
  BY <1>1, <1>2, <1>3, <1>4, <1>5, <1>6
  DEF Track!Next, Track!DeleteBridge, Track!UpdateBridge
=============================================================================
