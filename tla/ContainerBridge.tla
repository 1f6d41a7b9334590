-------------------------- MODULE ContainerBridge --------------------------
(***************************************************************************)
(* services/container-bridge-service: rows that name containers of an      *)
(* external runtime.  A request runs in a goroutine of its own; its atomic *)
(* steps are one call of the runtime or one SQL statement, and nothing     *)
(* holds the row and the container together between two of them.  Any such *)
(* call may fail, and IsAvailable may at any time answer no.               *)
(***************************************************************************)
EXTENDS FiniteSets

CONSTANTS
  Calls,         \* requests in flight at one time
  RowIds,        \* row ids, used again only when nothing refers to them
  Containers,    \* container names a client may give
  BridgeNames    \* values of the fields a client may edit

VARIABLES
  bridges,       \* the rows of container_bridges
  container,     \* the runtime's state of each container
  bridgeCall,    \* the requests in flight
  begotten,      \* containers RunFromImage has made
  accounted,     \* observed only: those whose request was answered with an error
                 \* or that a log line has named since they were made
  abandoned      \* observed only: those whose row a DeleteBridge has dropped
                 \* without a call of the runtime since they were made

bridgeVars == <<bridges, container, bridgeCall, begotten, accounted, abandoned>>
observed == <<begotten, accounted, abandoned>>

States == {"absent", "created", "running", "dead"}
Statuses == {"active", "error", "inactive"}
Bridge == [id : RowIds, container : Containers, name : BridgeNames, status : Statuses]

Idle == [op |-> "none"]
Call ==
  {Idle}
    \cup [op : {"create"}, at : {"look", "start", "started", "run", "ran", "insert"},
          row : Bridge]
    \cup [op : {"read"}, at : {"look"}, rest : SUBSET Bridge]
    \cup [op : {"read"}, at : {"write"}, row : Bridge, rest : SUBSET Bridge]
    \cup [op : {"update"}, at : {"look", "write"}, row : Bridge]
    \cup [op : {"delete"}, at : {"stop", "remove"}, row : Bridge]
    \cup [op : {"delete"}, at : {"drop"}, row : Bridge, tried : BOOLEAN]

TypeOK ==
  /\ bridges \subseteq Bridge
  /\ container \in [Containers -> States]
  /\ bridgeCall \in [Calls -> Call]
  /\ begotten \subseteq Containers
  /\ accounted \subseteq Containers
  /\ abandoned \subseteq Containers

Init ==
  /\ bridges = {}
  /\ container \in [Containers -> {"absent", "created"}]
  /\ bridgeCall = [k \in Calls |-> Idle]
  /\ begotten = {}
  /\ accounted = {}
  /\ abandoned = {}

-----------------------------------------------------------------------------
(* The runtime and the rows *)

\* The single place that decides what "active" means.
StatusFromState(state) ==
  CASE state = "running" -> "active"
    [] state = "dead" -> "error"
    [] OTHER -> "inactive"

\* Status fails for a container that is not there, and may fail for any other;
\* reconcile and UpdateBridge take a failure for "inactive".
RuntimeStatus(c) == StatusFromState(container[c])
StatusOrInactive(c) == {RuntimeStatus(c), "inactive"}

Held(k) ==
  LET call == bridgeCall[k] IN
  (IF "row" \in DOMAIN call THEN {call.row} ELSE {})
    \cup (IF "rest" \in DOMAIN call THEN call.rest ELSE {})

IdsInUse == {r.id : r \in bridges \cup UNION {Held(k) : k \in Calls}}

At(k, op, at) == bridgeCall[k].op = op /\ bridgeCall[k].at = at
Goto(k, at) == bridgeCall' = [bridgeCall EXCEPT ![k].at = at]
Answer(k) == bridgeCall' = [bridgeCall EXCEPT ![k] = Idle]

\* The request is answered with an error, or a log line names the container.
Account(c) == accounted' = accounted \cup {c}

GetBridgeByID(id) == {r \in bridges : r.id = id}

InsertBridge(row) == bridges' = bridges \cup {row}

\* One UPDATE of all four columns, of the row that still has this id.
StoreBridge(row) ==
  bridges' = {IF r.id = row.id
                THEN [r EXCEPT !.name = row.name, !.status = row.status] ELSE r : r \in bridges}

DropBridge(row) == bridges' = {r \in bridges : r.id # row.id}

-----------------------------------------------------------------------------
(* CreateBridge *)

\* The input is valid and the runtime answers; bringUp comes next.
CreateBridge(k, c, n) ==
  /\ bridgeCall[k] = Idle
  /\ \E id \in RowIds \ IdsInUse :
       bridgeCall' = [bridgeCall EXCEPT ![k] =
         [op |-> "create", at |-> "look",
          row |-> [id |-> id, container |-> c, name |-> n, status |-> "inactive"]]]
  /\ UNCHANGED <<bridges, container, observed>>

\* bringUp attaches to a container that Status finds, or goes on to make one;
\* a Status that fails looks like a container that is not there.
Look(k) ==
  /\ At(k, "create", "look")
  /\ LET c == bridgeCall[k].row.container IN
     \/ Goto(k, "run")
     \/ container[c] \in {"created", "dead"} /\ Goto(k, "start")
     \/ /\ container[c] = "running"
        /\ bridgeCall' = [bridgeCall EXCEPT ![k].at = "insert", ![k].row.status = "active"]
  /\ UNCHANGED <<bridges, container, observed>>

StartExisting(k) ==
  /\ At(k, "create", "start")
  /\ LET c == bridgeCall[k].row.container IN
     \/ /\ container[c] # "absent"
        /\ container' = [container EXCEPT ![c] = "running"]
        /\ Goto(k, "started")
     \/ Answer(k) /\ UNCHANGED container
  /\ UNCHANGED <<bridges, observed>>

\* Whatever state the second look finds is stored with the row.
ConfirmStarted(k) ==
  /\ At(k, "create", "started")
  /\ LET c == bridgeCall[k].row.container IN
     \/ /\ container[c] # "absent"
        /\ bridgeCall' = [bridgeCall EXCEPT ![k].at = "insert",
                                            ![k].row.status = RuntimeStatus(c)]
        /\ UNCHANGED accounted
     \/ Answer(k) /\ Account(c)
  /\ UNCHANGED <<bridges, container, begotten, abandoned>>

\* RunFromImage: the name may be taken by now, and a run that fails, by a
\* timeout perhaps, may leave the container behind, created or running.
RunNew(k) ==
  /\ At(k, "create", "run")
  /\ LET c == bridgeCall[k].row.container
         Make(state) == /\ container[c] = "absent"
                        /\ container' = [container EXCEPT ![c] = state]
                        /\ begotten' = begotten \cup {c}
                        /\ abandoned' = abandoned \ {c}
     IN \/ Make("running") /\ accounted' = accounted \ {c} /\ Goto(k, "ran")
        \/ (\E left \in {"created", "running"} : Make(left)) /\ Account(c) /\ Answer(k)
        \/ Answer(k) /\ UNCHANGED <<container, observed>>
  /\ UNCHANGED bridges

\* A new container that is not running by now is answered 502 and left.
ConfirmNew(k) ==
  /\ At(k, "create", "ran")
  /\ LET c == bridgeCall[k].row.container IN
     \/ /\ container[c] = "running"
        /\ bridgeCall' = [bridgeCall EXCEPT ![k].at = "insert", ![k].row.status = "active"]
        /\ UNCHANGED accounted
     \/ Answer(k) /\ Account(c)
  /\ UNCHANGED <<bridges, container, begotten, abandoned>>

\* Slip: the error of the INSERT is not looked at, and the answer is a 201.
InsertQuietly(k) ==
  /\ At(k, "create", "insert")
  /\ InsertBridge(bridgeCall[k].row) \/ UNCHANGED bridges
  /\ Answer(k)
  /\ UNCHANGED <<container, observed>>

InsertRow(k) ==
  /\ At(k, "create", "insert")
  /\ \/ InsertBridge(bridgeCall[k].row) /\ UNCHANGED accounted
     \/ Account(bridgeCall[k].row.container) /\ UNCHANGED bridges
  /\ Answer(k)
  /\ UNCHANGED <<container, begotten, abandoned>>

-----------------------------------------------------------------------------
(* GetBridge and ListBridges: rows are read, then reconciled one by one *)

ReadRows(k, S) ==
  /\ bridgeCall[k] = Idle
  /\ bridgeCall' = [bridgeCall EXCEPT ![k] = [op |-> "read", at |-> "look", rest |-> S]]
  /\ UNCHANGED <<bridges, container, observed>>

GetBridge(k, id) == \E r \in GetBridgeByID(id) : ReadRows(k, {r})

ListBridges(k) == bridges # {} /\ ReadRows(k, bridges)

Proceed(k, rest) ==
  bridgeCall' = [bridgeCall EXCEPT ![k] =
    IF rest = {} THEN Idle ELSE [op |-> "read", at |-> "look", rest |-> rest]]

\* reconcile up to its write: nothing is done for a runtime that is out of
\* reach or for a status that is right.
Reconcile(k) ==
  /\ At(k, "read", "look")
  /\ \E r \in bridgeCall[k].rest :
       LET rest == bridgeCall[k].rest \ {r} IN
       \/ Proceed(k, rest)
       \/ \E real \in StatusOrInactive(r.container) \ {r.status} :
            bridgeCall' = [bridgeCall EXCEPT ![k] =
              [op |-> "read", at |-> "write",
               row |-> [r EXCEPT !.status = real], rest |-> rest]]
  /\ UNCHANGED <<bridges, container, observed>>

\* The write of a reconcile: best effort, and of every column it had read.
ReconcileWrite(k) ==
  /\ At(k, "read", "write")
  /\ StoreBridge(bridgeCall[k].row) \/ UNCHANGED bridges
  /\ Proceed(k, bridgeCall[k].rest)
  /\ UNCHANGED <<container, observed>>

-----------------------------------------------------------------------------
(* UpdateBridge and DeleteBridge *)

UpdateBridge(k, id, n) ==
  /\ bridgeCall[k] = Idle
  /\ \E r \in GetBridgeByID(id) :
       bridgeCall' = [bridgeCall EXCEPT ![k] =
         [op |-> "update", at |-> "look", row |-> [r EXCEPT !.name = n]]]
  /\ UNCHANGED <<bridges, container, observed>>

\* The status stays as it was read while the runtime is out of reach.
UpdateLook(k) ==
  /\ At(k, "update", "look")
  /\ LET r == bridgeCall[k].row IN
     \E real \in StatusOrInactive(r.container) \cup {r.status} :
       bridgeCall' = [bridgeCall EXCEPT ![k].at = "write", ![k].row.status = real]
  /\ UNCHANGED <<bridges, container, observed>>

UpdateWrite(k) ==
  /\ At(k, "update", "write")
  /\ StoreBridge(bridgeCall[k].row) \/ UNCHANGED bridges
  /\ Answer(k)
  /\ UNCHANGED <<container, observed>>

\* The row is read and its container taken down.  A read that fails and a
\* runtime that is out of reach leave the container alone without a word; of
\* a row that was not read only the id goes on.
DeleteBridge(k, id) ==
  /\ bridgeCall[k] = Idle
  /\ \E r \in GetBridgeByID(id) :
       \/ bridgeCall' = [bridgeCall EXCEPT ![k] = [op |-> "delete", at |-> "stop", row |-> r]]
       \/ bridgeCall' = [bridgeCall EXCEPT ![k] =
            [op |-> "delete", at |-> "drop", row |-> r, tried |-> FALSE]]
  /\ UNCHANGED <<bridges, container, observed>>

\* Stop fails for a container that is not there, and the failure is logged.
StopContainer(k) ==
  /\ At(k, "delete", "stop")
  /\ LET c == bridgeCall[k].row.container IN
     \/ /\ container[c] # "absent"
        /\ container' = [container EXCEPT ![c] = "created"]
        /\ UNCHANGED accounted
     \/ Account(c) /\ UNCHANGED container
  /\ Goto(k, "remove")
  /\ UNCHANGED <<bridges, begotten, abandoned>>

RemoveContainer(k) ==
  /\ At(k, "delete", "remove")
  /\ LET c == bridgeCall[k].row.container IN
     \/ /\ container[c] # "absent"
        /\ container' = [container EXCEPT ![c] = "absent"]
        /\ UNCHANGED accounted
     \/ Account(c) /\ UNCHANGED container
  /\ bridgeCall' = [bridgeCall EXCEPT ![k] =
       [op |-> "delete", at |-> "drop", row |-> bridgeCall[k].row, tried |-> TRUE]]
  /\ UNCHANGED <<bridges, begotten, abandoned>>

\* DELETE ... WHERE id: done in any case.
DropRow(k) ==
  /\ At(k, "delete", "drop")
  /\ LET call == bridgeCall[k]
         left == IF call.tried THEN {} ELSE {r.container : r \in GetBridgeByID(call.row.id)}
     IN \/ DropBridge(call.row) /\ abandoned' = abandoned \cup left
        \/ UNCHANGED <<bridges, abandoned>>
  /\ Answer(k)
  /\ UNCHANGED <<container, begotten, accounted>>

-----------------------------------------------------------------------------
(* The environment *)

ContainerExits(c) ==
  /\ container[c] = "running"
  /\ container' = [container EXCEPT ![c] = "dead"]
  /\ UNCHANGED <<bridges, bridgeCall, observed>>

RemovedByHand(c) ==
  /\ container[c] \notin {"absent", "running"}
  /\ container' = [container EXCEPT ![c] = "absent"]
  /\ UNCHANGED <<bridges, bridgeCall, observed>>

\* The process ends and another starts.  The client of a create that is cut
\* off sees its connection break, the only error it gets.
Restart ==
  /\ bridgeCall' = [k \in Calls |-> Idle]
  /\ accounted' = accounted \cup
       {bridgeCall[k].row.container : k \in {j \in Calls : bridgeCall[j].op = "create"}}
  /\ UNCHANGED <<bridges, container, begotten, abandoned>>

Next ==
  \/ \E k \in Calls :
       \/ \E c \in Containers, n \in BridgeNames : CreateBridge(k, c, n)
       \/ Look(k) \/ StartExisting(k) \/ ConfirmStarted(k)
       \/ RunNew(k) \/ ConfirmNew(k) \/ InsertRow(k)
       \/ ListBridges(k) \/ Reconcile(k) \/ ReconcileWrite(k)
       \/ \E id \in RowIds : GetBridge(k, id) \/ DeleteBridge(k, id)
       \/ \E id \in RowIds, n \in BridgeNames : UpdateBridge(k, id, n)
       \/ UpdateLook(k) \/ UpdateWrite(k)
       \/ StopContainer(k) \/ RemoveContainer(k) \/ DropRow(k)
  \/ \E c \in Containers : ContainerExits(c) \/ RemovedByHand(c)
  \/ Restart

Spec == Init /\ [][Next]_bridgeVars

-----------------------------------------------------------------------------

\* Where a container the service has made may be known from: a row, a create
\* that is not answered yet, or an error or a log line about it.
Known(c) ==
  \/ c \in accounted
  \/ \E r \in bridges : r.container = c
  \/ \E k \in Calls : bridgeCall[k].op = "create" /\ bridgeCall[k].row.container = c

\* The only way to lose a container the service has made while it runs is a
\* delete that did not call the runtime, because it could not read the row or
\* the runtime was out of reach: no failure of a create, of Stop or Remove or
\* of an INSERT, no overlap of requests and no restart does.  (Known(c) alone is
\* what the comments of DeleteBridge and logContainerTeardownError ask for; the
\* code does not keep it.)
OrphansAreAccounted ==
  \A c \in begotten : container[c] = "running" => Known(c) \/ c \in abandoned
=============================================================================
