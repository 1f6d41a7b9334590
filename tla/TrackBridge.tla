----------------------------- MODULE TrackBridge -----------------------------
(***************************************************************************)
(* services/helixtrack-bridge-service: rows about bridges to a HelixTrack  *)
(* Core, and the client that logs in to it.  A row is created only after   *)
(* the core has accepted the login or while the token of an earlier login  *)
(* is valid.                                                               *)
(***************************************************************************)
CONSTANTS
  Calls,         \* requests in flight at one time
  RowIds         \* ids of rows; deleted for good, not reused

VARIABLES
  trackBridges,  \* rows of helixtrack_bridges
  everUsed,      \* ids of the rows there are and were (observed only)
  token,         \* the cached access token: "none" or "valid"
  coreAnswers,   \* the core is reachable and accepts the login
  trackCall      \* requests in flight

trackVars == <<trackBridges, everUsed, token, coreAnswers, trackCall>>

Status == {"active", "inactive", "error"}
Row == [id : RowIds, status : Status]

\* accepted is observed only: the core accepted the login the call stands on.
Idle == [op |-> "none"]
Call == {Idle} \cup [op : {"login", "page"}] \cup [op : {"insert"}, accepted : BOOLEAN]

TypeOK ==
  /\ trackBridges \subseteq Row
  /\ \A b, d \in trackBridges : b.id = d.id => b = d
  /\ everUsed \subseteq RowIds
  /\ token \in {"none", "valid"} /\ coreAnswers \in BOOLEAN
  /\ trackCall \in [Calls -> Call]

Init ==
  /\ trackBridges = {} /\ everUsed = {}
  /\ token = "none"
  /\ coreAnswers \in BOOLEAN
  /\ trackCall = [k \in Calls |-> Idle]

Become(k, call) == trackCall' = [trackCall EXCEPT ![k] = call]
Answer(k) == Become(k, Idle)

(* The table *)

GetBridgeByID(id) == {b \in trackBridges : b.id = id}

InsertRow(id) ==
  /\ trackBridges' = trackBridges \cup {[id |-> id, status |-> "active"]}
  /\ everUsed' = everUsed \cup {id}

\* No error when no row is hit.
StoreRow(id, status) ==
  LET old == GetBridgeByID(id) IN
  trackBridges' = (trackBridges \ old) \cup {[b EXCEPT !.status = status] : b \in old}

DropRow(id) ==
  /\ GetBridgeByID(id) # {}
  /\ trackBridges' = trackBridges \ GetBridgeByID(id)

-----------------------------------------------------------------------------
(* The core and its client *)

CoreChanges ==
  /\ coreAnswers' = ~coreAnswers
  /\ UNCHANGED <<trackBridges, everUsed, token, trackCall>>

\* 24 hours after the login
TokenExpires ==
  /\ token = "valid"
  /\ token' = "none"
  /\ UNCHANGED <<trackBridges, everUsed, coreAnswers, trackCall>>

\* A cached token that has not expired will do; else log in.  Two requests
\* that find none both log in.
EnsureAuthenticated(k) ==
  Become(k, IF token = "valid" THEN [op |-> "insert", accepted |-> TRUE] ELSE [op |-> "login"])

\* Slip: the error of the login is dropped.
AuthenticateAnyway(k) ==
  /\ trackCall[k].op = "login"
  /\ token' = IF coreAnswers THEN "valid" ELSE token
  /\ Become(k, [op |-> "insert", accepted |-> coreAnswers])
  /\ UNCHANGED <<trackBridges, everUsed, coreAnswers>>

\* 503 and no row when the core cannot be reached or says no.
Authenticate(k) ==
  /\ trackCall[k].op = "login"
  /\ \/ /\ coreAnswers
        /\ token' = "valid"
        /\ Become(k, [op |-> "insert", accepted |-> TRUE])
     \/ /\ ~coreAnswers
        /\ Answer(k)
        /\ UNCHANGED token
  /\ UNCHANGED <<trackBridges, everUsed, coreAnswers>>

\* The token is kept in memory only.
Restart ==
  /\ token' = "none"
  /\ trackCall' = [k \in Calls |-> Idle]
  /\ UNCHANGED <<trackBridges, everUsed, coreAnswers>>

-----------------------------------------------------------------------------
(* The handlers *)

CreateBridge(k) ==
  /\ trackCall[k] = Idle
  /\ EnsureAuthenticated(k)
  /\ UNCHANGED <<trackBridges, everUsed, token, coreAnswers>>

InsertBridge(k) ==
  /\ trackCall[k].op = "insert"
  /\ \/ \E id \in RowIds \ everUsed : InsertRow(id)
     \/ UNCHANGED <<trackBridges, everUsed>>
  /\ Answer(k)
  /\ UNCHANGED <<token, coreAnswers>>

\* Two statements: how many rows there are, and a page of them.
CountBridges(k) ==
  /\ trackCall[k] = Idle
  /\ Become(k, [op |-> "page"])
  /\ UNCHANGED <<trackBridges, everUsed, token, coreAnswers>>

ListBridges(k) ==
  /\ trackCall[k].op = "page"
  /\ Answer(k)
  /\ UNCHANGED <<trackBridges, everUsed, token, coreAnswers>>

\* Any status is written as it is asked for, "active" without a login too.
UpdateBridge(k, id, status) ==
  /\ trackCall[k] = Idle
  /\ StoreRow(id, status)
  /\ UNCHANGED <<everUsed, token, coreAnswers, trackCall>>

DeleteBridge(k, id) ==
  /\ trackCall[k] = Idle
  /\ DropRow(id)
  /\ UNCHANGED <<everUsed, token, coreAnswers, trackCall>>

Next ==
  \/ \E k \in Calls :
       \/ CreateBridge(k) \/ Authenticate(k) \/ InsertBridge(k)
       \/ CountBridges(k) \/ ListBridges(k)
       \/ \E id \in RowIds :
            DeleteBridge(k, id) \/ \E status \in Status : UpdateBridge(k, id, status)
  \/ CoreChanges \/ TokenExpires \/ Restart

Spec == Init /\ [][Next]_trackVars

-----------------------------------------------------------------------------

\* Nothing is inserted on a login the core has not accepted, however the
\* token expires and the core comes and goes in between.
InsertsWereAccepted == \A k \in Calls : trackCall[k].op = "insert" => trackCall[k].accepted
=============================================================================
