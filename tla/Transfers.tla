------------------------------ MODULE Transfers ------------------------------
(***************************************************************************)
(* services/sftp-service: the rows of file transfers.  The service moves   *)
(* no bytes: whoever does reports status and bytes with an update, which   *)
(* is one UPDATE of all three columns and asks nothing of the row.         *)
(***************************************************************************)
EXTENDS Naturals

CONSTANTS
  Calls,         \* requests in flight at one time
  RowIds,        \* ids of transfers; deleted for good, not reused
  MaxBytes       \* bound on bytes_transferred

VARIABLES
  transfers,     \* rows of sftp_sessions
  removed,       \* ids of the rows there were (observed only)
  transferCall   \* requests in flight

transferVars == <<transfers, removed, transferCall>>

Final == {"completed", "failed", "cancelled"}
Status == {"pending", "active"} \cup Final
Row == [id : RowIds, status : Status, bytes : 0 .. MaxBytes, completed : BOOLEAN]

Call == {"none", "page"}

TypeOK ==
  /\ transfers \subseteq Row
  /\ \A t, s \in transfers : t.id = s.id => t = s
  /\ removed \subseteq RowIds
  /\ transferCall \in [Calls -> Call]

Init ==
  /\ transfers = {}
  /\ removed = {}
  /\ transferCall = [k \in Calls |-> "none"]

(* The table *)

GetSessionByID(id) == {t \in transfers : t.id = id}

InsertSession(id) ==
  /\ GetSessionByID(id) = {}
  /\ transfers' = transfers \cup
       {[id |-> id, status |-> "pending", bytes |-> 0, completed |-> FALSE]}

\* UPDATE ... SET status, bytes_transferred, completed_at WHERE id; no error
\* when no row is hit.
StoreSession(id, status, bytes, completed) ==
  LET old == GetSessionByID(id) IN
  transfers' = (transfers \ old) \cup
    {[t EXCEPT !.status = status, !.bytes = bytes, !.completed = completed] : t \in old}

DropSession(id) ==
  /\ GetSessionByID(id) # {}
  /\ transfers' = transfers \ GetSessionByID(id)
  /\ removed' = removed \cup {id}

-----------------------------------------------------------------------------

CreateSession(k) ==
  /\ transferCall[k] = "none"
  /\ \E id \in RowIds \ removed : InsertSession(id)
  /\ UNCHANGED <<removed, transferCall>>

\* Two statements: how many rows there are, and a page of them.
CountSessions(k) ==
  /\ transferCall[k] = "none"
  /\ transferCall' = [transferCall EXCEPT ![k] = "page"]
  /\ UNCHANGED <<transfers, removed>>

ListSessions(k) ==
  /\ transferCall[k] = "page"
  /\ transferCall' = [transferCall EXCEPT ![k] = "none"]
  /\ UNCHANGED <<transfers, removed>>

\* Slip: completed_at is set at the end and otherwise left alone.
UpdateKeeping(k, id, status, bytes) ==
  /\ transferCall[k] = "none"
  /\ LET old == GetSessionByID(id) IN
     transfers' = (transfers \ old) \cup
       {[t EXCEPT !.status = status, !.bytes = bytes, !.completed = @ \/ status \in Final] : t \in old}
  /\ UNCHANGED <<removed, transferCall>>

\* completed_at is a time for a final status and NULL for any other; a
\* report that comes late or twice is written like any other.
UpdateSession(k, id, status, bytes) ==
  /\ transferCall[k] = "none"
  /\ StoreSession(id, status, bytes, status \in Final)
  /\ UNCHANGED <<removed, transferCall>>

DeleteSession(k, id) ==
  /\ transferCall[k] = "none"
  /\ DropSession(id)
  /\ UNCHANGED transferCall

\* The process ends and another starts: requests in flight are cut off, rows
\* stay.
Restart ==
  /\ transferCall' = [k \in Calls |-> "none"]
  /\ UNCHANGED <<transfers, removed>>

Next ==
  \/ \E k \in Calls :
       \/ CreateSession(k) \/ CountSessions(k) \/ ListSessions(k)
       \/ \E id \in RowIds :
            \/ DeleteSession(k, id)
            \/ \E status \in Status, bytes \in 0 .. MaxBytes : UpdateSession(k, id, status, bytes)
  \/ Restart

Spec == Init /\ [][Next]_transferVars

-----------------------------------------------------------------------------

\* A transfer has a time of completion exactly while its status is final:
\* a report that revives a finished transfer takes the time away again.
CompletionFollowsStatus == \A t \in transfers : t.completed <=> t.status \in Final
=============================================================================
