------------------------------ MODULE Recording ------------------------------
(***************************************************************************)
(* services/recording-service: rows about recordings, whose files others   *)
(* write.  An update is one UPDATE of status, length and size, and asks    *)
(* nothing of the row: a report that comes late is written like any other. *)
(***************************************************************************)
EXTENDS Naturals

CONSTANTS
  Calls,          \* requests in flight at one time
  RowIds,         \* ids of recordings; deleted for good, not reused
  MaxSize         \* bound on duration_sec and file_size_bytes, one number here

VARIABLES
  recordings,     \* the rows
  dropped,        \* ids of the rows there were (observed only)
  recordingCall   \* requests in flight

recordingVars == <<recordings, dropped, recordingCall>>

Status == {"recording", "paused", "completed", "failed"}
Row == [id : RowIds, status : Status, size : 0 .. MaxSize]

TypeOK ==
  /\ recordings \subseteq Row
  /\ \A r, q \in recordings : r.id = q.id => r = q
  /\ dropped \subseteq RowIds
  /\ recordingCall \in [Calls -> {"none", "page"}]

Init ==
  /\ recordings = {}
  /\ dropped = {}
  /\ recordingCall = [k \in Calls |-> "none"]

(* The table *)

GetRecordingByID(id) == {r \in recordings : r.id = id}

InsertRecording(id) ==
  /\ GetRecordingByID(id) = {}
  /\ recordings' = recordings \cup {[id |-> id, status |-> "recording", size |-> 0]}

\* UPDATE ... SET status, duration_sec, file_size_bytes WHERE id; no error
\* when no row is hit.
StoreRecording(id, status, size) ==
  LET old == GetRecordingByID(id) IN
  recordings' = (recordings \ old) \cup
    {[r EXCEPT !.status = status, !.size = size] : r \in old}

DropRecording(id) ==
  /\ GetRecordingByID(id) # {}
  /\ recordings' = recordings \ GetRecordingByID(id)
  /\ dropped' = dropped \cup {id}

-----------------------------------------------------------------------------

CreateRecording(k) ==
  /\ recordingCall[k] = "none"
  /\ \E id \in RowIds \ dropped : InsertRecording(id)
  /\ UNCHANGED <<dropped, recordingCall>>

\* Two statements: how many rows there are, and a page of them.
CountRecordings(k) ==
  /\ recordingCall[k] = "none"
  /\ recordingCall' = [recordingCall EXCEPT ![k] = "page"]
  /\ UNCHANGED <<recordings, dropped>>

ListRecordings(k) ==
  /\ recordingCall[k] = "page"
  /\ recordingCall' = [recordingCall EXCEPT ![k] = "none"]
  /\ UNCHANGED <<recordings, dropped>>

UpdateRecording(k, id, status, size) ==
  /\ recordingCall[k] = "none"
  /\ StoreRecording(id, status, size)
  /\ UNCHANGED <<dropped, recordingCall>>

DeleteRecording(k, id) ==
  /\ recordingCall[k] = "none"
  /\ DropRecording(id)
  /\ UNCHANGED recordingCall

\* The process ends and another starts: requests in flight are cut off, rows
\* stay.
Restart ==
  /\ recordingCall' = [k \in Calls |-> "none"]
  /\ UNCHANGED <<recordings, dropped>>

Next ==
  \/ \E k \in Calls :
       \/ CreateRecording(k) \/ CountRecordings(k) \/ ListRecordings(k)
       \/ \E id \in RowIds :
            \/ DeleteRecording(k, id)
            \/ \E status \in Status, size \in 0 .. MaxSize : UpdateRecording(k, id, status, size)
  \/ Restart

Spec == Init /\ [][Next]_recordingVars

-----------------------------------------------------------------------------

\* A recording that was deleted never comes back, whichever report of it is
\* still on its way: a report updates and does not insert.
DeletedRecordingsStay == \A r \in recordings : r.id \notin dropped
=============================================================================
