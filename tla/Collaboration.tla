---------------------------- MODULE Collaboration ----------------------------
(***************************************************************************)
(* services/collaboration-service: shared sessions and who is in them.     *)
(* CreateSession inserts a nil list, which is NULL and not the empty list  *)
(* of the column's default; NOT (u = ANY (NULL)) is not true, so joining   *)
(* changes no row.  Leaving is refused before its statement, as nothing    *)
(* sets the user_id it asks for, and is not a step here.                   *)
(***************************************************************************)
CONSTANTS
  Calls,          \* requests in flight at one time
  RowIds,         \* ids of sessions; rows are never deleted
  Users,
  Null            \* no list of participants

VARIABLES
  sessions,       \* rows of collaboration_sessions
  collabCall      \* requests in flight

collabVars == <<sessions, collabCall>>

Row == [id : RowIds, participants : {Null} \cup SUBSET Users, ended : BOOLEAN]

Idle == [op |-> "none"]
Call == {Idle} \cup [op : {"page"}]

TypeOK ==
  /\ sessions \subseteq Row
  /\ \A s, t \in sessions : s.id = t.id => s = t
  /\ collabCall \in [Calls -> Call]

Init ==
  /\ sessions = {}
  /\ collabCall = [k \in Calls |-> Idle]

\* WHERE id AND ended_at IS NULL; the list asks for ended_at IS NULL too.
GetSessionByID(id) == {s \in sessions : s.id = id /\ ~s.ended}

\* NOT ($2 = ANY(participants)): not true of NULL.
NotIn(u, s) == s.participants # Null /\ u \notin s.participants

InsertSession(id) ==
  /\ \A s \in sessions : s.id # id
  /\ sessions' = sessions \cup {[id |-> id, participants |-> Null, ended |-> FALSE]}

\* UPDATE ... SET participants = array_append(...) WHERE id, not ended and
\* NotIn; no error when no row is hit.
AppendParticipant(id, u) ==
  LET old == {s \in GetSessionByID(id) : NotIn(u, s)} IN
  sessions' = (sessions \ old) \cup {[s EXCEPT !.participants = @ \cup {u}] : s \in old}

\* UPDATE ... SET ended_at WHERE id, not ended; an error when no row is hit.
StoreEnd(id) ==
  LET live == GetSessionByID(id) IN
  /\ live # {}
  /\ sessions' = (sessions \ live) \cup {[s EXCEPT !.ended = TRUE] : s \in live}

-----------------------------------------------------------------------------

CreateSession(k) ==
  /\ collabCall[k] = Idle
  /\ \E id \in RowIds : InsertSession(id)
  /\ UNCHANGED collabCall

\* Two statements: how many rows there are, and a page of them.
CountSessions(k) ==
  /\ collabCall[k] = Idle
  /\ collabCall' = [collabCall EXCEPT ![k] = [op |-> "page"]]
  /\ UNCHANGED sessions

ListSessions(k) ==
  /\ collabCall[k].op = "page"
  /\ collabCall' = [collabCall EXCEPT ![k] = Idle]
  /\ UNCHANGED sessions

\* 200 whether or not a row was hit.
JoinSession(k, id, u) ==
  /\ collabCall[k] = Idle
  /\ AppendParticipant(id, u)
  /\ UNCHANGED collabCall

EndSession(k, id) ==
  /\ collabCall[k] = Idle
  /\ StoreEnd(id)
  /\ UNCHANGED collabCall

\* The process ends and another starts: requests in flight are cut off, rows
\* stay.
Restart ==
  /\ collabCall' = [k \in Calls |-> Idle]
  /\ UNCHANGED sessions

Next ==
  \/ \E k \in Calls :
       \/ CreateSession(k) \/ CountSessions(k) \/ ListSessions(k)
       \/ \E id \in RowIds : EndSession(k, id) \/ \E u \in Users : JoinSession(k, id, u)
  \/ Restart

Spec == Init /\ [][Next]_collabVars

-----------------------------------------------------------------------------

\* A session that has ended stays ended and as it was.  As participants is
\* always NULL, what could still write the row is a second end only.
EndedSessionsStay == [][\A s \in sessions : s.ended => s \in sessions']_sessions
=============================================================================
