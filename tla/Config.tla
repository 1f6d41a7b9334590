------------------------------- MODULE Config -------------------------------
(***************************************************************************)
(* services/config-service: keys with a value, of the whole installation   *)
(* or of one organisation or user.  A step is one SQL statement; a batch   *)
(* is sent before one Sync, so it commits or fails as a whole.             *)
(***************************************************************************)
CONSTANTS
  Calls,      \* requests in flight at one time
  RowIds,     \* ids of rows; rows are deleted softly and ids not reused
  Owners,     \* organisations and users, the values of scope_id
  Keys,
  Global      \* the scope without a scope_id

VARIABLES
  configs,    \* the rows
  configCall  \* requests in flight

configVars == <<configs, configCall>>

Scopes == Owners \cup {Global}
Row == [id : RowIds, scope : Scopes, key : Keys, secret : BOOLEAN, edits : {0, 1}, deleted : BOOLEAN]

Idle == [op |-> "none"]
Call ==
  {Idle}
    \cup [op : {"fetch"}, id : RowIds]
    \cup [op : {"page"}, scope : Scopes]

TypeOK ==
  /\ configs \subseteq Row
  /\ \A c, d \in configs : c.id = d.id => c = d
  /\ configCall \in [Calls -> Call]

Init ==
  /\ configs = {}
  /\ configCall = [k \in Calls |-> Idle]

Become(k, call) == configCall' = [configCall EXCEPT ![k] = call]
Answer(k) == Become(k, Idle)

-----------------------------------------------------------------------------
(* The table *)

GetConfigByID(id) == {c \in configs : c.id = id /\ ~c.deleted}

\* IS NOT DISTINCT FROM: here two missing scope_ids are the same.
GetConfigByKey(scope, key) == {c \in configs : c.scope = scope /\ c.key = key /\ ~c.deleted}

ListConfigs(scope) == {c \in configs : c.scope = scope /\ ~c.deleted}

\* UPDATE ... WHERE id AND deleted_at IS NULL, of the columns that are named
\* and no other.  No error when no row is hit.
StoreEdit(id) ==
  LET live == GetConfigByID(id) IN
  \/ configs' = (configs \ live) \cup {[c EXCEPT !.edits = 1] : c \in live}
  \/ \E secret \in BOOLEAN :
       configs' = (configs \ live) \cup {[c EXCEPT !.secret = secret] : c \in live}

\* UPDATE ... SET deleted_at, likewise.
StoreDeletion(id) ==
  LET live == GetConfigByID(id) IN
  configs' = (configs \ live) \cup {[c EXCEPT !.deleted = TRUE] : c \in live}

\* Slip: the index is not consulted for the rows of a batch against each other.
IndexAlone(rows) ==
  \A r \in rows : r.scope # Global => GetConfigByKey(r.scope, r.key) = {}

\* CREATE UNIQUE INDEX ... (scope, scope_id, key) WHERE deleted_at IS NULL:
\* there two missing scope_ids differ, so it lets a global key in twice.
IndexAllows(rows) ==
  \A r \in rows : r.scope # Global =>
    /\ GetConfigByKey(r.scope, r.key) = {}
    /\ \A q \in rows : q.scope = r.scope /\ q.key = r.key => q = r

Insert(rows) == IndexAllows(rows) /\ configs' = configs \cup rows

\* All rows of the batch, or none.
InsertBatch(rows) == Insert(rows)

New(id, scope, key, secret) ==
  [id |-> id, scope |-> scope, key |-> key, secret |-> secret, edits |-> 0, deleted |-> FALSE]

FreshIds == RowIds \ {c.id : c \in configs}

-----------------------------------------------------------------------------
(* The handlers *)

CreateConfig(k, scope, key) ==
  /\ configCall[k] = Idle
  /\ \E id \in FreshIds, secret \in BOOLEAN : Insert({New(id, scope, key, secret)})
  /\ UNCHANGED configCall

\* A batch of two stands for a batch of any length.
BulkCreateConfigs(k, scope, first, second) ==
  /\ configCall[k] = Idle
  /\ \E i, j \in FreshIds :
       i # j /\ InsertBatch({New(i, scope, first, FALSE), New(j, scope, second, FALSE)})
  /\ UNCHANGED configCall

\* Two statements: how many rows there are, and a page of them.
CountConfigs(k, scope) ==
  /\ configCall[k] = Idle
  /\ Become(k, [op |-> "page", scope |-> scope])
  /\ UNCHANGED configs

ListPage(k) ==
  /\ configCall[k].op = "page"
  /\ Answer(k)
  /\ UNCHANGED configs

\* Slip: no "AND deleted_at IS NULL".
UpdateAnyRow(k, id) ==
  /\ configCall[k] = Idle
  /\ configs' = {IF c.id = id THEN [c EXCEPT !.edits = 1] ELSE c : c \in configs}
  /\ Become(k, [op |-> "fetch", id |-> id])

\* The columns the request names; then the row is read again for the answer,
\* which is a 500 when it is not or no longer there.
UpdateConfig(k, id) ==
  /\ configCall[k] = Idle
  /\ StoreEdit(id)
  /\ Become(k, [op |-> "fetch", id |-> id])

FetchUpdated(k) ==
  /\ configCall[k].op = "fetch"
  /\ Answer(k)
  /\ UNCHANGED configs

DeleteConfig(k, id) ==
  /\ configCall[k] = Idle
  /\ StoreDeletion(id)
  /\ UNCHANGED configCall

\* The process ends and another starts: requests in flight are cut off, rows
\* stay.
Restart ==
  /\ configCall' = [k \in Calls |-> Idle]
  /\ UNCHANGED configs

Next ==
  \/ \E k \in Calls :
       \/ \E scope \in Scopes, key \in Keys :
            \/ CreateConfig(k, scope, key)
            \/ \E other \in Keys : BulkCreateConfigs(k, scope, key, other)
       \/ (\E scope \in Scopes : CountConfigs(k, scope)) \/ ListPage(k)
       \/ \E id \in RowIds : UpdateConfig(k, id) \/ DeleteConfig(k, id)
       \/ FetchUpdated(k)
  \/ Restart

Spec == Init /\ [][Next]_configVars

-----------------------------------------------------------------------------

\* A key of an organisation or a user has one value: however single
\* requests, batches and deletions overlap, the lookup by key finds at most
\* one row.  (It does not hold of the global scope.)
KeysHaveOneValue ==
  \A owner \in Owners, key \in Keys : \A c, d \in GetConfigByKey(owner, key) : c = d

\* A deleted row stays deleted and as it was.
DeletedConfigsStay == [][\A c \in configs : c.deleted => c \in configs']_configs
=============================================================================
