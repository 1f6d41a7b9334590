-------------------------------- MODULE Host --------------------------------
(***************************************************************************)
(* services/host-service: the hosts a user connects to.  An update reads   *)
(* the row, changes what the request names and writes every column back,   *)
(* so of two that overlap the later wins all columns.  A step is one SQL   *)
(* statement.  Nothing calls UpdateConnectionStatus or                     *)
(* CreateConnectionLog: the status stays unknown and the log empty.        *)
(***************************************************************************)
CONSTANTS
  Calls,     \* requests in flight at one time
  RowIds,    \* ids of hosts, deleted softly and not reused
  Users,
  Texts      \* what a column may hold

VARIABLES
  hosts,     \* the rows
  hostCall   \* requests in flight

hostVars == <<hosts, hostCall>>

\* name and vault stand for the columns an update may name; user is one it
\* may not.
Row == [id : RowIds, user : Users, name : Texts, vault : Texts, deleted : BOOLEAN]

Idle == [op |-> "none"]
Call ==
  {Idle}
    \cup [op : {"store"}, row : Row]
    \cup [op : {"count"}, by : Users, page : SUBSET Row]

TypeOK ==
  /\ hosts \subseteq Row
  /\ \A h, g \in hosts : h.id = g.id => h = g
  /\ hostCall \in [Calls -> Call]

Init ==
  /\ hosts = {}
  /\ hostCall = [k \in Calls |-> Idle]

Become(k, call) == hostCall' = [hostCall EXCEPT ![k] = call]
Answer(k) == Become(k, Idle)

-----------------------------------------------------------------------------
(* The table *)

GetHostByID(id) == {h \in hosts : h.id = id /\ ~h.deleted}
ListHosts(user) == {h \in hosts : h.user = user /\ ~h.deleted}

InsertHost(row) ==
  /\ \A h \in hosts : h.id # row.id
  /\ hosts' = hosts \cup {row}

\* UPDATE ... SET deleted_at WHERE id AND deleted_at IS NULL
StoreDeletion(id) ==
  LET live == GetHostByID(id) IN
  hosts' = (hosts \ live) \cup {[h EXCEPT !.deleted = TRUE] : h \in live}

\* The row with every column of its own but those an update writes
Written(h, row) == [h EXCEPT !.name = row.name, !.vault = row.vault]

\* UPDATE ... WHERE id AND deleted_at IS NULL; no error when no row is hit.
UpdateHost(row) ==
  LET live == GetHostByID(row.id)
  IN  hosts' = (hosts \ live) \cup {Written(h, row) : h \in live}

-----------------------------------------------------------------------------
(* The handlers *)

CreateHost(k, u, name, vault) ==
  /\ hostCall[k] = Idle
  /\ \E id \in RowIds :
       InsertHost([id |-> id, user |-> u, name |-> name, vault |-> vault, deleted |-> FALSE])
  /\ UNCHANGED hostCall

\* A page, then how many rows there are; a count that fails is the page's.
PageHosts(k, u) ==
  /\ hostCall[k] = Idle
  /\ Become(k, [op |-> "count", by |-> u, page |-> ListHosts(u)])
  /\ UNCHANGED hosts

CountHosts(k) ==
  /\ hostCall[k].op = "count"
  /\ Answer(k)
  /\ UNCHANGED hosts

\* The row is read for an update; whoever asks, no owner is compared.
ReadForUpdate(k, id, name, vault) ==
  /\ hostCall[k] = Idle
  /\ \E h \in GetHostByID(id), new \in SUBSET {"name", "vault"} :
       Become(k, [op |-> "store",
                  row |-> [h EXCEPT !.name  = IF "name"  \in new THEN name  ELSE @,
                                    !.vault = IF "vault" \in new THEN vault ELSE @]])
  /\ UNCHANGED hosts

StoreHost(k) ==
  /\ hostCall[k].op = "store"
  /\ UpdateHost(hostCall[k].row) \/ UNCHANGED hosts
  /\ Answer(k)

DeleteHost(k, id) ==
  /\ hostCall[k] = Idle
  /\ StoreDeletion(id)
  /\ UNCHANGED hostCall

\* The process ends and another starts: requests in flight are cut off, rows
\* stay.
Restart ==
  /\ hostCall' = [k \in Calls |-> Idle]
  /\ UNCHANGED hosts

Next ==
  \/ \E k \in Calls :
       \/ \E u \in Users :
            PageHosts(k, u) \/ \E name, vault \in Texts : CreateHost(k, u, name, vault)
       \/ \E id \in RowIds :
            DeleteHost(k, id) \/ \E name, vault \in Texts : ReadForUpdate(k, id, name, vault)
       \/ CountHosts(k) \/ StoreHost(k)
  \/ Restart

Spec == Init /\ [][Next]_hostVars

-----------------------------------------------------------------------------

\* A deleted host stays deleted and as it was, whichever update has read it
\* before.
DeletedHostsStay == [][\A h \in hosts : h.deleted => h \in hosts']_hosts
=============================================================================
