----------------------------- MODULE Workspace -----------------------------
(***************************************************************************)
(* services/workspace-service: workspaces and the hosts in them.  The list *)
(* of hosts is replaced one row at a time, from a list read before, and    *)
(* the error of a row is ignored.  A step is one SQL statement.            *)
(***************************************************************************)
CONSTANTS
  Calls,       \* requests in flight at one time
  RowIds,      \* ids of workspaces, deleted softly and not reused
  Users,
  Names,       \* values of a column that an update changes
  Hosts

VARIABLES
  workspaces,  \* rows of workspaces
  members,     \* rows of workspace_hosts: pairs of a workspace and a host
  wsCall       \* requests in flight

workspaceVars == <<workspaces, members, wsCall>>

Row == [id : RowIds, user : Users, name : Names, deleted : BOOLEAN]

\* calm is observed only: no other request has written the hosts of the
\* workspace and no statement of this one has failed.
Idle == [op |-> "none"]
Call ==
  {Idle}
    \cup [op : {"attach"}, id : RowIds, todo : SUBSET Hosts]
    \cup [op : {"list", "update"}, id : RowIds, wanted : SUBSET Hosts]
    \cup [op : {"replace"}, id : RowIds, wanted : SUBSET Hosts,
          drop : SUBSET Hosts, add : SUBSET Hosts, calm : BOOLEAN]
    \cup [op : {"page", "view", "hosts"}, by : Users]

TypeOK ==
  /\ workspaces \subseteq Row
  /\ \A w, v \in workspaces : w.id = v.id => w = v
  /\ members \subseteq RowIds \X Hosts
  /\ wsCall \in [Calls -> Call]

Init ==
  /\ workspaces = {}
  /\ members = {}
  /\ wsCall = [k \in Calls |-> Idle]

Become(k, call) == wsCall' = [wsCall EXCEPT ![k] = call]
Answer(k) == Become(k, Idle)

-----------------------------------------------------------------------------
(* The tables *)

GetWorkspaceByID(id) == {w \in workspaces : w.id = id /\ ~w.deleted}
InsertWorkspace(id, u, name) ==
  /\ ~\E w \in workspaces : w.id = id
  /\ workspaces' =
       workspaces \cup {[id |-> id, user |-> u, name |-> name, deleted |-> FALSE]}

\* Slip: the statement does not look at deleted_at.
UpdateAnyRow(id, name) ==
  LET found == {w \in workspaces : w.id = id} IN
  workspaces' = (workspaces \ found) \cup {[w EXCEPT !.name = name] : w \in found}

\* UPDATE ... WHERE id AND deleted_at IS NULL
UpdateRow(id, name) ==
  LET live == GetWorkspaceByID(id) IN
  workspaces' = (workspaces \ live) \cup {[w EXCEPT !.name = name] : w \in live}

\* UPDATE ... SET deleted_at: workspace_hosts keeps its rows.
StoreDeletion(id) ==
  LET live == GetWorkspaceByID(id) IN
  workspaces' = (workspaces \ live) \cup {[w EXCEPT !.deleted = TRUE] : w \in live}

ListHosts(id) == {h \in Hosts : <<id, h>> \in members}
Exists(id) == \E w \in workspaces : w.id = id

\* joinConditions puts a comma where a WHERE clause needs an AND, so a list
\* with a filter is a syntax error; one without shows everybody's rows.
ListWorkspaces(filtered) == IF filtered THEN {} ELSE {w \in workspaces : ~w.deleted}

\* Requests of others that are replacing the hosts of the workspace
Disturb(k, id) ==
  [j \in Calls |->
     IF j # k /\ wsCall[j].op = "replace" /\ wsCall[j].id = id
       THEN [wsCall[j] EXCEPT !.calm = FALSE] ELSE wsCall[j]]

\* INSERT ... ON CONFLICT DO NOTHING; the foreign key asks for a row, and
\* a workspace that is deleted softly is one.
InsertHost(id, h) ==
  members' = IF Exists(id) THEN members \cup {<<id, h>>} ELSE members

DeleteHost(id, h) == members' = members \ {<<id, h>>}

-----------------------------------------------------------------------------
(* Workspaces *)

CreateWorkspace(k, u, name, hosts) ==
  /\ wsCall[k] = Idle
  /\ \E id \in RowIds :
       /\ InsertWorkspace(id, u, name)
       /\ Become(k, [op |-> "attach", id |-> id, todo |-> hosts])
  /\ UNCHANGED members

\* One host after the other; what fails is left out without a word.
AttachNext(k) ==
  /\ wsCall[k].op = "attach"
  /\ LET call == wsCall[k] IN
     \/ call.todo = {} /\ Answer(k) /\ UNCHANGED members
     \/ \E h \in call.todo :
          /\ InsertHost(call.id, h) \/ UNCHANGED members
          /\ wsCall' = [Disturb(k, call.id) EXCEPT ![k] = [call EXCEPT !.todo = @ \ {h}]]
  /\ UNCHANGED workspaces

\* Two statements: how many rows there are, and a page of them.
CountWorkspaces(k, u) ==
  /\ wsCall[k] = Idle
  /\ Become(k, [op |-> "page", by |-> u])
  /\ UNCHANGED <<workspaces, members>>

\* Two statements: the row, and then its hosts.
GetWorkspace(k, u) ==
  /\ wsCall[k] = Idle
  /\ \E id \in RowIds : GetWorkspaceByID(id) # {}
  /\ Become(k, [op |-> "view", by |-> u])
  /\ UNCHANGED <<workspaces, members>>

AnswerRead(k) ==
  /\ wsCall[k].op \in {"page", "view", "hosts"}
  /\ Answer(k)
  /\ UNCHANGED <<workspaces, members>>

UpdateWorkspace(k, id, wanted) ==
  /\ wsCall[k] = Idle
  /\ GetWorkspaceByID(id) # {}
  /\ Become(k, [op |-> "update", id |-> id, wanted |-> wanted])
  /\ UNCHANGED <<workspaces, members>>

\* An update without a column is no statement; the row is read again, and the
\* request goes on when it is gone.
StoreWorkspace(k, name) ==
  /\ wsCall[k].op = "update"
  /\ \/ /\ UpdateRow(wsCall[k].id, name) \/ UNCHANGED workspaces
        /\ Become(k, [wsCall[k] EXCEPT !.op = "list"])
     \/ Answer(k) /\ UNCHANGED workspaces
  /\ UNCHANGED members

\* Slip: every host that was there is dropped, and only new ones are added.
ReplaceAll(k) ==
  /\ wsCall[k].op = "list"
  /\ LET call == wsCall[k] IN
     \E existing \in SUBSET ListHosts(call.id) :
       Become(k, [op |-> "replace", id |-> call.id, wanted |-> call.wanted,
                  drop |-> existing, add |-> call.wanted \ existing,
                  calm |-> existing = ListHosts(call.id)])
  /\ UNCHANGED <<workspaces, members>>

\* What to drop and what to add follows from the hosts as they are now; the
\* error of a list that fails, or ends early, is not looked at.
ReplaceHosts(k) ==
  /\ wsCall[k].op = "list"
  /\ LET call == wsCall[k] IN
     \E existing \in SUBSET ListHosts(call.id) :
       Become(k, [op |-> "replace", id |-> call.id, wanted |-> call.wanted,
                  drop |-> existing \ call.wanted, add |-> call.wanted \ existing,
                  calm |-> existing = ListHosts(call.id)])
  /\ UNCHANGED <<workspaces, members>>

DropNext(k) ==
  /\ wsCall[k].op = "replace"
  /\ LET call == wsCall[k]
         others == Disturb(k, call.id)
     IN  \E h \in call.drop :
           \/ /\ DeleteHost(call.id, h)
              /\ wsCall' = [others EXCEPT ![k] = [call EXCEPT !.drop = @ \ {h}]]
           \/ /\ UNCHANGED members
              /\ wsCall' = [others EXCEPT ![k] = [call EXCEPT !.drop = @ \ {h}, !.calm = FALSE]]
  /\ UNCHANGED workspaces

AddNext(k) ==
  /\ wsCall[k].op = "replace" /\ wsCall[k].drop = {}
  /\ LET call == wsCall[k]
         others == Disturb(k, call.id)
     IN  \E h \in call.add :
           \/ /\ InsertHost(call.id, h)
              /\ wsCall' = [others EXCEPT ![k] = [call EXCEPT !.add = @ \ {h}]]
           \/ /\ UNCHANGED members
              /\ wsCall' = [others EXCEPT ![k] = [call EXCEPT !.add = @ \ {h}, !.calm = FALSE]]
  /\ UNCHANGED workspaces

Replaced(k) == wsCall[k].op = "replace" /\ wsCall[k].drop = {} /\ wsCall[k].add = {}

AnswerUpdate(k) ==
  /\ Replaced(k)
  /\ Answer(k)
  /\ UNCHANGED <<workspaces, members>>

DeleteWorkspace(k, id) ==
  /\ wsCall[k] = Idle
  /\ StoreDeletion(id)
  /\ UNCHANGED <<members, wsCall>>

-----------------------------------------------------------------------------
(* Single hosts *)

AddHost(k, id, h) ==
  /\ wsCall[k] = Idle
  /\ InsertHost(id, h)
  /\ wsCall' = Disturb(k, id)
  /\ UNCHANGED workspaces

RemoveHost(k, id, h) ==
  /\ wsCall[k] = Idle
  /\ DeleteHost(id, h)
  /\ wsCall' = Disturb(k, id)
  /\ UNCHANGED workspaces

\* The process ends and another starts: requests in flight are cut off, rows
\* stay.
Restart ==
  /\ wsCall' = [k \in Calls |-> Idle]
  /\ UNCHANGED <<workspaces, members>>

Next ==
  \/ \E k \in Calls :
       \/ \E u \in Users :
            \/ \E name \in Names, hosts \in SUBSET Hosts : CreateWorkspace(k, u, name, hosts)
            \/ CountWorkspaces(k, u) \/ GetWorkspace(k, u)
       \/ AttachNext(k) \/ AnswerRead(k)
       \/ \E id \in RowIds :
            \/ \E wanted \in SUBSET Hosts : UpdateWorkspace(k, id, wanted)
            \/ DeleteWorkspace(k, id)
            \/ \E h \in Hosts : AddHost(k, id, h) \/ RemoveHost(k, id, h)
       \/ \E name \in Names : StoreWorkspace(k, name)
       \/ ReplaceHosts(k) \/ DropNext(k) \/ AddNext(k) \/ AnswerUpdate(k)
  \/ Restart

Spec == Init /\ [][Next]_workspaceVars

-----------------------------------------------------------------------------

\* A request that replaces the hosts leaves exactly the ones it names, unless
\* a statement of its failed or another request wrote the same list: the
\* steps from the list it read to the last row are sound on their own, and
\* only on their own.
ReplacingIsExact ==
  \A k \in Calls : Replaced(k) /\ wsCall[k].calm => ListHosts(wsCall[k].id) = wsCall[k].wanted

\* A deleted workspace stays deleted and as it was, whichever update has
\* read it before.
DeletedWorkspacesStay == [][\A w \in workspaces : w.deleted => w \in workspaces']_workspaces
=============================================================================
