-------------------------------- MODULE Org --------------------------------
(***************************************************************************)
(* services/org-service: organisations, teams and memberships, and the     *)
(* two counters the database's triggers keep.  A statement is one atomic   *)
(* step together with its triggers and foreign keys; a handler of several  *)
(* statements holds nothing between them.                                  *)
(***************************************************************************)
EXTENDS Integers, FiniteSets

CONSTANTS
  Calls,        \* requests in flight at one time
  RowIds,       \* ids of the rows of each table, reused when nothing refers to one
  Users,
  Slugs         \* slugs of organisations, unique in the table

VARIABLES
  orgs, teams, memberships,   \* the three tables
  orgCall                     \* requests in flight

orgVars == <<orgs, teams, memberships, orgCall>>

NoTeam == "NULL"
Roles == {"owner", "member"}
Organization ==
  [id : RowIds, slug : Slugs, owner : Users, deleted : BOOLEAN, memberCount : Nat]
Team == [id : RowIds, org : RowIds, memberCount : Nat]
Membership == [id : RowIds, org : RowIds, user : Users, team : RowIds \cup {NoTeam}, role : Roles]

Idle == [op |-> "none"]
Call ==
  {Idle}
    \cup [op : {"addOwner"}, org : RowIds, owner : Users]
    \cup [op : {"updateTeam"}, team : RowIds]
    \cup [op : {"updateMember"}, row : Membership]

TypeOK ==
  /\ orgs \subseteq Organization
  /\ teams \subseteq Team
  /\ memberships \subseteq Membership
  /\ orgCall \in [Calls -> Call]

Init ==
  /\ orgs = {}
  /\ teams = {}
  /\ memberships = {}
  /\ orgCall = [k \in Calls |-> Idle]

Become(k, call) == orgCall' = [orgCall EXCEPT ![k] = call]
Answer(k) == Become(k, Idle)

\* authMiddleware: every route asks for a token, and none for a role.
Caller(k) == orgCall[k] = Idle

-----------------------------------------------------------------------------
(* The triggers, the foreign keys and the statements *)

\* update_org_member_count, for rows inserted into or deleted from org o.
CountInOrg(o, by) ==
  orgs' = {IF r.id = o THEN [r EXCEPT !.memberCount = @ + by] ELSE r : r \in orgs}

\* Slip: an UPDATE of a membership forgets the team it leaves.
CountJoins(old, new) ==
  teams' = {IF t.id = new /\ old # new THEN [t EXCEPT !.memberCount = @ + 1] ELSE t : t \in teams}

\* update_team_member_count, for a membership whose team was old and is new.
CountInTeams(old, new) ==
  teams' = {[t EXCEPT !.memberCount = @ + (IF t.id = new /\ old # new THEN 1 ELSE 0)
                                        - (IF t.id = old /\ old # new THEN 1 ELSE 0)] : t \in teams}

Free(table, held) == RowIds \ ({r.id : r \in table} \cup held)
HeldTeams == {orgCall[k].team : k \in {j \in Calls : orgCall[j].op = "updateTeam"}}
HeldMembers == {orgCall[k].row.id : k \in {j \in Calls : orgCall[j].op = "updateMember"}}

GetOrgByID(id) == {o \in orgs : o.id = id /\ ~o.deleted}
GetOrgBySlug(slug) == {o \in orgs : o.slug = slug /\ ~o.deleted}
ListOrgs(u) ==
  {o \in orgs : ~o.deleted /\ \E m \in memberships : m.org = o.id /\ m.user = u}
GetTeamByID(id) == {t \in teams : t.id = id}
ListTeams(o) == {t \in teams : t.org = o}
GetMember(o, u) == {m \in memberships : m.org = o /\ m.user = u}
ListMembers(o, inTeam) ==
  {m \in memberships : m.org = o /\ (inTeam # NoTeam => m.team = inTeam)}
CountMembers(o) == Cardinality({m \in memberships : m.org = o})

\* INSERT of an organisation; a slug that any row has, deleted or not, is refused.
InsertOrg(id, slug, u) ==
  /\ \A o \in orgs : o.slug # slug
  /\ orgs' = orgs \cup {[id |-> id, slug |-> slug, owner |-> u, deleted |-> FALSE, memberCount |-> 1]}

\* INSERT of a membership: the organisation and the team must exist, and
\* (org_id, user_id) is unique.
InsertMember(o, u, t, role) ==
  /\ \E r \in orgs : r.id = o
  /\ t # NoTeam => GetTeamByID(t) # {}
  /\ GetMember(o, u) = {}
  /\ \E id \in Free(memberships, HeldMembers) :
       memberships' = memberships \cup
         {[id |-> id, org |-> o, user |-> u, team |-> t, role |-> role]}
  /\ CountInOrg(o, 1)
  /\ CountInTeams(NoTeam, t)

-----------------------------------------------------------------------------
(* Organisations *)

\* The organisation is a statement of its own; its owner joins in a later one.
CreateOrg(k, u, slug) ==
  /\ Caller(k)
  /\ \E id \in Free(orgs, {}) :
       InsertOrg(id, slug, u) /\ Become(k, [op |-> "addOwner", org |-> id, owner |-> u])
  /\ UNCHANGED <<teams, memberships>>

\* A failure is answered with 503, and the organisation stays.
AddOwner(k) ==
  /\ orgCall[k].op = "addOwner"
  /\ \/ InsertMember(orgCall[k].org, orgCall[k].owner, NoTeam, "owner")
     \/ UNCHANGED <<orgs, teams, memberships>>
  /\ Answer(k)

\* One UPDATE of the columns the request gives; of those only the slug
\* can be refused.
UpdateOrg(k, id, slug) ==
  /\ Caller(k)
  /\ GetOrgByID(id) # {}
  /\ \A o \in orgs : o.id # id => o.slug # slug
  /\ orgs' = {IF o.id = id THEN [o EXCEPT !.slug = slug] ELSE o : o \in orgs}
  /\ UNCHANGED <<teams, memberships, orgCall>>

\* A soft delete: teams and memberships stay, and so does the slug.
DeleteOrg(k, id) ==
  /\ Caller(k)
  /\ GetOrgByID(id) # {}
  /\ orgs' = {IF o.id = id THEN [o EXCEPT !.deleted = TRUE] ELSE o : o \in orgs}
  /\ UNCHANGED <<teams, memberships, orgCall>>

-----------------------------------------------------------------------------
(* Teams *)

\* member_count is not among what the client gives: a team starts at 0.
CreateTeam(k, o) ==
  /\ Caller(k)
  /\ \E r \in orgs : r.id = o
  /\ \E id \in Free(teams, HeldTeams) : teams' = teams \cup {[id |-> id, org |-> o, memberCount |-> 0]}
  /\ UNCHANGED <<orgs, memberships, orgCall>>

\* The row is read, and its name and description written back; a counter
\* that was read with them is not.
UpdateTeam(k, id) ==
  /\ Caller(k)
  /\ GetTeamByID(id) # {}
  /\ Become(k, [op |-> "updateTeam", team |-> id])
  /\ UNCHANGED <<orgs, teams, memberships>>

StoreTeam(k) ==
  /\ orgCall[k].op = "updateTeam"
  /\ Answer(k)
  /\ UNCHANGED <<orgs, teams, memberships>>

\* ON DELETE SET NULL: memberships of the team lose it.
DeleteTeam(k, id) ==
  /\ Caller(k)
  /\ teams' = {t \in teams : t.id # id}
  /\ memberships' = {IF m.team = id THEN [m EXCEPT !.team = NoTeam] ELSE m : m \in memberships}
  /\ UNCHANGED <<orgs, orgCall>>

-----------------------------------------------------------------------------
(* Memberships *)

AddMember(k, o, u, t, role) ==
  /\ Caller(k)
  /\ InsertMember(o, u, t, role)
  /\ UNCHANGED orgCall

\* The row is read; role and team are both written back, whichever of the
\* two the request gives.
UpdateMember(k, o, u, t, role) ==
  /\ Caller(k)
  /\ \E m \in GetMember(o, u) :
       \/ Become(k, [op |-> "updateMember", row |-> [m EXCEPT !.role = role]])
       \/ Become(k, [op |-> "updateMember", row |-> [m EXCEPT !.team = t]])
  /\ UNCHANGED <<orgs, teams, memberships>>

\* UPDATE ... WHERE id; the foreign key refuses a team that has gone.
StoreMember(k) ==
  /\ orgCall[k].op = "updateMember"
  /\ LET row == orgCall[k].row
         old == {m \in memberships : m.id = row.id}
     IN  IF old = {} \/ (row.team # NoTeam /\ GetTeamByID(row.team) = {})
           THEN UNCHANGED <<teams, memberships>>
           ELSE /\ memberships' = (memberships \ old) \cup
                     {[m EXCEPT !.role = row.role, !.team = row.team] : m \in old}
                /\ \E m \in old : CountInTeams(m.team, row.team)
  /\ Answer(k)
  /\ UNCHANGED orgs

RemoveMember(k, o, u) ==
  /\ Caller(k)
  /\ \E m \in GetMember(o, u) :
       /\ memberships' = memberships \ {m}
       /\ CountInOrg(o, -1)
       /\ CountInTeams(m.team, NoTeam)
  /\ UNCHANGED orgCall

\* The process ends and another starts: an organisation may be left without
\* its owner's membership.
Restart ==
  /\ orgCall' = [k \in Calls |-> Idle]
  /\ UNCHANGED <<orgs, teams, memberships>>

Next ==
  \/ \E k \in Calls :
       \/ \E u \in Users, slug \in Slugs : CreateOrg(k, u, slug)
       \/ AddOwner(k) \/ StoreTeam(k) \/ StoreMember(k)
       \/ \E id \in RowIds, slug \in Slugs : UpdateOrg(k, id, slug)
       \/ \E id \in RowIds :
            \/ DeleteOrg(k, id) \/ CreateTeam(k, id) \/ UpdateTeam(k, id)
            \/ \E u \in Users : RemoveMember(k, id, u)
       \/ \E t \in teams : DeleteTeam(k, t.id)
       \/ \E o \in RowIds, u \in Users, role \in Roles :
            \/ \E t \in RowIds \cup {NoTeam} : AddMember(k, o, u, t, role)
            \/ \E t \in RowIds : UpdateMember(k, o, u, t, role)
  \/ Restart

Spec == Init /\ [][Next]_orgVars

-----------------------------------------------------------------------------

\* The counters the triggers keep agree with the memberships there are,
\* whatever was added, moved and removed, and in whatever order stale rows
\* were written back: a team's is exact, an organisation's one too high
\* from the start, for CreateOrg inserts a 1 and the trigger counts the owner
\* again.
CountsFollowMemberships ==
  /\ \A t \in teams : t.memberCount = Cardinality({m \in memberships : m.team = t.id})
  /\ \A o \in orgs : o.memberCount = 1 + CountMembers(o.id)
=============================================================================
