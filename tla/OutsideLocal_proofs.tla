------------------------ MODULE OutsideLocal_proofs -------------------------
(***************************************************************************)
(* Proofs about the services of Outside that keep something beside their   *)
(* tables: counters that a trigger moves, the serial numbers of a CA, the  *)
(* buffers of a recorder.  Of each service an inductive invariant is       *)
(* shown to hold at the start, to be kept by every step and to imply what  *)
(* the service promises, for any sets of rows and requests.                *)
(***************************************************************************)
EXTENDS Outside, Sequences, FiniteSetTheorems, FunctionTheorems, TLAPS

-----------------------------------------------------------------------------
(* org-service *)

\* The memberships in a team, and in an organisation.
InTeam(S, t) == {m \in S : m.team = t}
InOrg(S, o) == {m \in S : m.org = o}

\* The inductive invariant: the counts can be kept because the foreign keys
\* are, and because no two memberships have one id.
OrgInv ==
  /\ Orgs!TypeOK
  /\ Orgs!CountsFollowMemberships
  /\ IsFiniteSet(memberships)
  /\ \A a, b \in memberships : a.id = b.id => a = b
  /\ \A m \in memberships :
       /\ \E o \in orgs : o.id = m.org
       /\ m.team # Orgs!NoTeam => \E t \in teams : t.id = m.team

\* The service's module counts as this one does.
CountsAgree ==
  /\ \A t \in teams : t.memberCount = Cardinality(InTeam(memberships, t.id))
  /\ \A o \in orgs : o.memberCount = 1 + Cardinality(InOrg(memberships, o.id))

\* Which is the same.
LEMMA CountsAre == Orgs!CountsFollowMemberships <=> CountsAgree
<1>1. \A S : Orgs!Cardinality(S) = Cardinality(S)
  BY DEF Orgs!Cardinality, Cardinality
<1>2. /\ \A t : InTeam(memberships, t) = {m \in memberships : m.team = t}
      /\ \A o : InOrg(memberships, o) = {m \in memberships : m.org = o}
  BY DEF InTeam, InOrg
<1>3. \A o : Orgs!CountMembers(o) = Cardinality(InOrg(memberships, o))
  BY <1>1, <1>2 DEF Orgs!CountMembers
<1> QED
  BY <1>1, <1>2, <1>3 DEF Orgs!CountsFollowMemberships, CountsAgree

\* One membership more or less moves the counts of its team and of its
\* organisation, and no other.
LEMMA OneMore ==
  ASSUME NEW S, IsFiniteSet(S), NEW m, m \notin S, NEW x
  PROVE  /\ IsFiniteSet(S \cup {m})
         /\ Cardinality(InTeam(S \cup {m}, x)) =
              Cardinality(InTeam(S, x)) + (IF m.team = x THEN 1 ELSE 0)
         /\ Cardinality(InOrg(S \cup {m}, x)) =
              Cardinality(InOrg(S, x)) + (IF m.org = x THEN 1 ELSE 0)
<1>1. /\ IsFiniteSet(InTeam(S, x)) /\ Cardinality(InTeam(S, x)) \in Nat
      /\ IsFiniteSet(InOrg(S, x)) /\ Cardinality(InOrg(S, x)) \in Nat
  <2>1. InTeam(S, x) \in SUBSET S /\ InOrg(S, x) \in SUBSET S
    BY DEF InTeam, InOrg
  <2> QED
    BY <2>1, FS_Subset, FS_CardinalityType
<1>2. /\ InTeam(S \cup {m}, x) = IF m.team = x THEN InTeam(S, x) \cup {m} ELSE InTeam(S, x)
      /\ InOrg(S \cup {m}, x) = IF m.org = x THEN InOrg(S, x) \cup {m} ELSE InOrg(S, x)
      /\ m \notin InTeam(S, x) /\ m \notin InOrg(S, x)
  BY DEF InTeam, InOrg
<1>3. /\ Cardinality(InTeam(S, x) \cup {m}) = Cardinality(InTeam(S, x)) + 1
      /\ Cardinality(InOrg(S, x) \cup {m}) = Cardinality(InOrg(S, x)) + 1
      /\ IsFiniteSet(S \cup {m})
  BY <1>1, <1>2, FS_AddElement
<1> QED
  BY <1>1, <1>2, <1>3

\* And one less.
LEMMA OneLess ==
  ASSUME NEW S, IsFiniteSet(S), NEW m \in S, NEW x
  PROVE  /\ IsFiniteSet(S \ {m})
         /\ Cardinality(InTeam(S, x)) =
              Cardinality(InTeam(S \ {m}, x)) + (IF m.team = x THEN 1 ELSE 0)
         /\ Cardinality(InOrg(S, x)) =
              Cardinality(InOrg(S \ {m}, x)) + (IF m.org = x THEN 1 ELSE 0)
<1>1. IsFiniteSet(S \ {m})
  BY FS_RemoveElement
<1>2. (S \ {m}) \cup {m} = S /\ m \notin S \ {m}
  OBVIOUS
<1> HIDE DEF InTeam, InOrg
<1> QED
  BY <1>1, <1>2, OneMore

\* A count is a number.
LEMMA CountsAreNatural ==
  ASSUME NEW S, IsFiniteSet(S), NEW x
  PROVE  Cardinality(InTeam(S, x)) \in Nat /\ Cardinality(InOrg(S, x)) \in Nat
<1>1. InTeam(S, x) \in SUBSET S /\ InOrg(S, x) \in SUBSET S
  BY DEF InTeam, InOrg
<1> QED
  BY <1>1, FS_Subset, FS_CardinalityType

\* What the counters say is what they said, moved as the memberships moved.
LEMMA OrgKeeps ==
  ASSUME OrgInv,
         memberships' \subseteq Orgs!Membership, orgCall' \in [Calls -> Orgs!Call],
         IsFiniteSet(memberships'),
         \A a, b \in memberships' : a.id = b.id => a = b,
         \A m \in memberships' :
           /\ \E o \in orgs' : o.id = m.org
           /\ m.team # Orgs!NoTeam => \E t \in teams' : t.id = m.team,
         \A t \in teams' :
           /\ t \in [id : RowIds, org : RowIds, memberCount : Int]
           /\ \/ \E q \in teams : q.id = t.id /\
                   t.memberCount = q.memberCount + Cardinality(InTeam(memberships', t.id))
                                     - Cardinality(InTeam(memberships, t.id))
              \/ t.memberCount = Cardinality(InTeam(memberships', t.id)),
         \A o \in orgs' :
           /\ o \in [id : RowIds, slug : Slugs, owner : Users, deleted : BOOLEAN,
                     memberCount : Int]
           /\ \/ \E q \in orgs : q.id = o.id /\
                   o.memberCount = q.memberCount + Cardinality(InOrg(memberships', o.id))
                                     - Cardinality(InOrg(memberships, o.id))
              \/ o.memberCount = 1 + Cardinality(InOrg(memberships', o.id))
  PROVE  OrgInv'
<1>1. \A x : /\ Cardinality(InTeam(memberships', x)) \in Nat
             /\ Cardinality(InOrg(memberships', x)) \in Nat
             /\ Cardinality(InTeam(memberships, x)) \in Nat
             /\ Cardinality(InOrg(memberships, x)) \in Nat
  BY CountsAreNatural DEF OrgInv
<1>2. /\ \A q \in teams : q.memberCount = Cardinality(InTeam(memberships, q.id))
      /\ \A q \in orgs : q.memberCount = 1 + Cardinality(InOrg(memberships, q.id))
  BY CountsAre DEF OrgInv, CountsAgree
<1>3. /\ \A t \in teams' : t.memberCount = Cardinality(InTeam(memberships', t.id))
      /\ \A o \in orgs' : o.memberCount = 1 + Cardinality(InOrg(memberships', o.id))
  BY <1>1, <1>2
<1>4. Orgs!CountsFollowMemberships'
  <2>1. CountsAgree'
    BY <1>3 DEF CountsAgree
  <2> QED
    BY <2>1, CountsAre, PTL
<1>5. /\ teams' \subseteq Orgs!Team
      /\ orgs' \subseteq Orgs!Organization
  BY <1>1, <1>3 DEF Orgs!Team, Orgs!Organization
<1> QED
  BY <1>4, <1>5 DEF OrgInv, Orgs!TypeOK

\* What leaves the memberships and the counters alone.
LEMMA OrgRests ==
  ASSUME OrgInv, UNCHANGED <<teams, memberships>>, orgCall' \in [Calls -> Orgs!Call],
         \A o \in orgs' : o \in Orgs!Organization /\
           \E q \in orgs : q.id = o.id /\ q.memberCount = o.memberCount,
         \A q \in orgs : \E o \in orgs' : q.id = o.id
  PROVE  OrgInv'
  BY DEF OrgInv, Orgs!TypeOK, Orgs!CountsFollowMemberships, Orgs!CountMembers

\* What the op of a call says of its fields.
LEMMA OrgCalls ==
  /\ Orgs!Idle \in Orgs!Call
  /\ \A o \in RowIds, u \in Users : [op |-> "addOwner", org |-> o, owner |-> u] \in Orgs!Call
  /\ \A t \in RowIds : [op |-> "updateTeam", team |-> t] \in Orgs!Call
  /\ \A row \in Orgs!Membership : [op |-> "updateMember", row |-> row] \in Orgs!Call
  /\ \A c \in Orgs!Call : /\ c.op = "addOwner" => c.org \in RowIds /\ c.owner \in Users
                          /\ c.op = "updateMember" => c.row \in Orgs!Membership
  BY DEF Orgs!Call, Orgs!Idle

\* The invariant holds of empty tables.
LEMMA OrgStart == Orgs!Init => OrgInv
  BY OrgCalls, FS_EmptySet
  DEF Orgs!Init, OrgInv, Orgs!TypeOK, Orgs!CountsFollowMemberships

\* What the triggers do to the counters.
LEMMA OrgTrigger ==
  ASSUME OrgInv, NEW o, NEW by \in Int, Orgs!CountInOrg(o, by)
  PROVE  /\ \A r \in orgs' : \E q \in orgs :
              /\ r.id = q.id
              /\ r \in [id : RowIds, slug : Slugs, owner : Users,
                        deleted : BOOLEAN, memberCount : Int]
              /\ r.memberCount = q.memberCount + (IF q.id = o THEN by ELSE 0)
         /\ \A q \in orgs : \E r \in orgs' : r.id = q.id
<1> DEFINE count(r) == IF r.id = o THEN [r EXCEPT !.memberCount = @ + by] ELSE r
<1>1. \A q \in orgs :
        /\ count(q).id = q.id
        /\ count(q) \in [id : RowIds, slug : Slugs, owner : Users,
                         deleted : BOOLEAN, memberCount : Int]
        /\ count(q).memberCount = q.memberCount + (IF q.id = o THEN by ELSE 0)
  BY DEF OrgInv, Orgs!TypeOK, Orgs!Organization
<1>2. orgs' = {count(q) : q \in orgs}
  BY DEF Orgs!CountInOrg
<1> HIDE DEF count
<1> QED
  BY <1>1, <1>2

\* The same of the trigger on teams.
LEMMA TeamTrigger ==
  ASSUME OrgInv, NEW old, NEW new, Orgs!CountInTeams(old, new)
  PROVE  /\ \A r \in teams' : \E q \in teams :
              /\ r.id = q.id
              /\ r \in [id : RowIds, org : RowIds, memberCount : Int]
              /\ r.memberCount = q.memberCount + (IF q.id = new THEN 1 ELSE 0)
                                   - (IF q.id = old THEN 1 ELSE 0)
         /\ \A q \in teams : \E r \in teams' : r.id = q.id
<1> DEFINE count(t) == [t EXCEPT !.memberCount =
             @ + (IF t.id = new /\ old # new THEN 1 ELSE 0)
               - (IF t.id = old /\ old # new THEN 1 ELSE 0)]
<1>1. \A q \in teams :
        /\ count(q).id = q.id
        /\ count(q) \in [id : RowIds, org : RowIds, memberCount : Int]
        /\ count(q).memberCount = q.memberCount + (IF q.id = new THEN 1 ELSE 0)
                                     - (IF q.id = old THEN 1 ELSE 0)
  BY DEF OrgInv, Orgs!TypeOK, Orgs!Team
<1>2. teams' = {count(q) : q \in teams}
  BY DEF Orgs!CountInTeams
<1> HIDE DEF count
<1> QED
  BY <1>1, <1>2

\* The counts the memberships of an organisation have, before and after.
OrgsCount(q, r) ==
  /\ r.id = q.id
  /\ r \in [id : RowIds, slug : Slugs, owner : Users, deleted : BOOLEAN, memberCount : Int]
  /\ r.memberCount = q.memberCount + Cardinality(InOrg(memberships', r.id))
                       - Cardinality(InOrg(memberships, r.id))

\* The trigger on organisations recounts.
LEMMA OrgRecount ==
  ASSUME OrgInv, NEW o, NEW by \in Int, Orgs!CountInOrg(o, by),
         \A x \in RowIds : Cardinality(InOrg(memberships', x)) =
           Cardinality(InOrg(memberships, x)) + (IF x = o THEN by ELSE 0)
  PROVE  /\ \A r \in orgs' : \E q \in orgs : OrgsCount(q, r)
         /\ \A q \in orgs : \E r \in orgs' : r.id = q.id
<1>1. \A x : Cardinality(InOrg(memberships, x)) \in Nat
  BY CountsAreNatural DEF OrgInv
<1>2. ASSUME NEW r \in orgs' PROVE \E q \in orgs : OrgsCount(q, r)
  <2>1. PICK q \in orgs :
          /\ r.id = q.id
          /\ r \in [id : RowIds, slug : Slugs, owner : Users,
                    deleted : BOOLEAN, memberCount : Int]
          /\ r.memberCount = q.memberCount + (IF q.id = o THEN by ELSE 0)
    BY OrgTrigger
  <2>2. q.memberCount \in Nat /\ q.id \in RowIds
    BY DEF OrgInv, Orgs!TypeOK, Orgs!Organization
  <2> QED
    BY <1>1, <2>1, <2>2 DEF OrgsCount
<1> QED
  BY <1>2, OrgTrigger

\* The memberships move, the triggers count, and the keys are respected.
LEMMA OrgMoves ==
  ASSUME OrgInv, NEW old, NEW new, Orgs!CountInTeams(old, new),
         \A r \in orgs' : \E q \in orgs : OrgsCount(q, r),
         \A q \in orgs : \E r \in orgs' : r.id = q.id,
         orgCall' \in [Calls -> Orgs!Call],
         memberships' \subseteq Orgs!Membership, IsFiniteSet(memberships'),
         \A a, b \in memberships' : a.id = b.id => a = b,
         \A m \in memberships' :
           /\ \E r \in orgs : r.id = m.org
           /\ m.team # Orgs!NoTeam => \E t \in teams : t.id = m.team,
         \A x \in RowIds :
           Cardinality(InTeam(memberships', x)) =
             Cardinality(InTeam(memberships, x)) + (IF x = new THEN 1 ELSE 0)
               - (IF x = old THEN 1 ELSE 0)
  PROVE  OrgInv'
<1>1. \A x : Cardinality(InTeam(memberships, x)) \in Nat
  BY CountsAreNatural DEF OrgInv
<1>2. \A q \in teams : \E r \in teams' : r.id = q.id
  BY TeamTrigger
<1>3. ASSUME NEW r \in teams'
      PROVE  /\ r \in [id : RowIds, org : RowIds, memberCount : Int]
             /\ \E q \in teams : q.id = r.id /\
                  r.memberCount = q.memberCount
                    + Cardinality(InTeam(memberships', r.id))
                    - Cardinality(InTeam(memberships, r.id))
  <2>1. PICK q \in teams :
          /\ r.id = q.id
          /\ r \in [id : RowIds, org : RowIds, memberCount : Int]
          /\ r.memberCount = q.memberCount + (IF q.id = new THEN 1 ELSE 0)
                               - (IF q.id = old THEN 1 ELSE 0)
    BY TeamTrigger
  <2>2. q.memberCount \in Nat /\ q.id \in RowIds
    BY DEF OrgInv, Orgs!TypeOK, Orgs!Team
  <2> QED
    BY <1>1, <2>1, <2>2
<1> QED
  BY <1>2, <1>3, OrgKeeps DEF OrgsCount

\* A membership that is inserted is counted.
LEMMA InsertMemberKeeps ==
  ASSUME OrgInv, NEW o \in RowIds, NEW u \in Users, NEW t \in RowIds \cup {Orgs!NoTeam},
         NEW role \in Orgs!Roles, Orgs!InsertMember(o, u, t, role),
         orgCall' \in [Calls -> Orgs!Call]
  PROVE  OrgInv'
<1>1. PICK id \in RowIds :
        /\ \A m \in memberships : m.id # id
        /\ memberships' = memberships \cup
             {[id |-> id, org |-> o, user |-> u, team |-> t, role |-> role]}
  BY DEF Orgs!InsertMember, Orgs!Free
<1> DEFINE new == [id |-> id, org |-> o, user |-> u, team |-> t, role |-> role]
           S == memberships \cup {new}
<1>2. /\ memberships' = S /\ new \notin memberships
      /\ new \in Orgs!Membership /\ new.id = id /\ new.org = o /\ new.team = t
  BY <1>1 DEF Orgs!Membership
<1> HIDE DEF new
<1>3. IsFiniteSet(memberships)
  BY DEF OrgInv
<1>4. \A x : /\ IsFiniteSet(S)
             /\ Cardinality(InTeam(S, x)) =
                  Cardinality(InTeam(memberships, x)) + (IF t = x THEN 1 ELSE 0)
             /\ Cardinality(InOrg(S, x)) =
                  Cardinality(InOrg(memberships, x)) + (IF o = x THEN 1 ELSE 0)
             /\ Cardinality(InTeam(memberships, x)) \in Nat
  BY <1>2, <1>3, OneMore, CountsAreNatural
<1>5. /\ \E r \in orgs : r.id = o
      /\ t # Orgs!NoTeam => \E q \in teams : q.id = t
      /\ Orgs!CountInOrg(o, 1) /\ Orgs!CountInTeams(Orgs!NoTeam, t)
  BY DEF Orgs!InsertMember, Orgs!GetTeamByID
<1>6. /\ memberships' \subseteq Orgs!Membership
      /\ \A a, b \in memberships' : a.id = b.id => a = b
      /\ \A m \in memberships' :
           /\ \E r \in orgs : r.id = m.org
           /\ m.team # Orgs!NoTeam => \E q \in teams : q.id = m.team
  BY <1>1, <1>2, <1>5 DEF OrgInv, Orgs!TypeOK
<1>7. \A x \in RowIds : x # Orgs!NoTeam
  BY OutsideAssumption DEF Orgs!NoTeam
<1> HIDE DEF S
<1>8. /\ IsFiniteSet(memberships')
      /\ \A x \in RowIds :
           /\ Cardinality(InTeam(memberships', x)) =
                Cardinality(InTeam(memberships, x)) + (IF x = t THEN 1 ELSE 0)
                  - (IF x = Orgs!NoTeam THEN 1 ELSE 0)
           /\ Cardinality(InOrg(memberships', x)) =
                Cardinality(InOrg(memberships, x)) + (IF x = o THEN 1 ELSE 0)
  BY <1>2, <1>4, <1>7
<1> QED
  BY <1>5, <1>6, <1>8, OrgRecount, OrgMoves

\* One that is deleted is no longer counted.
LEMMA RemoveMemberKeeps ==
  ASSUME OrgInv, NEW k, NEW o, NEW u, Orgs!RemoveMember(k, o, u)
  PROVE  OrgInv'
<1>0. PICK m \in memberships :
        /\ memberships' = memberships \ {m}
        /\ Orgs!CountInOrg(m.org, -1)
        /\ Orgs!CountInTeams(m.team, Orgs!NoTeam)
        /\ UNCHANGED orgCall
  BY DEF Orgs!RemoveMember, Orgs!GetMember
<1>1. IsFiniteSet(memberships)
  BY DEF OrgInv
<1> DEFINE S == memberships \ {m}
<1>2. \A x : /\ IsFiniteSet(S)
             /\ Cardinality(InTeam(memberships, x)) =
                  Cardinality(InTeam(S, x)) + (IF m.team = x THEN 1 ELSE 0)
             /\ Cardinality(InOrg(memberships, x)) =
                  Cardinality(InOrg(S, x)) + (IF m.org = x THEN 1 ELSE 0)
             /\ Cardinality(InTeam(S, x)) \in Nat
             /\ Cardinality(InOrg(S, x)) \in Nat
  <2>1. m \in memberships
    BY <1>0
  <2>2. /\ IsFiniteSet(memberships \ {m})
        /\ \A x : /\ Cardinality(InTeam(memberships, x)) =
                       Cardinality(InTeam(memberships \ {m}, x)) + (IF m.team = x THEN 1 ELSE 0)
                  /\ Cardinality(InOrg(memberships, x)) =
                       Cardinality(InOrg(memberships \ {m}, x)) + (IF m.org = x THEN 1 ELSE 0)
    BY <1>1, <2>1, OneLess
  <2>3. S = memberships \ {m}
    OBVIOUS
  <2> HIDE DEF S
  <2> QED
    BY <2>2, <2>3, CountsAreNatural
<1>3. \A x \in RowIds : x # Orgs!NoTeam
  BY OutsideAssumption DEF Orgs!NoTeam
<1>4. /\ memberships' = S /\ orgCall' \in [Calls -> Orgs!Call]
      /\ memberships' \subseteq Orgs!Membership
      /\ \A a, b \in memberships' : a.id = b.id => a = b
      /\ \A n \in memberships' :
           /\ \E r \in orgs : r.id = n.org
           /\ n.team # Orgs!NoTeam => \E q \in teams : q.id = n.team
  BY <1>0 DEF OrgInv, Orgs!TypeOK
<1>b. Orgs!CountInOrg(m.org, -1) /\ Orgs!CountInTeams(m.team, Orgs!NoTeam)
  BY <1>0
<1> HIDE DEF S
<1>5. /\ IsFiniteSet(memberships')
      /\ \A x \in RowIds :
           /\ Cardinality(InTeam(memberships', x)) =
                Cardinality(InTeam(memberships, x)) + (IF x = Orgs!NoTeam THEN 1 ELSE 0)
                  - (IF x = m.team THEN 1 ELSE 0)
           /\ Cardinality(InOrg(memberships', x)) =
                Cardinality(InOrg(memberships, x)) + (IF x = m.org THEN -1 ELSE 0)
  BY <1>2, <1>3, <1>4
<1>6. /\ \A r \in orgs' : \E q \in orgs : OrgsCount(q, r)
      /\ \A q \in orgs : \E r \in orgs' : r.id = q.id
  BY <1>b, <1>5, OrgRecount
<1> QED
  BY <1>b, <1>4, <1>5, <1>6, OrgMoves

\* A stale row is written back: only the team it names moves, by as much as
\* the trigger counts.
LEMMA StoreMemberKeeps ==
  ASSUME OrgInv, NEW k \in Calls, orgCall[k].op = "updateMember", Orgs!StoreMember(k)
  PROVE  OrgInv'
<1> DEFINE row == orgCall[k].row
           old == {m \in memberships : m.id = row.id}
<1>1. row \in Orgs!Membership /\ orgCall' \in [Calls -> Orgs!Call] /\ UNCHANGED orgs
  BY OrgCalls DEF OrgInv, Orgs!TypeOK, Orgs!StoreMember, Orgs!Answer, Orgs!Become
<1> HIDE DEF row
<1>2. CASE UNCHANGED <<teams, memberships>>
  BY <1>1, <1>2, OrgRests DEF OrgInv, Orgs!TypeOK
<1>3. CASE /\ row.team = Orgs!NoTeam \/ Orgs!GetTeamByID(row.team) # {}
           /\ memberships' = (memberships \ old) \cup
                {[m EXCEPT !.role = row.role, !.team = row.team] : m \in old}
           /\ \E m \in old : Orgs!CountInTeams(m.team, row.team)
  <2>1. PICK m \in old : Orgs!CountInTeams(m.team, row.team)
    BY <1>3
  <2>2. m \in memberships /\ m \in Orgs!Membership /\ old = {m}
    BY <2>1 DEF OrgInv, Orgs!TypeOK
  <2> DEFINE new == [m EXCEPT !.role = row.role, !.team = row.team]
             S == memberships \ {m}
             R == S \cup {new}
  <2>3. /\ new \in Orgs!Membership /\ new.id = m.id /\ new.org = m.org /\ new.team = row.team
        /\ memberships' = R
    <3>1. {[n EXCEPT !.role = row.role, !.team = row.team] : n \in old} = {new}
      BY <2>2
    <3>2. memberships' = R
      BY <1>3, <2>2, <3>1
    <3> QED
      BY <1>1, <2>2, <3>2 DEF Orgs!Membership
  <2> HIDE DEF new
  <2>4. \A n \in S : n.id # m.id
    BY <2>2 DEF OrgInv
  <2>5. new \notin S /\ IsFiniteSet(memberships)
    BY <2>3, <2>4 DEF OrgInv
  <2>6. \A x : /\ IsFiniteSet(S)
               /\ Cardinality(InTeam(memberships, x)) =
                    Cardinality(InTeam(S, x)) + (IF m.team = x THEN 1 ELSE 0)
               /\ Cardinality(InOrg(memberships, x)) =
                    Cardinality(InOrg(S, x)) + (IF m.org = x THEN 1 ELSE 0)
               /\ Cardinality(InTeam(S, x)) \in Nat
               /\ Cardinality(InOrg(S, x)) \in Nat
    BY <2>2, <2>5, OneLess, CountsAreNatural
  <2>7. /\ row.team # Orgs!NoTeam => \E q \in teams : q.id = row.team
        /\ \E r \in orgs : r.id = m.org
    BY <1>3, <2>2 DEF OrgInv, Orgs!GetTeamByID
  <2>8. /\ memberships' \subseteq Orgs!Membership
        /\ \A a, b \in memberships' : a.id = b.id => a = b
        /\ \A n \in memberships' :
             /\ \E r \in orgs : r.id = n.org
             /\ n.team # Orgs!NoTeam => \E q \in teams : q.id = n.team
    BY <2>3, <2>4, <2>7 DEF OrgInv, Orgs!TypeOK
  <2> HIDE DEF S
  <2>9. \A x : /\ IsFiniteSet(R)
               /\ Cardinality(InTeam(R, x)) =
                    Cardinality(InTeam(S, x)) + (IF row.team = x THEN 1 ELSE 0)
               /\ Cardinality(InOrg(R, x)) =
                    Cardinality(InOrg(S, x)) + (IF m.org = x THEN 1 ELSE 0)
    BY <2>3, <2>5, <2>6, OneMore
  <2> HIDE DEF R
  <2>10. /\ IsFiniteSet(memberships')
         /\ \A x \in RowIds :
              /\ Cardinality(InTeam(memberships', x)) =
                   Cardinality(InTeam(memberships, x)) + (IF x = row.team THEN 1 ELSE 0)
                     - (IF x = m.team THEN 1 ELSE 0)
              /\ Cardinality(InOrg(memberships', x)) =
                   Cardinality(InOrg(memberships, x)) + (IF x = m.org THEN 0 ELSE 0)
    BY <2>3, <2>6, <2>9
  <2>11. \A q \in orgs : OrgsCount(q, q)
    <3>1. \A q \in orgs : q \in Orgs!Organization /\ q.id \in RowIds /\ q.memberCount \in Nat
      BY DEF OrgInv, Orgs!TypeOK, Orgs!Organization
    <3>2. \A x \in RowIds : /\ Cardinality(InOrg(memberships', x)) = Cardinality(InOrg(memberships, x))
                            /\ Cardinality(InOrg(memberships, x)) \in Nat
      BY <2>10, <2>5, CountsAreNatural
    <3> QED
      BY <3>1, <3>2 DEF OrgsCount, Orgs!Organization
  <2> QED
    BY <1>1, <2>1, <2>8, <2>10, <2>11, OrgMoves
<1> QED
  BY <1>2, <1>3 DEF Orgs!StoreMember, row

\* ON DELETE SET NULL: the members of a team stay in its organisation.
LEMMA DeleteTeamKeeps ==
  ASSUME OrgInv, NEW id \in RowIds,
         teams' = {t \in teams : t.id # id},
         memberships' = {IF m.team = id THEN [m EXCEPT !.team = Orgs!NoTeam] ELSE m :
                           m \in memberships},
         UNCHANGED <<orgs, orgCall>>
  PROVE  OrgInv'
<1> DEFINE leave(m) == IF m.team = id THEN [m EXCEPT !.team = Orgs!NoTeam] ELSE m
           f == [m \in memberships |-> leave(m)]
<1>1. memberships' = {leave(m) : m \in memberships}
  OBVIOUS
<1>2. \A m \in memberships :
        /\ leave(m) \in Orgs!Membership /\ leave(m).id = m.id /\ leave(m).org = m.org
        /\ leave(m).team = IF m.team = id THEN Orgs!NoTeam ELSE m.team
        /\ m.team # id => leave(m) = m
  BY DEF OrgInv, Orgs!TypeOK, Orgs!Membership
<1> HIDE DEF leave
<1>3. \A x : /\ Cardinality(InOrg(memberships', x)) = Cardinality(InOrg(memberships, x))
             /\ IsFiniteSet(memberships')
  <2> TAKE x
  <2> DEFINE A == InOrg(memberships, x)
             B == InOrg(memberships', x)
             g == [m \in A |-> leave(m)]
  <2>1. f \in Bijection(memberships, memberships')
    <3>1. f \in [memberships -> memberships'] /\ \A m \in memberships : f[m] = leave(m)
      BY <1>1
    <3>2. \A m, n \in memberships : f[m] = f[n] => m = n
      BY <1>2, <3>1 DEF OrgInv
    <3>3. \A n \in memberships' : \E m \in memberships : f[m] = n
      BY <1>1, <3>1
    <3> HIDE DEF f
    <3> QED
      BY <3>1, <3>2, <3>3, Fun_IsBij
  <2>2. g \in Bijection(A, B)
    <3>1. /\ A \subseteq memberships
          /\ \A m \in A : leave(m) \in B
          /\ \A n \in B : \E m \in A : leave(m) = n
      BY <1>1, <1>2 DEF InOrg
    <3>2. g \in [A -> B] /\ \A m \in A : g[m] = leave(m)
      BY <3>1
    <3>3. \A m, n \in A : g[m] = g[n] => m = n
      BY <1>2, <3>1, <3>2 DEF OrgInv
    <3> HIDE DEF g, A, B
    <3> QED
      BY <3>1, <3>2, <3>3, Fun_IsBij
  <2>3. IsFiniteSet(A) /\ IsFiniteSet(memberships)
    BY FS_Subset DEF OrgInv, InOrg
  <2> HIDE DEF f, g, A, B
  <2> QED
    BY <2>1, <2>2, <2>3, FS_Bijection DEF ExistsBijection, A, B
<1>4. \A x \in RowIds : x # id => InTeam(memberships', x) = InTeam(memberships, x)
  BY <1>1, <1>2, OutsideAssumption DEF InTeam, Orgs!NoTeam
<1>5. \A x : /\ Cardinality(InTeam(memberships, x)) \in Nat
             /\ Cardinality(InOrg(memberships, x)) \in Nat
  BY CountsAreNatural DEF OrgInv
<1>6. /\ memberships' \subseteq Orgs!Membership /\ orgCall' \in [Calls -> Orgs!Call]
      /\ \A a, b \in memberships' : a.id = b.id => a = b
      /\ \A m \in memberships' :
           /\ \E o \in orgs' : o.id = m.org
           /\ m.team # Orgs!NoTeam => \E t \in teams' : t.id = m.team
  BY <1>1, <1>2 DEF OrgInv, Orgs!TypeOK
<1>7. \A t \in teams' : /\ t \in teams /\ t.id \in RowIds /\ t.id # id /\ t.memberCount \in Nat
                        /\ t \in [id : RowIds, org : RowIds, memberCount : Int]
  BY DEF OrgInv, Orgs!TypeOK, Orgs!Team
<1>8. \A o \in orgs' : /\ o \in orgs /\ o.id \in RowIds /\ o.memberCount \in Nat
                       /\ o \in [id : RowIds, slug : Slugs, owner : Users,
                                 deleted : BOOLEAN, memberCount : Int]
  BY DEF OrgInv, Orgs!TypeOK, Orgs!Organization
<1>9. \A t \in teams' :
        t.memberCount = t.memberCount + Cardinality(InTeam(memberships', t.id))
                          - Cardinality(InTeam(memberships, t.id))
  BY <1>4, <1>5, <1>7
<1>10. \A o \in orgs' :
         o.memberCount = o.memberCount + Cardinality(InOrg(memberships', o.id))
                           - Cardinality(InOrg(memberships, o.id))
  BY <1>3, <1>5, <1>8
<1> QED
  BY <1>3, <1>6, <1>7, <1>8, <1>9, <1>10, OrgKeeps

\* The invariant is inductive: one step for each action.
LEMMA OrgStep == OrgInv /\ [Orgs!Next]_orgVars => OrgInv'
<1> SUFFICES ASSUME OrgInv, [Orgs!Next]_orgVars PROVE OrgInv'
  OBVIOUS
<1>a. orgCall \in [Calls -> Orgs!Call] /\ \A k \in Calls : orgCall[k] \in Orgs!Call
  BY DEF OrgInv, Orgs!TypeOK
<1>1. ASSUME NEW k \in Calls, NEW u \in Users, NEW slug \in Slugs, Orgs!CreateOrg(k, u, slug)
      PROVE  OrgInv'
  <2>1. PICK id \in RowIds :
          /\ \A o \in orgs : o.id # id
          /\ orgs' = orgs \cup {[id |-> id, slug |-> slug, owner |-> u, deleted |-> FALSE,
                                 memberCount |-> 1]}
          /\ Orgs!Become(k, [op |-> "addOwner", org |-> id, owner |-> u])
    BY <1>1 DEF Orgs!CreateOrg, Orgs!Free, Orgs!InsertOrg
  <2>2. UNCHANGED <<teams, memberships>> /\ orgCall' \in [Calls -> Orgs!Call]
    BY <1>1, <1>a, <2>1, OrgCalls DEF Orgs!CreateOrg, Orgs!Become
  <2>3. Cardinality(InOrg(memberships, id)) = 0
    <3>1. InOrg(memberships, id) = {}
      BY <2>1 DEF OrgInv, InOrg
    <3> QED
      BY <3>1, FS_EmptySet
  <2>4. \A x : /\ Cardinality(InTeam(memberships, x)) \in Nat
               /\ Cardinality(InOrg(memberships, x)) \in Nat
    BY CountsAreNatural DEF OrgInv
  <2>5. \A t \in teams' : /\ t \in [id : RowIds, org : RowIds, memberCount : Int]
                          /\ t \in teams /\ t.memberCount \in Nat /\ t.id \in RowIds
    BY <2>2 DEF OrgInv, Orgs!TypeOK, Orgs!Team
  <2>6. \A o \in orgs' :
          /\ o \in [id : RowIds, slug : Slugs, owner : Users, deleted : BOOLEAN,
                    memberCount : Int]
          /\ \/ o \in orgs /\ o.memberCount \in Nat
             \/ o.id = id /\ o.memberCount = 1
    <3> DEFINE new == [id |-> id, slug |-> slug, owner |-> u, deleted |-> FALSE,
                       memberCount |-> 1]
    <3>1. /\ new \in [id : RowIds, slug : Slugs, owner : Users, deleted : BOOLEAN,
                      memberCount : Int]
          /\ new.id = id /\ new.memberCount = 1 /\ orgs' = orgs \cup {new}
      BY <2>1
    <3>2. \A o \in orgs :
            /\ o \in [id : RowIds, slug : Slugs, owner : Users, deleted : BOOLEAN,
                      memberCount : Int]
            /\ o.memberCount \in Nat
      BY DEF OrgInv, Orgs!TypeOK, Orgs!Organization
    <3> HIDE DEF new
    <3> QED
      BY <3>1, <3>2
  <2>7. \A m \in memberships' :
          /\ \E o \in orgs' : o.id = m.org
          /\ m.team # Orgs!NoTeam => \E t \in teams' : t.id = m.team
    BY <2>1, <2>2 DEF OrgInv
  <2>8. \A t \in teams' : t.memberCount = t.memberCount
           + Cardinality(InTeam(memberships, t.id)) - Cardinality(InTeam(memberships, t.id))
    BY <2>4, <2>5
  <2>9. \A o \in orgs' :
          \/ o \in orgs /\ o.memberCount = o.memberCount
               + Cardinality(InOrg(memberships, o.id)) - Cardinality(InOrg(memberships, o.id))
          \/ o.memberCount = 1 + Cardinality(InOrg(memberships, o.id))
    BY <2>3, <2>4, <2>6
  <2>10. /\ memberships' \subseteq Orgs!Membership /\ IsFiniteSet(memberships')
         /\ \A a, b \in memberships' : a.id = b.id => a = b
    BY <2>2 DEF OrgInv, Orgs!TypeOK
  <2> QED
    BY <2>2, <2>5, <2>6, <2>7, <2>8, <2>9, <2>10, OrgKeeps
<1>2. ASSUME NEW k \in Calls, Orgs!AddOwner(k)
      PROVE  OrgInv'
  <2>1. PICK call \in Orgs!Call :
          /\ call = orgCall[k] /\ call.op = "addOwner"
          /\ call.org \in RowIds /\ call.owner \in Users
    BY <1>2, <1>a, OrgCalls DEF Orgs!AddOwner
  <2>2. orgCall' \in [Calls -> Orgs!Call]
    BY <1>2, <1>a, OrgCalls DEF Orgs!AddOwner, Orgs!Answer, Orgs!Become
  <2>3. CASE Orgs!InsertMember(call.org, call.owner, Orgs!NoTeam, "owner")
    <3>1. Orgs!NoTeam \in RowIds \cup {Orgs!NoTeam} /\ "owner" \in Orgs!Roles
      BY DEF Orgs!Roles
    <3> QED
      BY <2>1, <2>2, <2>3, <3>1, InsertMemberKeeps
  <2>4. CASE UNCHANGED <<orgs, teams, memberships>>
    BY <2>2, <2>4, OrgRests DEF OrgInv, Orgs!TypeOK
  <2> QED
    BY <1>2, <2>1, <2>3, <2>4 DEF Orgs!AddOwner
<1>3. ASSUME NEW k \in Calls, Orgs!StoreTeam(k)
      PROVE  OrgInv'
  <2>1. orgCall' \in [Calls -> Orgs!Call]
    BY <1>3, <1>a, OrgCalls DEF Orgs!StoreTeam, Orgs!Answer, Orgs!Become
  <2> QED
    BY <1>3, <2>1, OrgRests DEF OrgInv, Orgs!TypeOK, Orgs!StoreTeam
<1>4. ASSUME NEW k \in Calls, Orgs!StoreMember(k)
      PROVE  OrgInv'
  BY <1>4, StoreMemberKeeps DEF Orgs!StoreMember
<1>5. ASSUME NEW k \in Calls, NEW id \in RowIds, NEW slug \in Slugs,
             Orgs!UpdateOrg(k, id, slug)
      PROVE  OrgInv'
  <2> DEFINE put(o) == IF o.id = id THEN [o EXCEPT !.slug = slug] ELSE o
  <2>1. \A o \in orgs : /\ put(o) \in Orgs!Organization
                        /\ put(o).id = o.id /\ put(o).memberCount = o.memberCount
    BY DEF OrgInv, Orgs!TypeOK, Orgs!Organization
  <2>2. orgs' = {put(o) : o \in orgs}
    BY <1>5 DEF Orgs!UpdateOrg
  <2>3. UNCHANGED <<teams, memberships>> /\ orgCall' \in [Calls -> Orgs!Call]
    BY <1>5, <1>a DEF Orgs!UpdateOrg
  <2> HIDE DEF put
  <2> QED
    BY <2>1, <2>2, <2>3, OrgRests
<1>14. ASSUME NEW k \in Calls, NEW id \in RowIds, Orgs!DeleteOrg(k, id)
      PROVE  OrgInv'
  <2> DEFINE put(o) == IF o.id = id THEN [o EXCEPT !.deleted = TRUE] ELSE o
  <2>1. \A o \in orgs : /\ put(o) \in Orgs!Organization
                        /\ put(o).id = o.id /\ put(o).memberCount = o.memberCount
    BY DEF OrgInv, Orgs!TypeOK, Orgs!Organization
  <2>2. orgs' = {put(o) : o \in orgs}
    BY <1>14 DEF Orgs!DeleteOrg
  <2>3. UNCHANGED <<teams, memberships>> /\ orgCall' \in [Calls -> Orgs!Call]
    BY <1>14, <1>a DEF Orgs!DeleteOrg
  <2> HIDE DEF put
  <2> QED
    BY <2>1, <2>2, <2>3, OrgRests
<1>6. ASSUME NEW k \in Calls, NEW o \in RowIds, Orgs!CreateTeam(k, o)
      PROVE  OrgInv'
  <2>1. PICK id \in RowIds :
          /\ \A t \in teams : t.id # id
          /\ teams' = teams \cup {[id |-> id, org |-> o, memberCount |-> 0]}
    BY <1>6 DEF Orgs!CreateTeam, Orgs!Free
  <2>2. UNCHANGED <<orgs, memberships, orgCall>>
    BY <1>6 DEF Orgs!CreateTeam
  <2>3. Cardinality(InTeam(memberships, id)) = 0
    <3>1. InTeam(memberships, id) = {}
      BY <2>1, OutsideAssumption DEF OrgInv, InTeam, Orgs!NoTeam
    <3> QED
      BY <3>1, FS_EmptySet
  <2>4. \A x : /\ Cardinality(InTeam(memberships, x)) \in Nat
               /\ Cardinality(InOrg(memberships, x)) \in Nat
    BY CountsAreNatural DEF OrgInv
  <2>5. \A r \in orgs' : /\ r \in [id : RowIds, slug : Slugs, owner : Users,
                                   deleted : BOOLEAN, memberCount : Int]
                         /\ r \in orgs /\ r.memberCount \in Nat
    BY <2>2 DEF OrgInv, Orgs!TypeOK, Orgs!Organization
  <2>6. \A t \in teams' :
          /\ t \in [id : RowIds, org : RowIds, memberCount : Int]
          /\ \/ t \in teams /\ t.memberCount \in Nat
             \/ t.id = id /\ t.memberCount = 0
    <3> DEFINE new == [id |-> id, org |-> o, memberCount |-> 0]
    <3>1. /\ new \in [id : RowIds, org : RowIds, memberCount : Int]
          /\ new.id = id /\ new.memberCount = 0 /\ teams' = teams \cup {new}
      BY <2>1
    <3>2. \A t \in teams :
            t \in [id : RowIds, org : RowIds, memberCount : Int] /\ t.memberCount \in Nat
      BY DEF OrgInv, Orgs!TypeOK, Orgs!Team
    <3> HIDE DEF new
    <3> QED
      BY <3>1, <3>2
  <2>7. \A m \in memberships' :
          /\ \E r \in orgs' : r.id = m.org
          /\ m.team # Orgs!NoTeam => \E t \in teams' : t.id = m.team
    BY <2>1, <2>2 DEF OrgInv
  <2>8. \A r \in orgs' : r.memberCount = r.memberCount
           + Cardinality(InOrg(memberships, r.id)) - Cardinality(InOrg(memberships, r.id))
    BY <2>4, <2>5
  <2>9. \A t \in teams' :
          \/ t \in teams /\ t.memberCount = t.memberCount
               + Cardinality(InTeam(memberships, t.id)) - Cardinality(InTeam(memberships, t.id))
          \/ t.memberCount = Cardinality(InTeam(memberships, t.id))
    BY <2>3, <2>4, <2>6
  <2>10. /\ memberships' \subseteq Orgs!Membership /\ IsFiniteSet(memberships')
         /\ \A a, b \in memberships' : a.id = b.id => a = b
         /\ orgCall' \in [Calls -> Orgs!Call]
    BY <2>2, <1>a DEF OrgInv, Orgs!TypeOK
  <2> QED
    BY <2>2, <2>5, <2>6, <2>7, <2>8, <2>9, <2>10, OrgKeeps
<1>7. ASSUME NEW k \in Calls, NEW id \in RowIds, Orgs!UpdateTeam(k, id)
      PROVE  OrgInv'
  <2>1. orgCall' \in [Calls -> Orgs!Call]
    BY <1>7, <1>a, OrgCalls DEF Orgs!UpdateTeam, Orgs!Become
  <2> QED
    BY <1>7, <2>1, OrgRests DEF OrgInv, Orgs!TypeOK, Orgs!UpdateTeam
<1>8. ASSUME NEW k \in Calls, NEW o \in RowIds, NEW u \in Users, Orgs!RemoveMember(k, o, u)
      PROVE  OrgInv'
  BY <1>8, RemoveMemberKeeps
<1>9. ASSUME NEW k \in Calls, NEW t \in teams, Orgs!DeleteTeam(k, t.id)
      PROVE  OrgInv'
  <2>1. t.id \in RowIds
    BY DEF OrgInv, Orgs!TypeOK, Orgs!Team
  <2> QED
    BY <1>9, <2>1, DeleteTeamKeeps DEF Orgs!DeleteTeam
<1>10. ASSUME NEW k \in Calls, NEW o \in RowIds, NEW u \in Users, NEW role \in Orgs!Roles,
              NEW t \in RowIds \cup {Orgs!NoTeam}, Orgs!AddMember(k, o, u, t, role)
      PROVE  OrgInv'
  <2>1. orgCall' \in [Calls -> Orgs!Call] /\ Orgs!InsertMember(o, u, t, role)
    BY <1>10, <1>a DEF Orgs!AddMember
  <2> QED
    BY <2>1, InsertMemberKeeps
<1>11. ASSUME NEW k \in Calls, NEW o \in RowIds, NEW u \in Users, NEW role \in Orgs!Roles,
              NEW t \in RowIds, Orgs!UpdateMember(k, o, u, t, role)
      PROVE  OrgInv'
  <2>1. PICK m \in memberships :
          \/ Orgs!Become(k, [op |-> "updateMember", row |-> [m EXCEPT !.role = role]])
          \/ Orgs!Become(k, [op |-> "updateMember", row |-> [m EXCEPT !.team = t]])
    BY <1>11 DEF Orgs!UpdateMember, Orgs!GetMember
  <2>2. /\ [m EXCEPT !.role = role] \in Orgs!Membership
        /\ [m EXCEPT !.team = t] \in Orgs!Membership
    BY DEF OrgInv, Orgs!TypeOK, Orgs!Membership
  <2>3. orgCall' \in [Calls -> Orgs!Call]
    BY <1>a, <2>1, <2>2, OrgCalls DEF Orgs!Become
  <2> QED
    BY <1>11, <2>3, OrgRests DEF OrgInv, Orgs!TypeOK, Orgs!UpdateMember
<1>12. CASE Orgs!Restart
  <2>1. orgCall' \in [Calls -> Orgs!Call]
    BY <1>12, OrgCalls DEF Orgs!Restart
  <2> QED
    BY <1>12, <2>1, OrgRests DEF OrgInv, Orgs!TypeOK, Orgs!Restart
<1>13. CASE UNCHANGED orgVars
  BY <1>13, OrgRests DEF OrgInv, Orgs!TypeOK, orgVars
<1> QED
  <2>1. ASSUME NEW k \in Calls,
               \/ \E u \in Users, slug \in Slugs : Orgs!CreateOrg(k, u, slug)
               \/ Orgs!AddOwner(k) \/ Orgs!StoreTeam(k) \/ Orgs!StoreMember(k)
               \/ \E id \in RowIds, slug \in Slugs : Orgs!UpdateOrg(k, id, slug)
               \/ \E id \in RowIds :
                    \/ Orgs!DeleteOrg(k, id) \/ Orgs!CreateTeam(k, id) \/ Orgs!UpdateTeam(k, id)
                    \/ \E u \in Users : Orgs!RemoveMember(k, id, u)
               \/ \E t \in teams : Orgs!DeleteTeam(k, t.id)
        PROVE  OrgInv'
    BY <2>1, <1>1, <1>2, <1>3, <1>4, <1>5, <1>6, <1>7, <1>8, <1>9, <1>14
  <2>2. ASSUME NEW k \in Calls, NEW o \in RowIds, NEW u \in Users, NEW role \in Orgs!Roles,
               \/ \E t \in RowIds \cup {Orgs!NoTeam} : Orgs!AddMember(k, o, u, t, role)
               \/ \E t \in RowIds : Orgs!UpdateMember(k, o, u, t, role)
        PROVE  OrgInv'
    BY <2>2, <1>10, <1>11
  <2> QED
    BY <2>1, <2>2, <1>12, <1>13 DEF Orgs!Next

-----------------------------------------------------------------------------
(* pki-service *)

\* The counter of the CA has reached n.
Spent(id, n) == \E a \in authorities : a.id = id /\ n <= a.serial

\* The request is about to sign n with the CA.
Signing(k, id, n) ==
  pkiCall[k].op = "sign" /\ pkiCall[k].ca.id = id /\ pkiCall[k].serial = n

\* A serial that was signed, or is about to be, is one the counter has passed,
\* and it is in one place only.
Accounted ==
  \A id \in RowIds, n \in 1 .. MaxSerial :
    /\ signed[id][n] > 0 => Spent(id, n) /\ \A k \in Calls : ~Signing(k, id, n)
    /\ \A k \in Calls : Signing(k, id, n) => Spent(id, n)
    /\ \A j, k \in Calls : Signing(j, id, n) /\ Signing(k, id, n) => j = k

\* The inductive invariant.
CaInv ==
  /\ Ca!TypeOK
  /\ \A a, b \in authorities : a.id = b.id => a = b
  /\ Accounted
  /\ Ca!SignedOnce

\* What the op of a call says of its fields.
LEMMA CaCalls ==
  /\ Ca!Idle \in Ca!Call
  /\ \A ca \in Ca!CA : [op |-> "serial", ca |-> ca] \in Ca!Call
  /\ \A ca \in Ca!CA, n \in 1 .. MaxSerial :
       [op |-> "sign", ca |-> ca, serial |-> n] \in Ca!Call
  /\ \A id \in RowIds, n \in 1 .. MaxSerial :
       [op |-> "insert", ca |-> id, serial |-> n] \in Ca!Call
  /\ \A c \in Ca!Call :
       /\ c.op = "serial" => c.ca \in Ca!CA
       /\ c.op = "sign" => c.ca \in Ca!CA /\ c.serial \in 1 .. MaxSerial
       /\ c.op = "insert" => c.ca \in RowIds /\ c.serial \in 1 .. MaxSerial
  BY OutsideAssumption DEF Ca!Call, Ca!Idle

\* It holds of an empty table.
LEMMA CaStart == Ca!Init => CaInv
<1> SUFFICES ASSUME Ca!Init PROVE CaInv
  OBVIOUS
<1> USE DEF Ca!Init
<1>1. Ca!TypeOK
  BY OutsideAssumption, CaCalls DEF Ca!TypeOK
<1>2. \A k \in Calls, id \in RowIds, n \in 1 .. MaxSerial : ~Signing(k, id, n)
  BY DEF Signing, Ca!Idle
<1> QED
  BY <1>1, <1>2 DEF CaInv, Accounted, Ca!SignedOnce

\* A step that neither signs nor takes a serial keeps the accounts.
LEMMA CaKeeps ==
  ASSUME CaInv, Ca!TypeOK', UNCHANGED signed,
         \A a, b \in authorities' : a.id = b.id => a = b,
         \A id, n : Spent(id, n) => Spent(id, n)',
         \A k \in Calls, id \in RowIds, n \in 1 .. MaxSerial :
           Signing(k, id, n)' => Signing(k, id, n)
  PROVE  CaInv'
<1>1. Ca!SignedOnce'
  BY DEF CaInv, Ca!SignedOnce
<1>2. Accounted'
  BY DEF CaInv, Accounted
<1> QED
  BY <1>1, <1>2 DEF CaInv

\* It is inductive: one step for each action.
LEMMA CaStep == CaInv /\ [Ca!Next]_pkiVars => CaInv'
<1> SUFFICES ASSUME CaInv, [Ca!Next]_pkiVars PROVE CaInv'
  OBVIOUS
<1> USE OutsideAssumption DEF Ca!Become, Ca!Answer
<1>a. /\ Ca!TypeOK /\ \A k \in Calls : pkiCall[k] \in Ca!Call
      /\ \A a, b \in authorities : a.id = b.id => a = b
  BY DEF CaInv, Ca!TypeOK
<1>1. ASSUME NEW k \in Calls, Ca!CreateCA(k)
      PROVE  CaInv'
  <2>1. PICK id \in RowIds \ {ca.id : ca \in authorities} :
       authorities' = authorities \cup
         {[id |-> id, keyPEM |-> Ca!EncryptPrivateKey(id, encKey), serial |-> 0, deleted |-> FALSE]}
    BY <1>1 DEF Ca!CreateCA
  <2>a. LET row == [id |-> id, keyPEM |-> Ca!EncryptPrivateKey(id, encKey),
                    serial |-> 0, deleted |-> FALSE]
        IN  row \in Ca!CA /\ row.id = id
    BY <1>a DEF Ca!CA, Ca!Sealed, Ca!EncryptPrivateKey, Ca!TypeOK
  <2>2. PICK new \in Ca!CA : new.id = id /\ authorities' = authorities \cup {new}
    BY <2>1, <2>a
  <2>3. Ca!TypeOK'
    BY <1>1, <1>a, <2>2 DEF Ca!CreateCA, Ca!TypeOK
  <2>4. \A a, b \in authorities' : a.id = b.id => a = b
    BY <1>a, <2>1, <2>2
  <2>5. \A i, n : Spent(i, n) => Spent(i, n)'
    BY <2>2 DEF Spent
  <2> QED
    BY <1>1, <2>3, <2>4, <2>5, CaKeeps DEF Ca!CreateCA, Signing
<1>2. ASSUME NEW k \in Calls, NEW id \in RowIds, Ca!DeleteCA(k, id)
      PROVE  CaInv'
  <2>1. Ca!TypeOK'
    BY <1>2, <1>a DEF Ca!DeleteCA, Ca!TypeOK, Ca!CA
  <2> DEFINE mark(ca) == IF ca.id = id THEN [ca EXCEPT !.deleted = TRUE] ELSE ca
  <2>2. \A ca \in authorities : mark(ca).id = ca.id /\ mark(ca).serial = ca.serial
    BY <1>a DEF Ca!TypeOK, Ca!CA
  <2>3. authorities' = {mark(ca) : ca \in authorities}
    BY <1>2 DEF Ca!DeleteCA
  <2> HIDE DEF mark
  <2>4. \A i, n : Spent(i, n) => Spent(i, n)'
    BY <2>2, <2>3 DEF Spent
  <2>5. \A a, b \in authorities' : a.id = b.id => a = b
    BY <1>a, <2>2, <2>3
  <2> QED
    BY <1>2, <2>1, <2>4, <2>5, CaKeeps DEF Ca!DeleteCA, Signing
<1>3. ASSUME NEW k \in Calls, Ca!TakeSerial(k)
      PROVE  CaInv'
  <2>1. PICK ca \in Ca!CA : ca = pkiCall[k].ca /\ ca.id \in RowIds
    BY <1>3, <1>a, CaCalls DEF Ca!TakeSerial, Ca!CA
  <2>2. CASE Ca!Answer(k) /\ UNCHANGED authorities
    <3>1. Ca!TypeOK'
      BY <1>3, <1>a, <2>2, CaCalls DEF Ca!TakeSerial, Ca!TypeOK
    <3>2. \A j \in Calls : \A i, m : Signing(j, i, m)' => Signing(j, i, m)
      BY <1>a, <2>2 DEF Signing, Ca!TypeOK, Ca!Idle
    <3> QED
      BY <1>3, <1>a, <2>2, <3>1, <3>2, CaKeeps DEF Ca!TakeSerial, Spent
  <2>3. ASSUME NEW serial \in Ca!GetNextSerialNumber(ca.id),
               serial <= MaxSerial, Ca!StoreSerial(ca.id, serial),
               Ca!Become(k, [op |-> "sign", ca |-> ca, serial |-> serial])
        PROVE  CaInv'
    <3> DEFINE stored(a) == IF a.id = ca.id THEN [a EXCEPT !.serial = serial] ELSE a
    <3>1. PICK old \in authorities : old.id = ca.id /\ serial = old.serial + 1
      BY DEF Ca!GetNextSerialNumber, Ca!GetCAByID
    <3>2. old \in Ca!CA /\ old.serial \in Nat /\ serial \in 1 .. MaxSerial
      BY <1>a, <2>3, <3>1 DEF Ca!TypeOK, Ca!CA
    <3>3. \A a \in authorities :
            /\ stored(a) \in Ca!CA /\ stored(a).id = a.id
            /\ stored(a).serial = IF a = old THEN serial ELSE a.serial
            /\ a.serial \in Nat
      <4> SUFFICES ASSUME NEW a \in authorities
                   PROVE  /\ stored(a) \in Ca!CA /\ stored(a).id = a.id
                          /\ stored(a).serial = IF a = old THEN serial ELSE a.serial
                          /\ a.serial \in Nat
        OBVIOUS
      <4>1. a \in Ca!CA /\ (a.id = ca.id <=> a = old)
        BY <1>a, <3>1 DEF Ca!TypeOK
      <4> QED
        BY <3>2, <4>1 DEF Ca!CA
    <3>4. authorities' = {stored(a) : a \in authorities}
      BY <2>3 DEF Ca!StoreSerial
    <3> HIDE DEF stored
    <3>5. Ca!TypeOK'
      BY <1>3, <1>a, <2>1, <2>3, <3>2, <3>3, <3>4, CaCalls DEF Ca!TakeSerial, Ca!TypeOK
    <3>6. \A id \in RowIds, n \in 1 .. MaxSerial : Spent(id, n) => Spent(id, n)'
      BY <3>1, <3>2, <3>3, <3>4 DEF Spent
    <3>7. ~Spent(ca.id, serial)
      BY <1>a, <3>1, <3>2 DEF Spent
    <3>8. Spent(ca.id, serial)'
      BY <3>1, <3>2, <3>3, <3>4 DEF Spent
    <3>9. \A j \in Calls, id \in RowIds, n \in 1 .. MaxSerial :
            Signing(j, id, n)' <=> IF j = k THEN id = ca.id /\ n = serial
                                   ELSE Signing(j, id, n)
      BY <2>3, <1>a DEF Signing, Ca!TypeOK
    <3>10. \A a, b \in authorities' : a.id = b.id => a = b
      BY <1>a, <3>3, <3>4
    <3>11. UNCHANGED signed
      BY <1>3 DEF Ca!TakeSerial
    <3>12. Accounted'
      <4> SUFFICES ASSUME NEW id \in RowIds, NEW n \in 1 .. MaxSerial
                   PROVE  /\ signed[id][n] > 0 =>
                               Spent(id, n)' /\ \A j \in Calls : ~Signing(j, id, n)'
                          /\ \A j \in Calls : Signing(j, id, n)' => Spent(id, n)'
                          /\ \A i, j \in Calls :
                               Signing(i, id, n)' /\ Signing(j, id, n)' => i = j
        BY <3>11 DEF Accounted
      <4>1. CASE id = ca.id /\ n = serial
        BY <2>1, <3>2, <3>7, <3>8, <3>9, <4>1 DEF CaInv, Accounted
      <4>2. CASE ~(id = ca.id /\ n = serial)
        BY <3>6, <3>9, <4>2 DEF CaInv, Accounted
      <4> QED
        BY <4>1, <4>2
    <3> QED
      BY <3>5, <3>10, <3>11, <3>12 DEF CaInv, Ca!SignedOnce
  <2> QED
    BY <1>3, <2>1, <2>2, <2>3 DEF Ca!TakeSerial
<1>4. ASSUME NEW k \in Calls, Ca!Sign(k)
      PROVE  CaInv'
  <2>1. PICK id \in RowIds, n \in 1 .. MaxSerial :
          id = pkiCall[k].ca.id /\ n = pkiCall[k].serial /\ Signing(k, id, n)
    BY <1>4, <1>a, CaCalls DEF Ca!Sign, Ca!CA, Signing
  <2>2. CASE Ca!Answer(k) /\ UNCHANGED signed
    <3>1. Ca!TypeOK'
      BY <1>4, <1>a, <2>2, CaCalls DEF Ca!Sign, Ca!TypeOK
    <3>2. \A j \in Calls : \A i, m : Signing(j, i, m)' => Signing(j, i, m)
      BY <1>a, <2>2 DEF Signing, Ca!TypeOK, Ca!Idle
    <3> QED
      BY <1>4, <1>a, <2>2, <3>1, <3>2, CaKeeps DEF Ca!Sign, Spent
  <2>3. CASE /\ Ca!CreateCertificate(id, n)
             /\ Ca!Become(k, [op |-> "insert", ca |-> id, serial |-> n])
    <3>1. signed[id][n] = 0
      <4>1. ~(signed[id][n] > 0)
        BY <2>1 DEF CaInv, Accounted
      <4>2. signed[id][n] \in 0 .. 2
        BY <1>a DEF Ca!TypeOK
      <4> QED
        BY <4>1, <4>2
    <3>2. /\ signed' \in [RowIds -> [1 .. MaxSerial -> 0 .. 2]]
          /\ \A i \in RowIds, m \in 1 .. MaxSerial :
               signed'[i][m] = IF i = id /\ m = n THEN 1 ELSE signed[i][m]
      BY <1>a, <2>1, <2>3, <3>1 DEF Ca!CreateCertificate, Ca!TypeOK
    <3>3. Ca!TypeOK'
      BY <1>4, <1>a, <2>1, <2>3, <3>2, CaCalls DEF Ca!Sign, Ca!TypeOK
    <3>4. \A j \in Calls, i \in RowIds, m \in 1 .. MaxSerial :
            Signing(j, i, m)' <=> j # k /\ Signing(j, i, m)
      BY <2>3, <1>a DEF Signing, Ca!TypeOK
    <3>5. UNCHANGED authorities /\ \A i, m : Spent(i, m)' <=> Spent(i, m)
      BY <1>4 DEF Ca!Sign, Spent
    <3>6. Accounted'
      <4> SUFFICES ASSUME NEW i \in RowIds, NEW m \in 1 .. MaxSerial
                   PROVE  /\ signed'[i][m] > 0 =>
                               Spent(i, m)' /\ \A j \in Calls : ~Signing(j, i, m)'
                          /\ \A j \in Calls : Signing(j, i, m)' => Spent(i, m)'
                          /\ \A j, l \in Calls :
                               Signing(j, i, m)' /\ Signing(l, i, m)' => j = l
        BY DEF Accounted
      <4>1. CASE i = id /\ m = n
        BY <2>1, <3>2, <3>4, <3>5, <4>1 DEF CaInv, Accounted
      <4>2. CASE ~(i = id /\ m = n)
        BY <3>2, <3>4, <3>5, <4>2 DEF CaInv, Accounted
      <4> QED
        BY <4>1, <4>2
    <3> QED
      BY <3>2, <3>3, <3>5, <3>6 DEF CaInv, Ca!SignedOnce
  <2> QED
    BY <1>4, <2>1, <2>2, <2>3 DEF Ca!Sign
<1>5. ASSUME NEW k \in Calls, Ca!CreateCert(k)
      PROVE  CaInv'
  <2>1. Ca!TypeOK'
    BY <1>5, <1>a, CaCalls DEF Ca!CreateCert, Ca!TypeOK, Ca!Cert
  <2>2. \A j \in Calls : \A i, m : Signing(j, i, m)' => Signing(j, i, m)
    BY <1>5, <1>a DEF Ca!CreateCert, Signing, Ca!TypeOK, Ca!Idle
  <2> QED
    BY <1>5, <1>a, <2>1, <2>2, CaKeeps DEF Ca!CreateCert, Spent
<1>6. ASSUME NEW k \in Calls, NEW id \in RowIds, Ca!CreateCertificateOf(k, id)
      PROVE  CaInv'
  <2>1. Ca!TypeOK'
    BY <1>6, <1>a, CaCalls DEF Ca!CreateCertificateOf, Ca!TypeOK, Ca!GetCAByID
  <2>2. \A j \in Calls : \A i, m : Signing(j, i, m)' => Signing(j, i, m)
    BY <1>6, <1>a DEF Ca!CreateCertificateOf, Signing, Ca!TypeOK
  <2> QED
    BY <1>6, <1>a, <2>1, <2>2, CaKeeps DEF Ca!CreateCertificateOf, Spent
<1>7. ASSUME NEW k \in Calls, NEW id \in RowIds, Ca!RevokeCert(k, id)
      PROVE  CaInv'
  <2>1. Ca!TypeOK'
    <3>1. \A c \in Ca!Cert : [c EXCEPT !.status = "revoked"] \in Ca!Cert
      BY DEF Ca!Cert
    <3>2. certificates' \subseteq Ca!Cert
      BY <1>7, <1>a, <3>1 DEF Ca!RevokeCert, Ca!TypeOK
    <3> QED
      BY <1>7, <1>a, <3>2 DEF Ca!RevokeCert, Ca!TypeOK
  <2> QED
    BY <1>7, <1>a, <2>1, CaKeeps DEF Ca!RevokeCert, Spent, Signing
<1>8. ASSUME NEW password \in Passwords, Ca!RestartPki(password)
      PROVE  CaInv'
  <2>1. Ca!TypeOK'
    BY <1>8, <1>a, CaCalls DEF Ca!RestartPki, Ca!TypeOK
  <2> QED
    BY <1>8, <1>a, <2>1, CaKeeps DEF Ca!RestartPki, Spent, Signing, Ca!Idle
<1>9. CASE UNCHANGED pkiVars
  <2>1. Ca!TypeOK'
    BY <1>9, <1>a DEF pkiVars, Ca!TypeOK
  <2> QED
    BY <1>9, <1>a, <2>1, CaKeeps DEF pkiVars, Spent, Signing
<1> QED
  BY <1>1, <1>2, <1>3, <1>4, <1>5, <1>6, <1>7, <1>8, <1>9 DEF Ca!Next

\* A certificate was signed and waits for its row.
Pending(k, id, n) ==
  pkiCall[k].op = "insert" /\ pkiCall[k].ca = id /\ pkiCall[k].serial = n

\* It was signed once, has no row yet, and is one request's.
Awaited ==
  \A id \in RowIds, n \in 1 .. MaxSerial :
    /\ \A k \in Calls : Pending(k, id, n) =>
         /\ signed[id][n] = 1
         /\ \A c \in certificates : ~(c.ca = id /\ c.serial = n)
    /\ \A j, k \in Calls : Pending(j, id, n) /\ Pending(k, id, n) => j = k

\* The inductive invariant of the rows, given the one of the serial numbers.
CertInv == Awaited /\ Ca!RowsAreSigned

\* It holds of an empty table.
LEMMA CertStart == Ca!Init => CertInv
  BY DEF Ca!Init, CertInv, Awaited, Ca!RowsAreSigned, Pending, Ca!Idle

\* A step that neither signs nor makes a row keeps it.
LEMMA CertKeeps ==
  ASSUME CertInv, UNCHANGED <<certificates, signed>>,
         \A k \in Calls, id \in RowIds, n \in 1 .. MaxSerial :
           Pending(k, id, n)' => Pending(k, id, n)
  PROVE  CertInv'
<1>1. Awaited'
  BY DEF CertInv, Awaited
<1> QED
  BY <1>1 DEF CertInv, Ca!RowsAreSigned

\* It is inductive: one step for each action.
LEMMA CertStep == CaInv /\ CertInv /\ [Ca!Next]_pkiVars => CertInv'
<1> SUFFICES ASSUME CaInv, CertInv, [Ca!Next]_pkiVars PROVE CertInv'
  OBVIOUS
<1> USE DEF Ca!Become, Ca!Answer
<1>a. /\ Ca!TypeOK /\ \A k \in Calls : pkiCall[k] \in Ca!Call
      /\ pkiCall = [k \in Calls |-> pkiCall[k]]
      /\ \A c \in certificates : c.ca \in RowIds /\ c.serial \in 1 .. MaxSerial
  BY DEF CaInv, Ca!TypeOK, Ca!Cert
<1>1. ASSUME NEW k \in Calls, Ca!CreateCA(k)
      PROVE  CertInv'
  BY <1>1, CertKeeps DEF Ca!CreateCA, Pending
<1>2. ASSUME NEW k \in Calls, NEW id \in RowIds, Ca!DeleteCA(k, id)
      PROVE  CertInv'
  BY <1>2, CertKeeps DEF Ca!DeleteCA, Pending
<1>3. ASSUME NEW k \in Calls, Ca!TakeSerial(k)
      PROVE  CertInv'
  <2>1. \A j \in Calls, i \in RowIds, m \in 1 .. MaxSerial : Pending(j, i, m)' => Pending(j, i, m)
    BY <1>3, <1>a DEF Ca!TakeSerial, Pending, Ca!Idle
  <2> QED
    BY <1>3, <2>1, CertKeeps DEF Ca!TakeSerial
<1>4. ASSUME NEW k \in Calls, Ca!Sign(k)
      PROVE  CertInv'
  <2>1. PICK id \in RowIds, n \in 1 .. MaxSerial :
          id = pkiCall[k].ca.id /\ n = pkiCall[k].serial /\ Signing(k, id, n)
    BY <1>4, <1>a, CaCalls DEF Ca!Sign, Ca!CA, Signing
  <2>2. CASE Ca!Answer(k) /\ UNCHANGED signed
    <3>1. \A j \in Calls, i \in RowIds, m \in 1 .. MaxSerial : Pending(j, i, m)' => Pending(j, i, m)
      BY <1>a, <2>2 DEF Pending, Ca!Idle
    <3> QED
      BY <1>4, <2>2, <3>1, CertKeeps DEF Ca!Sign
  <2>3. CASE /\ Ca!CreateCertificate(id, n)
             /\ Ca!Become(k, [op |-> "insert", ca |-> id, serial |-> n])
    <3>1. signed[id][n] = 0
      <4>1. ~(signed[id][n] > 0)
        BY <2>1 DEF CaInv, Accounted
      <4>2. signed[id][n] \in 0 .. 2
        BY <1>a DEF Ca!TypeOK
      <4> QED
        BY <4>1, <4>2
    <3>2. \A i \in RowIds, m \in 1 .. MaxSerial :
            signed'[i][m] = IF i = id /\ m = n THEN 1 ELSE signed[i][m]
      BY OutsideAssumption, <1>a, <2>1, <2>3, <3>1 DEF Ca!CreateCertificate, Ca!TypeOK
    <3>3. \A j \in Calls, i \in RowIds, m \in 1 .. MaxSerial :
            Pending(j, i, m)' <=> IF j = k THEN i = id /\ m = n ELSE Pending(j, i, m)
      BY <2>3, <1>a DEF Pending
    <3>4. \A c \in certificates : ~(c.ca = id /\ c.serial = n)
      BY <3>1 DEF CertInv, Ca!RowsAreSigned
    <3>5. \A j \in Calls : ~Pending(j, id, n)
      BY <3>1 DEF CertInv, Awaited
    <3>6. certificates' = certificates
      BY <1>4 DEF Ca!Sign
    <3>7. Awaited'
      <4> SUFFICES ASSUME NEW i \in RowIds, NEW m \in 1 .. MaxSerial
                   PROVE  /\ \A j \in Calls : Pending(j, i, m)' =>
                               /\ signed'[i][m] = 1
                               /\ \A c \in certificates : ~(c.ca = i /\ c.serial = m)
                          /\ \A j, l \in Calls :
                               Pending(j, i, m)' /\ Pending(l, i, m)' => j = l
        BY <3>6 DEF Awaited
      <4>1. CASE i = id /\ m = n
        BY <3>2, <3>3, <3>4, <3>5, <4>1
      <4>2. CASE ~(i = id /\ m = n)
        BY <3>2, <3>3, <4>2 DEF CertInv, Awaited
      <4> QED
        BY <4>1, <4>2
    <3>8. Ca!RowsAreSigned'
      BY <1>a, <3>2, <3>4, <3>6 DEF CertInv, Ca!RowsAreSigned
    <3> QED
      BY <3>7, <3>8 DEF CertInv
  <2> QED
    BY <1>4, <2>1, <2>2, <2>3 DEF Ca!Sign
<1>5. ASSUME NEW k \in Calls, Ca!CreateCert(k)
      PROVE  CertInv'
  <2>1. \A j \in Calls, i \in RowIds, m \in 1 .. MaxSerial :
          Pending(j, i, m)' => j # k /\ Pending(j, i, m)
    BY <1>5, <1>a DEF Ca!CreateCert, Pending, Ca!Idle
  <2>2. UNCHANGED signed
    BY <1>5 DEF Ca!CreateCert
  <2>3. CASE UNCHANGED certificates
    BY <2>1, <2>2, <2>3, CertKeeps
  <2>4. ASSUME NEW id \in RowIds \ {c.id : c \in certificates},
               certificates' = certificates \cup
                 {[id |-> id, ca |-> pkiCall[k].ca, serial |-> pkiCall[k].serial,
                   status |-> "active"]}
        PROVE  CertInv'
    <3> DEFINE row == [id |-> id, ca |-> pkiCall[k].ca, serial |-> pkiCall[k].serial,
                       status |-> "active"]
    <3>a. pkiCall[k].op = "insert" /\ pkiCall[k].ca \in RowIds /\ pkiCall[k].serial \in 1 .. MaxSerial
      BY <1>5, <1>a, CaCalls DEF Ca!CreateCert
    <3>b. /\ row.ca = pkiCall[k].ca /\ row.serial = pkiCall[k].serial
          /\ certificates' = certificates \cup {row}
      BY <2>4
    <3> HIDE DEF row
    <3>1. PICK new : /\ certificates' = certificates \cup {new}
                     /\ new.ca \in RowIds /\ new.serial \in 1 .. MaxSerial
                     /\ Pending(k, new.ca, new.serial)
      BY <3>a, <3>b DEF Pending
    <3>2. /\ signed[new.ca][new.serial] = 1
          /\ \A c \in certificates : ~(c.ca = new.ca /\ c.serial = new.serial)
          /\ \A j \in Calls : Pending(j, new.ca, new.serial) => j = k
      BY <3>1 DEF CertInv, Awaited
    <3>3. Awaited'
      BY <2>1, <2>2, <3>1, <3>2 DEF CertInv, Awaited
    <3>4. Ca!RowsAreSigned'
      BY <2>2, <3>1, <3>2 DEF CertInv, Ca!RowsAreSigned
    <3> QED
      BY <3>3, <3>4 DEF CertInv
  <2> QED
    BY <1>5, <2>3, <2>4 DEF Ca!CreateCert
<1>6. ASSUME NEW k \in Calls, NEW id \in RowIds, Ca!CreateCertificateOf(k, id)
      PROVE  CertInv'
  <2>1. \A j \in Calls, i \in RowIds, m \in 1 .. MaxSerial : Pending(j, i, m)' => Pending(j, i, m)
    BY <1>6, <1>a DEF Ca!CreateCertificateOf, Pending
  <2> QED
    BY <1>6, <2>1, CertKeeps DEF Ca!CreateCertificateOf
<1>7. ASSUME NEW k \in Calls, NEW id \in RowIds, Ca!RevokeCert(k, id)
      PROVE  CertInv'
  <2> DEFINE revoked(c) == IF c.id = id THEN [c EXCEPT !.status = "revoked"] ELSE c
  <2>1. \A c \in certificates : revoked(c).ca = c.ca /\ revoked(c).serial = c.serial
    BY <1>a DEF Ca!TypeOK, Ca!Cert
  <2>2. certificates' = {revoked(c) : c \in certificates} /\ UNCHANGED <<pkiCall, signed>>
    BY <1>7 DEF Ca!RevokeCert
  <2> HIDE DEF revoked
  <2>3. Awaited'
    BY <2>1, <2>2 DEF CertInv, Awaited, Pending
  <2>4. Ca!RowsAreSigned'
    BY <2>1, <2>2 DEF CertInv, Ca!RowsAreSigned
  <2> QED
    BY <2>3, <2>4 DEF CertInv
<1>8. ASSUME NEW password \in Passwords, Ca!RestartPki(password)
      PROVE  CertInv'
  BY <1>8, CertKeeps DEF Ca!RestartPki, Pending, Ca!Idle
<1>9. CASE UNCHANGED pkiVars
  BY <1>9, CertKeeps DEF pkiVars, Pending
<1> QED
  BY <1>1, <1>2, <1>3, <1>4, <1>5, <1>6, <1>7, <1>8, <1>9 DEF Ca!Next

\* What RevokedStay asks of a step.
CaStands ==
  /\ \A c \in certificates : \E d \in certificates' :
       /\ d.id = c.id /\ d.ca = c.ca /\ d.serial = c.serial
       /\ c.status = "revoked" => d.status = "revoked"
  /\ \A a \in authorities : a.deleted => a \in authorities'

\* Rows are only added to, but for a revocation, a deletion and the counter of
\* a CA that is not deleted; since a CA has one row, no other moves.
LEMMA CaStays == CaInv /\ [Ca!Next]_pkiVars => CaStands
<1> SUFFICES ASSUME CaInv, [Ca!Next]_pkiVars PROVE CaStands
  OBVIOUS
<1>a. /\ authorities \subseteq Ca!CA /\ certificates \subseteq Ca!Cert
      /\ \A a, b \in authorities : a.id = b.id => a = b
  BY DEF CaInv, Ca!TypeOK
<1>b. /\ certificates \subseteq certificates' =>
           \A c \in certificates : \E d \in certificates' :
             /\ d.id = c.id /\ d.ca = c.ca /\ d.serial = c.serial
             /\ c.status = "revoked" => d.status = "revoked"
  OBVIOUS
<1>1. ASSUME NEW k \in Calls, NEW id \in RowIds, Ca!DeleteCA(k, id)
      PROVE  CaStands
  <2> DEFINE mark(a) == IF a.id = id THEN [a EXCEPT !.deleted = TRUE] ELSE a
  <2>1. \A a \in authorities : a.deleted => mark(a) = a
    BY <1>a DEF Ca!CA
  <2>2. authorities' = {mark(a) : a \in authorities} /\ certificates \subseteq certificates'
    BY <1>1 DEF Ca!DeleteCA
  <2> QED
    BY <1>b, <2>1, <2>2 DEF CaStands
<1>2. ASSUME NEW k \in Calls, Ca!TakeSerial(k)
      PROVE  CaStands
  <2>1. CASE UNCHANGED authorities
    BY <1>2, <1>b, <2>1 DEF Ca!TakeSerial, CaStands
  <2>2. ASSUME NEW id, NEW serial \in Ca!GetNextSerialNumber(id), Ca!StoreSerial(id, serial)
        PROVE  CaStands
    <3> DEFINE stored(a) == IF a.id = id THEN [a EXCEPT !.serial = serial] ELSE a
    <3>1. PICK old \in authorities : old.id = id /\ ~old.deleted
      BY DEF Ca!GetNextSerialNumber, Ca!GetCAByID
    <3>2. \A a \in authorities : a.deleted => stored(a) = a
      BY <1>a, <3>1
    <3>3. authorities' = {stored(a) : a \in authorities} /\ certificates \subseteq certificates'
      BY <1>2, <2>2 DEF Ca!TakeSerial, Ca!StoreSerial
    <3> QED
      BY <1>b, <3>2, <3>3 DEF CaStands
  <2> QED
    BY <1>2, <2>1, <2>2 DEF Ca!TakeSerial
<1>3. ASSUME NEW k \in Calls, NEW id \in RowIds, Ca!RevokeCert(k, id)
      PROVE  CaStands
  <2> DEFINE revoked(c) == IF c.id = id THEN [c EXCEPT !.status = "revoked"] ELSE c
  <2>1. \A c \in certificates :
          /\ revoked(c).id = c.id /\ revoked(c).ca = c.ca /\ revoked(c).serial = c.serial
          /\ c.status = "revoked" => revoked(c).status = "revoked"
    BY <1>a DEF Ca!Cert
  <2>2. certificates' = {revoked(c) : c \in certificates} /\ UNCHANGED authorities
    BY <1>3 DEF Ca!RevokeCert
  <2> HIDE DEF revoked
  <2> QED
    BY <2>1, <2>2 DEF CaStands
<1>4. CASE authorities \subseteq authorities' /\ certificates \subseteq certificates'
  BY <1>b, <1>4 DEF CaStands
<1>5. ASSUME NEW k \in Calls,
             \/ Ca!CreateCA(k) \/ Ca!Sign(k) \/ Ca!CreateCert(k)
             \/ \E id \in RowIds : Ca!CreateCertificateOf(k, id)
      PROVE  CaStands
  BY <1>4, <1>5 DEF Ca!CreateCA, Ca!Sign, Ca!CreateCert, Ca!CreateCertificateOf
<1>6. ASSUME NEW password \in Passwords, Ca!RestartPki(password)
      PROVE  CaStands
  BY <1>4, <1>6 DEF Ca!RestartPki
<1>7. CASE UNCHANGED pkiVars
  BY <1>4, <1>7 DEF pkiVars
<1> QED
  BY <1>1, <1>2, <1>3, <1>5, <1>6, <1>7 DEF Ca!Next

-----------------------------------------------------------------------------
(* terminal-service *)

\* A recording that is not an html one, which holds nothing, holds the chunks
\* 1, 2, 3 and so on up to its number.
InOrder ==
  /\ buffer \in Seq(Term!RecordingState)
  /\ \A t \in DOMAIN buffer :
       /\ Len(buffer[t].lines) = IF buffer[t].format = "html" THEN 0 ELSE buffer[t].number
       /\ \A i \in 1 .. Len(buffer[t].lines) : buffer[t].lines[i] = i

\* The chunk was numbered by its recording.
Numbered(o) == o.take \in DOMAIN buffer /\ o.number <= buffer[o.take].number

\* What a request will number or insert.
Ready(call) ==
  /\ call.op \in {"file", "number"} => call.take \in DOMAIN buffer
  /\ call.op = "insert" => Numbered(call.output) /\ call.output \notin outputs

\* The inductive invariant: no two requests are about to insert one chunk.
TermInv ==
  /\ Term!TypeOK
  /\ InOrder
  /\ \A id \in SessionIds : active[id] # 0 => active[id] \in DOMAIN buffer
  /\ \A o \in outputs : Numbered(o)
  /\ \A k \in Calls : Ready(termCall[k])
  /\ \A k, j \in Calls : termCall[k].op = "insert" /\ termCall[j] = termCall[k] => j = k

\* What the op of a call says of its fields.
LEMMA TermCalls ==
  /\ Term!Idle \in Term!Call
  /\ \A id \in SessionIds :
       /\ \A op \in {"update", "close", "ask", "stop", "record"} :
            [op |-> op, id |-> id] \in Term!Call
       /\ \A op \in {"file", "number"}, t \in Takes :
            [op |-> op, id |-> id, take |-> t] \in Term!Call
  /\ \A o \in Term!TerminalOutput : [op |-> "insert", output |-> o] \in Term!Call
  /\ \A c \in Term!Call :
       /\ c.op \in {"update", "close", "ask", "stop", "record"} =>
            c \in [op : {"update", "close", "ask", "stop", "record"}, id : SessionIds]
       /\ c.op \in {"file", "number"} => c.id \in SessionIds /\ c.take \in Takes
       /\ c.op = "insert" => c \in [op : {"insert"}, output : Term!TerminalOutput]
  BY DEF Term!Call, Term!Idle

\* A chunk that was numbered is in the playback, or in the data, at its number.
LEMMA TermImplies == TermInv => Term!PlaybackAgreesWithRows
<1> SUFFICES ASSUME TermInv PROVE Term!PlaybackAgreesWithRows
  OBVIOUS
<1>1. ASSUME NEW id \in SessionIds, NEW after \in 0 .. MaxChunks, NEW o \in outputs,
             o.session = id, o.number > after, o.take = active[id],
             Term!Running(id).format # "html"
      PROVE  /\ o.number \in Term!GetPlaybackData(id, after)
             /\ o.number \in Term!GetAsciinemaData(id)
  <2>1. o.number \in Nat /\ o.number <= buffer[active[id]].number /\ active[id] \in DOMAIN buffer
    BY <1>1, OutsideAssumption DEF TermInv, Numbered, Term!TypeOK, Term!TerminalOutput, Term!Numbers
  <2>2. buffer[active[id]].number \in Nat
    BY <2>1, OutsideAssumption DEF TermInv, Term!TypeOK, Term!RecordingState
  <2>3. Len(buffer[active[id]].lines) = buffer[active[id]].number
    BY <1>1, <2>1 DEF TermInv, InOrder, Term!Running
  <2>4. /\ o.number \in after + 1 .. Len(buffer[active[id]].lines)
        /\ o.number \in 1 .. Len(buffer[active[id]].lines)
        /\ buffer[active[id]].lines[o.number] = o.number
    BY <1>1, <2>1, <2>2, <2>3, OutsideAssumption DEF TermInv, InOrder
  <2> QED
    BY <2>4 DEF Term!GetPlaybackData, Term!GetAsciinemaData, Term!Running
<1>2. \A k \in Calls : termCall[k].op = "insert" =>
        termCall[k].output \notin outputs /\ \A j \in Calls \ {k} : termCall[j] # termCall[k]
  BY DEF TermInv, Ready
<1>3. \A id \in SessionIds : ~Term!PlaybackFails(id) => Term!Running(id).format # "html"
  BY DEF Term!PlaybackFails
<1> QED
  BY <1>1, <1>2, <1>3 DEF Term!PlaybackAgreesWithRows, Term!GetOutputs

\* The invariant holds of a service that has recorded nothing.
LEMMA TermStart == Term!Init => TermInv
  BY TermCalls
  DEF Term!Init, TermInv, Term!TypeOK, InOrder, Ready, Numbered, Term!Idle

\* The buffers only grow, and no chunk is about to be inserted that was not.
LEMMA TermKeeps ==
  ASSUME TermInv, Term!TypeOK', InOrder', outputs' \subseteq outputs,
         \A t \in DOMAIN buffer : t \in DOMAIN buffer' /\ buffer'[t].number = buffer[t].number,
         \A id \in SessionIds :
           active'[id] = active[id] \/ active'[id] = 0 \/ active'[id] \in DOMAIN buffer',
         \A k \in Calls :
           \/ termCall'[k] = termCall[k]
           \/ /\ termCall'[k].op # "insert"
              /\ termCall'[k].op \in {"file", "number"} => termCall'[k].take \in DOMAIN buffer'
  PROVE  TermInv'
<1>1. \A o : Numbered(o) => Numbered(o)'
  BY DEF Numbered
<1>2. \A id \in SessionIds : active'[id] # 0 => active'[id] \in DOMAIN buffer'
  BY DEF TermInv
<1>3. \A o \in outputs' : Numbered(o)'
  BY <1>1 DEF TermInv
<1>4. ASSUME NEW k \in Calls PROVE Ready(termCall[k])'
  <2>1. Ready(termCall[k])
    BY DEF TermInv
  <2>2. CASE termCall'[k] = termCall[k]
    BY <1>1, <2>1, <2>2 DEF Ready, Numbered
  <2>3. CASE /\ termCall'[k].op # "insert"
             /\ termCall'[k].op \in {"file", "number"} => termCall'[k].take \in DOMAIN buffer'
    BY <2>3 DEF Ready
  <2> QED
    BY <2>2, <2>3
<1>5. ASSUME NEW k \in Calls, NEW j \in Calls, termCall'[k].op = "insert",
             termCall'[j] = termCall'[k]
      PROVE  j = k
  BY <1>5 DEF TermInv
<1> QED
  BY <1>2, <1>3, <1>4, <1>5 DEF TermInv

\* A request that goes on to something other than numbering or inserting.
LEMMA TermQuiet ==
  ASSUME TermInv, NEW k \in Calls, NEW next \in Term!Call, Term!Become(k, next),
         next.op # "insert",
         next.op \in {"file", "number"} => next.take \in DOMAIN buffer,
         terminals' \in [SessionIds -> Term!Status \cup {"none"}],
         UNCHANGED <<outputs, active, buffer>>,
         castFiles' \in [SessionIds \X Term!Formats -> Takes \cup {0}]
  PROVE  TermInv'
<1>1. Term!TypeOK'
  BY DEF TermInv, Term!TypeOK, Term!Become
<1>2. InOrder'
  BY DEF TermInv, InOrder
<1>3. \A j \in Calls : termCall'[j] = IF j = k THEN next ELSE termCall[j]
  BY DEF TermInv, Term!TypeOK, Term!Become
<1> QED
  BY <1>1, <1>2, <1>3, TermKeeps

\* It is inductive: one step for each action.
LEMMA TermStep == TermInv /\ [Term!Next]_terminalVars => TermInv'
<1> SUFFICES ASSUME TermInv, [Term!Next]_terminalVars PROVE TermInv'
  OBVIOUS
<1> USE DEF Term!recorderVars
<1>a. /\ Term!TypeOK /\ termCall \in [Calls -> Term!Call]
      /\ \A k \in Calls : termCall[k] \in Term!Call
      /\ Term!Idle \in Term!Call /\ Term!Idle.op = "none"
      /\ terminals \in [SessionIds -> Term!Status \cup {"none"}]
      /\ castFiles \in [SessionIds \X Term!Formats -> Takes \cup {0}]
      /\ active \in [SessionIds -> Takes \cup {0}]
  BY TermCalls DEF TermInv, Term!TypeOK, Term!Idle
<1>b. InOrder /\ DOMAIN buffer \subseteq Takes
  BY DEF TermInv, Term!TypeOK
<1>1. ASSUME NEW k \in Calls, NEW id \in SessionIds, Term!CreateTerminalSession(k, id)
      PROVE  TermInv'
  <2>1. Term!TypeOK' /\ UNCHANGED <<outputs, active, buffer, termCall>>
    BY <1>1, <1>a DEF Term!CreateTerminalSession, Term!TypeOK, Term!Status
  <2> QED
    BY <1>b, <2>1, TermKeeps DEF InOrder
<1>2. ASSUME NEW k \in Calls, NEW id \in SessionIds,
             \/ Term!CloseTerminalSession(k, id) \/ Term!StartRecording(k, id)
             \/ Term!UpdateTerminalSession(k, id)
      PROVE  TermInv'
  <2>1. /\ \E next \in Term!Call :
             Term!Become(k, next) /\ next.op \in {"update", "close", "record"}
        /\ UNCHANGED <<terminals, outputs, active, buffer, castFiles>>
    BY <1>2, TermCalls
    DEF Term!CloseTerminalSession, Term!StartRecording, Term!UpdateTerminalSession
  <2> QED
    BY <1>a, <2>1, TermQuiet
<1>3. ASSUME NEW k \in Calls, NEW id \in SessionIds, Term!WriteOutput(k, id)
      PROVE  TermInv'
  <2> DEFINE next == [op |-> "number", id |-> id, take |-> active[id]]
  <2>1. active[id] \in DOMAIN buffer /\ active[id] \in Takes
    BY <1>3, <1>a, <1>b DEF TermInv, Term!WriteOutput, Term!IsRecording
  <2>2. next \in Term!Call /\ next.op = "number" /\ next.take \in DOMAIN buffer
    BY <2>1, TermCalls
  <2>3. /\ Term!Become(k, next)
        /\ UNCHANGED <<terminals, outputs, active, buffer, castFiles>>
    BY <1>3 DEF Term!WriteOutput
  <2> HIDE DEF next
  <2> QED
    BY <1>a, <2>2, <2>3, TermQuiet
<1>4. ASSUME NEW k \in Calls, NEW status \in Term!Status, Term!UpdateSession(k, status)
      PROVE  TermInv'
  <2>1. termCall[k].id \in SessionIds
    BY <1>4, <1>a, TermCalls DEF Term!UpdateSession
  <2>2. terminals' \in [SessionIds -> Term!Status \cup {"none"}]
    BY <1>4, <1>a, <2>1 DEF Term!UpdateSession
  <2> QED
    BY <1>4, <1>a, <2>2, TermQuiet DEF Term!UpdateSession, Term!Answer
<1>5. ASSUME NEW k \in Calls, Term!CloseSession(k)
      PROVE  TermInv'
  <2> DEFINE next == [termCall[k] EXCEPT !.op = "ask"]
  <2>1. termCall[k] \in [op : {"update", "close", "ask", "stop", "record"}, id : SessionIds]
    BY <1>5, <1>a, TermCalls DEF Term!CloseSession
  <2>2. next \in [op : {"ask"}, id : SessionIds]
    BY <2>1
  <2>3. /\ Term!Become(k, next) /\ UNCHANGED <<outputs, active, buffer, castFiles>>
        /\ terminals' = [terminals EXCEPT ![termCall[k].id] = "closed"]
    BY <1>5 DEF Term!CloseSession
  <2> HIDE DEF next
  <2>4. next \in Term!Call /\ next.op = "ask"
    BY <2>2 DEF Term!Call
  <2>5. terminals' \in [SessionIds -> Term!Status \cup {"none"}]
    BY <1>a, <2>1, <2>3 DEF Term!Status
  <2> QED
    BY <1>a, <2>3, <2>4, <2>5, TermQuiet
<1>6. ASSUME NEW k \in Calls, Term!AskWhetherRecording(k)
      PROVE  TermInv'
  <2> DEFINE next == [termCall[k] EXCEPT !.op = "stop"]
  <2>1. termCall[k] \in [op : {"update", "close", "ask", "stop", "record"}, id : SessionIds]
    BY <1>6, <1>a, TermCalls DEF Term!AskWhetherRecording
  <2>2. next \in [op : {"stop"}, id : SessionIds]
    BY <2>1
  <2>3. /\ Term!Become(k, next) \/ Term!Become(k, Term!Idle)
        /\ UNCHANGED <<terminals, outputs, active, buffer, castFiles>>
    BY <1>6 DEF Term!AskWhetherRecording, Term!Answer
  <2> HIDE DEF next
  <2>4. next \in Term!Call /\ next.op = "stop"
    BY <2>2 DEF Term!Call
  <2> QED
    BY <1>a, <2>3, <2>4, TermQuiet
<1>7. ASSUME NEW k \in Calls, NEW format \in Term!Formats, Term!StartTake(k, format)
      PROVE  TermInv'
  <2>1. Term!Become(k, Term!Idle) /\ UNCHANGED <<terminals, outputs, castFiles>>
    BY <1>7 DEF Term!StartTake, Term!Answer
  <2>2. CASE UNCHANGED <<active, buffer>>
    BY <1>a, <2>1, <2>2, TermQuiet
  <2>3. ASSUME NEW id \in SessionIds, NEW t \in Takes, t = Len(buffer) + 1,
               active' = [active EXCEPT ![id] = t],
               buffer' = Append(buffer, [format |-> format, lines |-> <<>>, number |-> 0])
        PROVE  TermInv'
    <3> DEFINE empty == [format |-> format, lines |-> <<>>, number |-> 0]
    <3>1. empty \in Term!RecordingState /\ empty.number = 0 /\ Len(empty.lines) = 0
      BY OutsideAssumption DEF Term!RecordingState
    <3>2. buffer' = Append(buffer, empty)
      BY <2>3
    <3> HIDE DEF empty
    <3>3. /\ buffer \in Seq(Term!RecordingState) /\ buffer' \in Seq(Term!RecordingState)
          /\ DOMAIN buffer = 1 .. Len(buffer) /\ DOMAIN buffer' = 1 .. t
          /\ \A s \in DOMAIN buffer : s \in DOMAIN buffer' /\ buffer'[s] = buffer[s]
          /\ buffer'[t] = empty /\ Len(buffer) \in Nat
      BY <1>b, <2>3, <3>1, <3>2 DEF InOrder
    <3>4. \A s \in DOMAIN buffer' : s \in DOMAIN buffer \/ s = t
      BY <2>3, <3>3
    <3>5. InOrder'
      BY <1>b, <3>1, <3>3, <3>4 DEF InOrder
    <3>6. Term!TypeOK'
      BY <1>a, <1>b, <2>1, <2>3, <3>1, <3>3, <3>4 DEF Term!TypeOK, Term!Become
    <3>7. \A j \in Calls : termCall'[j] = termCall[j] \/ termCall'[j].op = "none"
      BY <1>a, <2>1 DEF Term!Become
    <3>8. t \in DOMAIN buffer'
      BY <2>3, <3>3
    <3> QED
      BY <1>a, <2>1, <2>3, <3>3, <3>5, <3>6, <3>7, <3>8, TermKeeps
  <2>4. termCall[k].id \in SessionIds
    BY <1>7, <1>a, TermCalls DEF Term!StartTake
  <2> QED
    BY <1>7, <2>2, <2>3, <2>4 DEF Term!StartTake
<1>8. ASSUME NEW k \in Calls, Term!NumberChunk(k)
      PROVE  TermInv'
  <2>1. PICK call \in Term!Call :
          call = termCall[k] /\ call.op = "number" /\ call.id \in SessionIds /\ call.take \in Takes
    BY <1>8, <1>a, TermCalls DEF Term!NumberChunk
  <2>t. PICK t \in Takes : t = call.take
    BY <2>1
  <2>2. t \in DOMAIN buffer /\ buffer[t] \in Term!RecordingState /\ buffer[t].number \in Nat
    BY <2>1, <2>t, OutsideAssumption DEF TermInv, Ready, Term!TypeOK, Term!RecordingState
  <2>n. PICK n \in Nat : n = buffer[t].number + 1
    BY <2>2
  <2>s. PICK state : state = [buffer[t] EXCEPT !.lines = Term!Buffered(buffer[t], n), !.number = n]
    OBVIOUS
  <2>o. PICK out : out = [session |-> call.id, take |-> t, number |-> n]
    OBVIOUS
  <2>x. PICK next : next = [op |-> "insert", output |-> out]
    OBVIOUS
  <2>3. /\ n \in Term!Numbers /\ buffer' = [buffer EXCEPT ![t] = state]
        /\ termCall' = [termCall EXCEPT ![k] = next]
        /\ UNCHANGED <<terminals, outputs, active, castFiles>>
    BY <1>8, <2>1, <2>t, <2>n, <2>s, <2>o, <2>x DEF Term!NumberChunk, Term!Become
  <2>4. /\ state \in Term!RecordingState /\ state.number = n
        /\ Len(state.lines) = IF state.format = "html" THEN 0 ELSE n
        /\ \A i \in 1 .. Len(state.lines) : state.lines[i] = i
    <3>1. /\ buffer[t].lines \in Seq(Term!Numbers) /\ buffer[t].format \in Term!Formats
          /\ Len(buffer[t].lines) = IF buffer[t].format = "html" THEN 0 ELSE buffer[t].number
          /\ \A i \in 1 .. Len(buffer[t].lines) : buffer[t].lines[i] = i
      BY <1>b, <2>2 DEF InOrder, Term!RecordingState
    <3> DEFINE lines == Term!Buffered(buffer[t], n)
    <3>2. /\ lines \in Seq(Term!Numbers)
          /\ Len(lines) = IF buffer[t].format = "html" THEN 0 ELSE n
          /\ \A i \in 1 .. Len(lines) : lines[i] = i
      BY <2>2, <2>n, <2>3, <3>1 DEF Term!Buffered
    <3>3. n \in 0 .. MaxChunks
      BY <2>3, OutsideAssumption DEF Term!Numbers
    <3> HIDE DEF lines
    <3>4. /\ state = [buffer[t] EXCEPT !.lines = lines, !.number = n]
          /\ buffer[t] \in [format : Term!Formats, lines : Seq(Term!Numbers), number : 0 .. MaxChunks]
      BY <2>2, <2>s DEF Term!RecordingState, lines
    <3>5. state.number = n /\ state.lines = lines /\ state.format = buffer[t].format
      BY <3>4
    <3>6. state \in Term!RecordingState
      BY <3>2, <3>3, <3>4 DEF Term!RecordingState
    <3> QED
      BY <3>2, <3>5, <3>6
  <2>5. /\ out \in Term!TerminalOutput /\ out.take = t /\ out.number = n
        /\ next \in Term!Call /\ next.op = "insert" /\ next.output = out
    BY <2>1, <2>o, <2>x, <2>3, TermCalls DEF Term!TerminalOutput
  <2>7. /\ buffer' \in Seq(Term!RecordingState) /\ DOMAIN buffer' = DOMAIN buffer
        /\ \A s \in DOMAIN buffer : buffer'[s] = IF s = t THEN state ELSE buffer[s]
    BY <1>b, <2>2, <2>3, <2>4 DEF InOrder
  <2>8. InOrder'
    BY <1>b, <2>4, <2>7 DEF InOrder
  <2>9. Term!TypeOK'
    BY <1>a, <2>3, <2>4, <2>5, <2>7 DEF Term!TypeOK
  <2>10. /\ \A o : Numbered(o) /\ o.number \in Nat => Numbered(o)'
         /\ Numbered(out)'
         /\ \A o : o.take = t /\ Numbered(o) => o # out
    <3>1. n \in Nat /\ buffer[t].number \in Nat /\ buffer[t].number < n
      BY <2>2, <2>n
    <3>2. ASSUME NEW o, Numbered(o), o.number \in Nat PROVE Numbered(o)'
      <4>1. CASE o.take = t
        BY <2>2, <2>4, <2>7, <3>1, <3>2, <4>1 DEF Numbered
      <4>2. CASE o.take # t
        BY <2>7, <3>2, <4>2 DEF Numbered
      <4> QED
        BY <4>1, <4>2
    <3>3. Numbered(out)'
      BY <2>2, <2>4, <2>5, <2>7, <3>1 DEF Numbered
    <3>4. \A o : o.take = t /\ Numbered(o) => o # out
      BY <2>5, <3>1 DEF Numbered
    <3> QED
      BY <3>2, <3>3, <3>4
  <2>11. \A o \in Term!TerminalOutput : o.number \in Nat
    BY OutsideAssumption DEF Term!TerminalOutput, Term!Numbers
  <2>12. \A o \in outputs' : Numbered(o)'
    BY <1>a, <2>3, <2>10, <2>11 DEF TermInv, Term!TypeOK
  <2>13. out \notin outputs
    BY <2>5, <2>10 DEF TermInv
  <2>14. ASSUME NEW j \in Calls, j # k, termCall[j].op = "insert"
         PROVE  /\ Numbered(termCall[j].output) /\ termCall[j].output \in Term!TerminalOutput
                /\ termCall[j].output # out /\ termCall[j].output \notin outputs
    BY <1>a, <2>5, <2>10, <2>14, TermCalls DEF TermInv, Ready
  <2>15. ASSUME NEW j \in Calls PROVE Ready(termCall[j])'
    <3>1. CASE j = k
      <4>1. termCall'[k] = next
        BY <1>a, <2>3
      <4> QED
        BY <2>3, <2>5, <2>10, <2>13, <3>1, <4>1 DEF Ready, Numbered
    <3>2. CASE j # k /\ termCall[j].op = "insert"
      BY <1>a, <2>3, <2>10, <2>11, <2>14, <3>2 DEF Ready
    <3>3. CASE j # k /\ termCall[j].op # "insert"
      BY <1>a, <2>3, <2>7, <3>3 DEF TermInv, Ready
    <3> QED
      BY <3>1, <3>2, <3>3
  <2>16. \A j, l \in Calls : termCall'[l].op = "insert" /\ termCall'[j] = termCall'[l] => j = l
    BY <1>a, <2>3, <2>5, <2>14 DEF TermInv
  <2>17. \A id \in SessionIds : active'[id] # 0 => active'[id] \in DOMAIN buffer'
    BY <2>3, <2>7 DEF TermInv
  <2> QED
    BY <2>8, <2>9, <2>12, <2>15, <2>16, <2>17 DEF TermInv
<1>9. ASSUME NEW k \in Calls, Term!CreateOutput(k)
      PROVE  TermInv'
  <2>1. PICK out \in Term!TerminalOutput :
          /\ termCall[k].op = "insert" /\ termCall[k].output = out
          /\ outputs' \in {outputs, outputs \cup {out}} /\ Numbered(out)
    BY <1>9, <1>a, TermCalls DEF Term!CreateOutput, TermInv, Ready
  <2>2. /\ termCall' = [termCall EXCEPT ![k] = Term!Idle]
        /\ UNCHANGED <<terminals, active, buffer, castFiles>>
    BY <1>9 DEF Term!CreateOutput, Term!Answer, Term!Become
  <2>3. Term!TypeOK' /\ InOrder'
    BY <1>a, <1>b, <2>1, <2>2 DEF Term!TypeOK, InOrder
  <2>4. \A o : Numbered(o)' <=> Numbered(o)
    BY <2>2 DEF Numbered
  <2>5. \A o \in outputs' : Numbered(o)'
    BY <2>1, <2>4 DEF TermInv
  <2>6. \A j \in Calls \ {k} : termCall[j].op = "insert" => termCall[j].output # out
    <3> SUFFICES ASSUME NEW j \in Calls \ {k}, termCall[j].op = "insert",
                        termCall[j].output = out
                 PROVE  termCall[j] = termCall[k]
      BY <2>1 DEF TermInv
    <3>1. /\ termCall[j] \in [op : {"insert"}, output : Term!TerminalOutput]
          /\ termCall[k] \in [op : {"insert"}, output : Term!TerminalOutput]
      BY <1>a, <2>1, TermCalls
    <3> QED
      BY <2>1, <3>1
  <2>7. \A j \in Calls : Ready(termCall[j])'
    BY <1>a, <2>1, <2>2, <2>4, <2>6 DEF TermInv, Ready
  <2>8. \A j, l \in Calls : termCall'[l].op = "insert" /\ termCall'[j] = termCall'[l] => j = l
    BY <1>a, <2>2 DEF TermInv
  <2> QED
    BY <2>2, <2>3, <2>5, <2>7, <2>8 DEF TermInv
<1>10. ASSUME NEW k \in Calls, Term!StopRecording(k)
      PROVE  TermInv'
  <2>1. termCall[k].id \in SessionIds
    BY <1>10, <1>a, TermCalls DEF Term!StopRecording
  <2> DEFINE id == termCall[k].id
             next == IF Term!IsRecording(id)
                       THEN [op |-> "file", id |-> id, take |-> active[id]] ELSE Term!Idle
  <2>2. /\ next \in Term!Call /\ next.op # "insert"
        /\ next.op \in {"file", "number"} => next.take \in DOMAIN buffer
    BY <1>a, <1>b, <2>1, TermCalls DEF TermInv, Term!IsRecording
  <2>3. /\ active' = [active EXCEPT ![id] = 0] /\ termCall' = [termCall EXCEPT ![k] = next]
        /\ UNCHANGED <<terminals, outputs, buffer, castFiles>>
    BY <1>10 DEF Term!StopRecording, Term!Become, Term!Answer
  <2> HIDE DEF next
  <2>4. Term!TypeOK' /\ InOrder'
    BY <1>a, <1>b, <2>1, <2>2, <2>3 DEF Term!TypeOK, InOrder
  <2> QED
    BY <1>a, <2>2, <2>3, <2>4, TermKeeps
<1>11. ASSUME NEW k \in Calls, Term!WriteRecordingFile(k)
      PROVE  TermInv'
  <2>1. termCall[k].id \in SessionIds /\ termCall[k].take \in Takes
    BY <1>11, <1>a, TermCalls DEF Term!WriteRecordingFile
  <2>2. PICK format :
          castFiles' \in {castFiles, [castFiles EXCEPT ![<<termCall[k].id, format>>] = termCall[k].take]}
    BY <1>11 DEF Term!WriteRecordingFile
  <2>3. castFiles' \in [SessionIds \X Term!Formats -> Takes \cup {0}]
    BY <1>a, <2>1, <2>2
  <2> QED
    BY <1>11, <1>a, <2>3, TermQuiet DEF Term!WriteRecordingFile, Term!Answer
<1>12. CASE Term!Restart
  <2>1. Term!TypeOK' /\ InOrder'
    BY <1>12, <1>a, <1>b DEF Term!Restart, Term!TypeOK, InOrder
  <2> QED
    BY <1>12, <1>a, <2>1, TermKeeps DEF Term!Restart
<1>13. CASE UNCHANGED terminalVars
  <2>1. Term!TypeOK' /\ InOrder'
    BY <1>13, <1>a, <1>b DEF terminalVars, Term!TypeOK, InOrder
  <2> QED
    BY <1>13, <2>1, TermKeeps DEF terminalVars
<1> QED
  BY <1>1, <1>2, <1>3, <1>4, <1>5, <1>6, <1>7, <1>8, <1>9, <1>10, <1>11, <1>12, <1>13
  DEF Term!Next

\* What ChunksStand asks of a step.
TermStands ==
  /\ outputs \subseteq outputs'
  /\ \A t \in DOMAIN buffer :
       /\ t \in DOMAIN buffer' /\ buffer[t].number <= buffer'[t].number
       /\ \A i \in DOMAIN buffer[t].lines :
            i \in DOMAIN buffer'[t].lines /\ buffer'[t].lines[i] = buffer[t].lines[i]
  /\ \A o \in outputs' \ outputs : o.number <= buffer[o.take].number

\* A chunk is added at the end of its buffer, and what is inserted was
\* numbered before.
LEMMA TermStays == TermInv /\ [Term!Next]_terminalVars => TermStands
<1> SUFFICES ASSUME TermInv, [Term!Next]_terminalVars PROVE TermStands
  OBVIOUS
<1> USE DEF Term!recorderVars
<1>a. /\ buffer \in Seq(Term!RecordingState)
      /\ \A t \in DOMAIN buffer : /\ buffer[t] \in Term!RecordingState
                                  /\ buffer[t].number \in Nat
                                  /\ buffer[t].lines \in Seq(Term!Numbers)
  <2>1. buffer \in Seq(Term!RecordingState)
    BY DEF TermInv, InOrder
  <2>2. \A t \in DOMAIN buffer : buffer[t] \in Term!RecordingState
    BY <2>1
  <2>3. \A r \in Term!RecordingState : r.number \in Nat /\ r.lines \in Seq(Term!Numbers)
    BY OutsideAssumption DEF Term!RecordingState
  <2> QED
    BY <2>1, <2>2, <2>3
<1>1. CASE UNCHANGED <<outputs, buffer>>
  BY <1>a, <1>1 DEF TermStands
<1>2. ASSUME NEW k \in Calls, NEW format \in Term!Formats, Term!StartTake(k, format)
      PROVE  TermStands
  <2>1. PICK fresh : buffer' = buffer \/ buffer' = Append(buffer, fresh)
    BY <1>2 DEF Term!StartTake
  <2>2. \A t \in DOMAIN buffer : t \in DOMAIN buffer' /\ buffer'[t] = buffer[t]
    BY <1>a, <2>1
  <2> QED
    BY <1>a, <1>2, <2>2 DEF Term!StartTake, TermStands
<1>3. ASSUME NEW k \in Calls, Term!NumberChunk(k)
      PROVE  TermStands
  <2>1. PICK t : t = termCall[k].take /\ t \in DOMAIN buffer
    BY <1>3 DEF Term!NumberChunk, TermInv, Ready
  <2>2. PICK n : n = buffer[t].number + 1
    OBVIOUS
  <2>3. PICK lines : lines = Term!Buffered(buffer[t], n)
    OBVIOUS
  <2>4. /\ buffer' = [buffer EXCEPT ![t] = [buffer[t] EXCEPT !.lines = lines, !.number = n]]
        /\ outputs' = outputs
    BY <1>3, <2>1, <2>2, <2>3 DEF Term!NumberChunk
  <2>5. \A i \in DOMAIN buffer[t].lines : i \in DOMAIN lines /\ lines[i] = buffer[t].lines[i]
    BY <1>a, <2>1, <2>3 DEF Term!Buffered
  <2>6. \A s \in DOMAIN buffer :
          s \in DOMAIN buffer' /\ (s # t => buffer'[s] = buffer[s])
    BY <1>a, <2>4
  <2>7. buffer'[t].number = n /\ buffer'[t].lines = lines
    <3>1. /\ buffer[t] \in [format : Term!Formats, lines : Seq(Term!Numbers), number : 0 .. MaxChunks]
          /\ buffer'[t] = [buffer[t] EXCEPT !.lines = lines, !.number = n]
      BY <1>a, <2>1, <2>4 DEF Term!RecordingState
    <3> QED
      BY <3>1
  <2> QED
    BY <1>a, <2>1, <2>2, <2>4, <2>5, <2>6, <2>7 DEF TermStands
<1>4. ASSUME NEW k \in Calls, Term!CreateOutput(k)
      PROVE  TermStands
  <2>1. outputs' \in {outputs, outputs \cup {termCall[k].output}} /\ buffer' = buffer
    BY <1>4 DEF Term!CreateOutput
  <2>2. Numbered(termCall[k].output)
    BY <1>4 DEF Term!CreateOutput, TermInv, Ready
  <2> QED
    BY <1>a, <2>1, <2>2 DEF Numbered, TermStands
<1>5. ASSUME NEW k \in Calls, NEW id \in SessionIds,
             \/ Term!CreateTerminalSession(k, id) \/ Term!CloseTerminalSession(k, id)
             \/ Term!StartRecording(k, id) \/ Term!WriteOutput(k, id)
             \/ Term!UpdateTerminalSession(k, id)
      PROVE  TermStands
  BY <1>1, <1>5
  DEF Term!CreateTerminalSession, Term!CloseTerminalSession, Term!StartRecording,
      Term!WriteOutput, Term!UpdateTerminalSession
<1>6. ASSUME NEW k \in Calls,
             \/ \E status \in Term!Status : Term!UpdateSession(k, status)
             \/ Term!CloseSession(k) \/ Term!AskWhetherRecording(k)
             \/ Term!StopRecording(k) \/ Term!WriteRecordingFile(k)
      PROVE  TermStands
  BY <1>1, <1>6
  DEF Term!UpdateSession, Term!CloseSession, Term!AskWhetherRecording, Term!StopRecording,
      Term!WriteRecordingFile
<1>7. CASE Term!Restart \/ UNCHANGED terminalVars
  BY <1>1, <1>7 DEF Term!Restart, terminalVars
<1> QED
  BY <1>2, <1>3, <1>4, <1>5, <1>6, <1>7 DEF Term!Next
=============================================================================
