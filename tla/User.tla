-------------------------------- MODULE User --------------------------------
(***************************************************************************)
(* services/user-service: users, found by id or e-mail, and their          *)
(* profiles, a row of another table.  A step is one SQL statement.         *)
(***************************************************************************)
CONSTANTS
  Calls,     \* requests in flight at one time
  RowIds,    \* ids of users, deleted softly and not reused
  Emails,
  Texts      \* values of a column

VARIABLES
  users,     \* rows of users
  profiles,  \* rows of user_profiles: the bio of a user, or "none"
  userCall   \* requests in flight

userVars == <<users, profiles, userCall>>

Row == [id : RowIds, email : Emails, name : Texts, deleted : BOOLEAN]

\* A request to update a profile names columns of users, of user_profiles,
\* or of both.
Idle == [op |-> "none"]
Call ==
  {Idle}
    \cup [op : {"create"}, email : Emails, name : Texts]
    \cup [op : {"fetch", "profile"}, id : RowIds]
    \cup [op : {"user"}, id : RowIds, name : Texts, bios : SUBSET Texts]
    \cup [op : {"bio"}, id : RowIds, bios : SUBSET Texts]
    \cup [op : {"page"}]

TypeOK ==
  /\ users \subseteq Row
  /\ \A u, v \in users : u.id = v.id => u = v
  /\ profiles \in [RowIds -> Texts \cup {"none"}]
  /\ userCall \in [Calls -> Call]

Init ==
  /\ users = {}
  /\ profiles = [id \in RowIds |-> "none"]
  /\ userCall = [k \in Calls |-> Idle]

Become(k, call) == userCall' = [userCall EXCEPT ![k] = call]
Answer(k) == Become(k, Idle)

-----------------------------------------------------------------------------
(* The tables *)

GetUserByID(id) == {u \in users : u.id = id /\ ~u.deleted}
GetUserByEmail(email) == {u \in users : u.email = email /\ ~u.deleted}
EmailExists(email) == GetUserByEmail(email) # {}
FreshIds == RowIds \ {u.id : u \in users}

\* The address is UNIQUE among all rows, deleted ones included.
InsertRow(email, name) ==
  /\ \A u \in users : u.email # email
  /\ \E id \in FreshIds :
       users' = users \cup {[id |-> id, email |-> email, name |-> name, deleted |-> FALSE]}

StoreDeletion(id) ==
  LET live == GetUserByID(id) IN
  users' = (users \ live) \cup {[u EXCEPT !.deleted = TRUE] : u \in live}

\* The row and what user_profiles has of it: nothing of a deleted user
GetProfile(id) == {<<u, profiles[id]>> : u \in GetUserByID(id)}

\* UPDATE ... WHERE id AND deleted_at IS NULL, of the columns named
UpdateName(id, name) ==
  LET live == GetUserByID(id)
  IN  users' = (users \ live) \cup {[u EXCEPT !.name = name] : u \in live}

-----------------------------------------------------------------------------
(* The handlers *)

CreateUser(k, email, name) ==
  /\ userCall[k] = Idle
  /\ ~EmailExists(email)
  /\ Become(k, [op |-> "create", email |-> email, name |-> name])
  /\ UNCHANGED <<users, profiles>>

\* Slip: EmailExists is all that keeps addresses apart.
InsertUnchecked(k) ==
  /\ userCall[k].op = "create"
  /\ \E id \in FreshIds :
       users' = users \cup {[id |-> id, email |-> userCall[k].email,
                             name |-> userCall[k].name, deleted |-> FALSE]}
  /\ Answer(k)
  /\ UNCHANGED profiles

\* The INSERT may fail (500) although EmailExists found no such user.
InsertUser(k) ==
  /\ userCall[k].op = "create"
  /\ LET email == userCall[k].email IN
     \/ (\E u \in users : u.email = email) /\ UNCHANGED users
     \/ InsertRow(email, userCall[k].name)
  /\ Answer(k)
  /\ UNCHANGED profiles

\* Two statements: how many rows there are, and a page of them.
ListUsers(k) ==
  /\ userCall[k] = Idle
  /\ Become(k, [op |-> "page"])
  /\ UNCHANGED <<users, profiles>>

\* The answer of ListUsers, and of UpdateUser and UpdateProfile, which read
\* the row again: a 500 when it has gone.
AnswerRead(k) ==
  /\ userCall[k].op \in {"page", "fetch", "profile"}
  /\ Answer(k)
  /\ UNCHANGED <<users, profiles>>

\* A request that names bio, timezone or locale asks for columns that users
\* has not, and fails as a whole.
UpdateUser(k, id, name, bios) ==
  /\ userCall[k] = Idle
  /\ bios = {} /\ GetUserByID(id) # {}
  /\ UpdateName(id, name)
  /\ Become(k, [op |-> "fetch", id |-> id])
  /\ UNCHANGED profiles

DeleteUser(k, id) ==
  /\ userCall[k] = Idle
  /\ StoreDeletion(id)
  /\ UNCHANGED <<profiles, userCall>>

\* The row joined with its profile; a user that is gone is answered at once.
ReadProfile(k, id) ==
  /\ userCall[k] = Idle
  /\ GetProfile(id) # {}
  /\ Become(k, [op |-> "page"])
  /\ UNCHANGED <<users, profiles>>

\* The columns of users are stored first, if any was named.
UpdateProfile(k, id, names, bios) ==
  /\ userCall[k] = Idle
  /\ \/ \E name \in names : Become(k, [op |-> "user", id |-> id, name |-> name, bios |-> bios])
     \/ names = {} /\ Become(k, [op |-> "bio", id |-> id, bios |-> bios])
  /\ UNCHANGED <<users, profiles>>

\* Slip: what was read for one request is stored for a deleted user too.
StoreAnyUser(k) ==
  /\ userCall[k].op = "user"
  /\ users' = {IF u.id = userCall[k].id THEN [u EXCEPT !.name = userCall[k].name] ELSE u
               : u \in users}
  /\ Become(k, [op |-> "bio", id |-> userCall[k].id, bios |-> userCall[k].bios])
  /\ UNCHANGED profiles

\* UpdateUser of the repository; no row is an error, and the profile is
\* left as it was.
StoreUser(k) ==
  /\ userCall[k].op = "user"
  /\ LET call == userCall[k] IN
     \/ GetUserByID(call.id) = {} /\ Answer(k) /\ UNCHANGED users
     \/ /\ GetUserByID(call.id) # {}
        /\ UpdateName(call.id, call.name)
        /\ Become(k, [op |-> "bio", id |-> call.id, bios |-> call.bios])
  /\ UNCHANGED profiles

\* INSERT ... ON CONFLICT DO UPDATE SET bio = COALESCE(new, old).  The
\* foreign key is content with a user that is deleted softly.
CreateOrUpdateProfile(k) ==
  /\ userCall[k].op = "bio"
  /\ LET call == userCall[k] IN
     \/ \E bio \in call.bios :
          /\ \E u \in users : u.id = call.id
          /\ profiles' = [profiles EXCEPT ![call.id] = bio]
          /\ Become(k, [op |-> "profile", id |-> call.id])
     \/ call.bios = {} /\ Become(k, [op |-> "profile", id |-> call.id]) /\ UNCHANGED profiles
     \/ call.bios # {} /\ Answer(k) /\ UNCHANGED profiles
  /\ UNCHANGED users

\* The process ends and another starts: requests in flight are cut off, rows
\* stay.
Restart ==
  /\ userCall' = [k \in Calls |-> Idle]
  /\ UNCHANGED <<users, profiles>>

Next ==
  \/ \E k \in Calls :
       \/ \E email \in Emails, name \in Texts : CreateUser(k, email, name)
       \/ InsertUser(k) \/ ListUsers(k) \/ AnswerRead(k)
       \/ \E id \in RowIds :
            \/ \E name \in Texts, bios \in SUBSET Texts : UpdateUser(k, id, name, bios)
            \/ DeleteUser(k, id) \/ ReadProfile(k, id)
            \/ \E names, bios \in {{}} \cup {{t} : t \in Texts} : UpdateProfile(k, id, names, bios)
       \/ StoreUser(k) \/ CreateOrUpdateProfile(k)
  \/ Restart

Spec == Init /\ [][Next]_userVars

-----------------------------------------------------------------------------

\* No two users have one address, though the check and the INSERT are two
\* statements and two registrations may run between them.
EmailsAreUnique == \A u, v \in users : u.email = v.email => u = v

\* A deleted user stays deleted and as it was.
DeletedUsersStay == [][\A u \in users : u.deleted => u \in users']_users
=============================================================================
