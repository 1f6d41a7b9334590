------------------------------- MODULE Vault -------------------------------
(***************************************************************************)
(* services/vault-service: encrypted secrets and the snapshots of the      *)
(* values they had before a rotation.  tenantIsolationMiddleware, the      *)
(* handler's read and its writes are statements of their own.              *)
(***************************************************************************)

CONSTANTS
  Calls,      \* requests in flight at one time
  RowIds,     \* ids of secrets, never reused: a secret is deleted softly
  Users,
  Nobody,     \* the zero uuid, when a token carries it
  Values      \* an encrypted value with its iv and salt

VARIABLES
  secrets,    \* rows of secrets
  versions,   \* rows of secret_versions
  vaultCall,  \* requests in flight
  had         \* observed only: the values each secret has had

vaultVars == <<secrets, versions, vaultCall, had>>

\* CallerUserID takes the id of the token, which may be the zero one, and the
\* header X-User-ID where the token's is no id.
Callers == Users \cup {Nobody}

Secret == [id : RowIds, user : Callers, value : Values, deleted : BOOLEAN]
Version == [secret : RowIds, value : Values]

Idle == [op |-> "none"]
Scoped == {"get", "versions", "update", "delete", "rotate"}

\* What the middleware's read of the secret came to: the caller's own, no row,
\* or an error.
Seen == {"own", "absent", "failed"}

Call ==
  {Idle}
    \cup [op : Scoped, by : Callers, id : RowIds, seen : Seen]
    \cup [op : {"count"}, by : Callers, rows : SUBSET Secret]
    \cup [op : {"snapshot", "store"}, by : Callers, row : Secret, value : Values, seen : Seen]

TypeOK ==
  /\ secrets \subseteq Secret
  /\ versions \subseteq Version
  /\ vaultCall \in [Calls -> Call]
  /\ had \in [RowIds -> SUBSET Values]

Init ==
  /\ secrets = {}
  /\ versions = {}
  /\ vaultCall = [k \in Calls |-> Idle]
  /\ had = [id \in RowIds |-> {}]

-----------------------------------------------------------------------------
(* The tables *)

Become(k, call) == vaultCall' = [vaultCall EXCEPT ![k] = call]
Answer(k) == Become(k, Idle)

GetSecretByID(id) == {s \in secrets : s.id = id /\ ~s.deleted}

\* The zero uuid is no filter.
SecretsOf(u) == {s \in secrets : ~s.deleted /\ (u = Nobody \/ s.user = u)}
GetSecretVersions(id) == {v \in versions : v.secret = id}

Named == {s.id : s \in secrets}
           \cup {vaultCall[k].id : k \in {j \in Calls : vaultCall[j].op \in Scoped}}

\* Slip: the row that was read is written back whole.
UpdateWhole(row, value) ==
  /\ secrets' = {s \in secrets : s.id # row.id} \cup {[row EXCEPT !.value = value]}
  /\ had' = [had EXCEPT ![row.id] = @ \cup {value}]

\* UPDATE ... WHERE id AND deleted_at IS NULL; the owner is not among the
\* columns.
UpdateRow(row, value) ==
  LET live == GetSecretByID(row.id) IN
  /\ secrets' = (secrets \ live) \cup {[s EXCEPT !.value = value] : s \in live}
  /\ had' = IF live = {} THEN had ELSE [had EXCEPT ![row.id] = @ \cup {value}]

InsertSecret(row) ==
  /\ secrets' = secrets \cup {row}
  /\ had' = [had EXCEPT ![row.id] = {row.value}]

\* UPDATE ... SET deleted_at WHERE id AND deleted_at IS NULL
StoreDeletion(id) ==
  LET live == GetSecretByID(id) IN
  secrets' = (secrets \ live) \cup {[s EXCEPT !.deleted = TRUE] : s \in live}

CreateSecretVersion(v) == versions' = versions \cup {v}

-----------------------------------------------------------------------------
(* Who may reach which secret *)

\* Slip: a secret that is found is taken for the caller's.
AnyCaller(k, u, op, id) ==
  /\ vaultCall[k] = Idle
  /\ LET seen == IF GetSecretByID(id) = {} THEN "absent" ELSE "own"
     IN  Become(k, [op |-> op, by |-> u, id |-> id, seen |-> seen])
  /\ UNCHANGED <<secrets, versions, had>>

\* authMiddleware, then tenantIsolationMiddleware: another user's secret is
\* answered with 404.  A read that fails is not told from one that finds no
\* row: both leave the request to the handler.
IsolateTenant(k, u, op, id) ==
  /\ vaultCall[k] = Idle
  /\ \E seen \in Seen :
       /\ seen = "own" => \E s \in GetSecretByID(id) : s.user = u
       /\ seen = "absent" => GetSecretByID(id) = {}
       /\ Become(k, [op |-> op, by |-> u, id |-> id, seen |-> seen])
  /\ UNCHANGED <<secrets, versions, had>>

-----------------------------------------------------------------------------
(* The handlers *)

\* The owner is the caller, whatever the body says.
CreateSecret(k, u, value) ==
  /\ vaultCall[k] = Idle
  /\ \E id \in RowIds \ Named :
       InsertSecret([id |-> id, user |-> u, value |-> value, deleted |-> FALSE])
  /\ UNCHANGED <<versions, vaultCall>>

\* Two statements: the rows of a page, and how many there are by then.
ListSecrets(k, u) ==
  /\ vaultCall[k] = Idle
  /\ Become(k, [op |-> "count", by |-> u, rows |-> SecretsOf(u)])
  /\ UNCHANGED <<secrets, versions, had>>

CountSecrets(k) ==
  /\ vaultCall[k].op = "count"
  /\ Answer(k)
  /\ UNCHANGED <<secrets, versions, had>>

\* GetSecret answers the live row, GetSecretVersions every version of the
\* secret, a deleted one's too.
ReadSecret(k) ==
  /\ vaultCall[k].op \in {"get", "versions"}
  /\ Answer(k)
  /\ UNCHANGED <<secrets, versions, had>>

\* Where the handler's own read finds nothing, or fails, the answer is 404.
UpdateSecret(k, value) ==
  /\ vaultCall[k].op = "update"
  /\ LET call == vaultCall[k] IN
     \/ Answer(k)
     \/ \E s \in GetSecretByID(call.id) :
          Become(k, [op |-> "store", by |-> call.by, row |-> s, value |-> value,
                     seen |-> call.seen])
  /\ UNCHANGED <<secrets, versions, had>>

DeleteSecret(k) ==
  /\ vaultCall[k].op = "delete"
  /\ StoreDeletion(vaultCall[k].id) \/ UNCHANGED secrets
  /\ Answer(k)
  /\ UNCHANGED <<versions, had>>

RotateSecret(k, value) ==
  /\ vaultCall[k].op = "rotate"
  /\ LET call == vaultCall[k] IN
     \/ Answer(k)
     \/ \E s \in GetSecretByID(call.id) :
          Become(k, [op |-> "snapshot", by |-> call.by, row |-> s, value |-> value,
                     seen |-> call.seen])
  /\ UNCHANGED <<secrets, versions, had>>

\* Slip: the value is put in place of the old one before the snapshot.
SnapshotNew(k) ==
  /\ vaultCall[k].op = "snapshot"
  /\ CreateSecretVersion([secret |-> vaultCall[k].row.id, value |-> vaultCall[k].value])
  /\ Become(k, [vaultCall[k] EXCEPT !.op = "store"])
  /\ UNCHANGED <<secrets, had>>

\* The snapshot is of the row as it was read; a failure ends the request
\* before the secret is changed.
Snapshot(k) ==
  /\ vaultCall[k].op = "snapshot"
  /\ LET call == vaultCall[k] IN
     \/ Answer(k) /\ UNCHANGED versions
     \/ /\ CreateSecretVersion([secret |-> call.row.id, value |-> call.row.value])
        /\ Become(k, [call EXCEPT !.op = "store"])
  /\ UNCHANGED <<secrets, had>>

StoreSecret(k) ==
  /\ vaultCall[k].op = "store"
  /\ UpdateRow(vaultCall[k].row, vaultCall[k].value) \/ UNCHANGED <<secrets, had>>
  /\ Answer(k)
  /\ UNCHANGED versions

\* The process ends and another starts: a rotation may be cut off between the
\* snapshot and the new value.
Restart ==
  /\ vaultCall' = [k \in Calls |-> Idle]
  /\ UNCHANGED <<secrets, versions, had>>

Next ==
  \/ \E k \in Calls :
       \/ \E u \in Callers, op \in Scoped, id \in RowIds : IsolateTenant(k, u, op, id)
       \/ \E u \in Callers, value \in Values : CreateSecret(k, u, value)
       \/ (\E u \in Callers : ListSecrets(k, u)) \/ CountSecrets(k)
       \/ \E value \in Values : UpdateSecret(k, value) \/ RotateSecret(k, value)
       \/ ReadSecret(k) \/ DeleteSecret(k) \/ Snapshot(k) \/ StoreSecret(k)
  \/ Restart

Spec == Init /\ [][Next]_vaultVars

-----------------------------------------------------------------------------

\* A request whose secret the middleware read and found the caller's acts on
\* the caller's own, versions included, also when the row is deleted or
\* rotated after the check; one that it found absent reaches no secret that is
\* there, only versions that a deleted secret has left.  A row that is about to
\* be written, or a list, is the sender's own.  Nothing is said of a request
\* whose check failed to read, and of a list for the zero uuid: the code lets
\* them through.
TenantsStayApart ==
  \A k \in Calls :
    LET call == vaultCall[k] IN
    /\ call.op \in Scoped =>
         \A s \in secrets : s.id = call.id =>
           /\ call.seen = "own" => s.user = call.by
           /\ call.seen = "absent" => s.deleted
    /\ call.op \in {"snapshot", "store"} =>
         call.row.user = call.by \/ call.seen = "failed"
    /\ call.op = "count" => \A s \in call.rows : s.user = call.by \/ call.by = Nobody

\* A snapshot is of a value the secret did have, whichever steps of a
\* rotation failed and however rotations and updates overlap.
SnapshotsWereValues ==
  \A s \in secrets : \A v \in GetSecretVersions(s.id) : v.value \in had[s.id]

\* A deleted secret stays deleted and as it was, also when a request that
\* read it before writes it back.
DeletedSecretsStay == [][\A s \in secrets : s.deleted => s \in secrets']_secrets
=============================================================================
