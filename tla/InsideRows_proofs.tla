------------------------ MODULE InsideRows_proofs ---------------------------
(***************************************************************************)
(* Proofs about the services of Inside that keep a table and nothing else. *)
(* Of each an inductive invariant is shown to hold at the start, to be     *)
(* kept by every step and to imply what the service promises of its rows,  *)
(* for any sets of rows, users and requests; so is what no single step     *)
(* does to a deleted row.                                                  *)
(***************************************************************************)
EXTENDS Inside, FiniteSetTheorems, FunctionTheorems, TLAPS

-----------------------------------------------------------------------------
(* vault-service *)

\* The secret there is, or was, has had the value.
HasHad(id, v) == (\E s \in secrets : s.id = id) /\ v \in had[id]

\* What the middleware has seen of a row is still so.
StillSo(c, s) ==
  s.id = c.id => (c.seen = "own" => s.user = c.by) /\ (c.seen = "absent" => s.deleted)

\* The row that a call goes on with is its sender's, if the check could tell.
Checked(c) == c.row.user = c.by \/ c.seen = "failed"

\* A list is of the sender's rows, if it has an id.
Listed(c) == \A s \in c.rows : s.user = c.by \/ c.by = Nobody

\* A call acts on what its check has found, and has read what was there.
Rightful(c) ==
  /\ c.op \in Secrets!Scoped => \A s \in secrets : StillSo(c, s)
  /\ c.op \in {"snapshot", "store"} => Checked(c) /\ HasHad(c.row.id, c.row.value)
  /\ c.op = "count" => Listed(c)

\* The inductive invariant.
VaultInv ==
  /\ Secrets!TypeOK
  /\ \A s, t \in secrets : s.id = t.id => s = t
  /\ \A s \in secrets : HasHad(s.id, s.value)
  /\ \A v \in versions : HasHad(v.secret, v.value)
  /\ \A k \in Calls : Rightful(vaultCall[k])

\* Deleted rows are as they were.
SecretsStay == \A s \in secrets : s.deleted => s \in secrets'

\* The calls that go on with a row.
RowCall ==
  [op : {"snapshot", "store"}, by : Secrets!Callers, row : Secrets!Secret,
   value : Values, seen : Secrets!Seen]

\* What the op of a call says of its fields.
LEMMA VaultCalls ==
  /\ Secrets!Idle \in Secrets!Call
  /\ \A op \in Secrets!Scoped, u \in Secrets!Callers, id \in SecretIds, seen \in Secrets!Seen :
       [op |-> op, by |-> u, id |-> id, seen |-> seen] \in Secrets!Call
  /\ \A u \in Secrets!Callers, rows \in SUBSET Secrets!Secret :
       [op |-> "count", by |-> u, rows |-> rows] \in Secrets!Call
  /\ RowCall \subseteq Secrets!Call
  /\ \A c \in Secrets!Call :
       /\ c.op \in Secrets!Scoped =>
            c.by \in Secrets!Callers /\ c.id \in SecretIds /\ c.seen \in Secrets!Seen
       /\ c.op \in {"snapshot", "store"} =>
            c \in RowCall /\ c.row.id \in SecretIds /\ c.row.value \in Values
<1>1. \A c \in Secrets!Call : c.op \in Secrets!Scoped =>
        c.by \in Secrets!Callers /\ c.id \in SecretIds /\ c.seen \in Secrets!Seen
  BY DEF Secrets!Call, Secrets!Idle, Secrets!Scoped
<1>2. \A c \in Secrets!Call : c.op \in {"snapshot", "store"} =>
        c \in RowCall /\ c.row.id \in SecretIds /\ c.row.value \in Values
  BY DEF Secrets!Call, Secrets!Idle, Secrets!Scoped, Secrets!Secret, RowCall
<1> QED
  BY <1>1, <1>2 DEF Secrets!Call, RowCall

\* The strengthening implies what it is for.
LEMMA VaultImplies == VaultInv => Secrets!TenantsStayApart /\ Secrets!SnapshotsWereValues
<1> SUFFICES ASSUME VaultInv PROVE Secrets!TenantsStayApart /\ Secrets!SnapshotsWereValues
  OBVIOUS
<1>1. Secrets!TenantsStayApart
  BY DEF VaultInv, Rightful, StillSo, Checked, Listed, Secrets!TenantsStayApart
<1>2. Secrets!SnapshotsWereValues
  BY DEF VaultInv, HasHad, Secrets!SnapshotsWereValues, Secrets!GetSecretVersions
<1> QED
  BY <1>1, <1>2

\* The invariant holds of empty tables.
LEMMA VaultStart == Secrets!Init => VaultInv
<1> SUFFICES ASSUME Secrets!Init PROVE VaultInv
  OBVIOUS
<1>1. Secrets!TypeOK
  BY VaultCalls DEF Secrets!Init, Secrets!TypeOK
<1>2. \A k \in Calls : Rightful(vaultCall[k])
  BY DEF Secrets!Init, Rightful, Secrets!Idle, Secrets!Scoped
<1> QED
  BY <1>1, <1>2 DEF VaultInv, Secrets!Init

\* What a step that writes no secret does to a call.
LEMMA VaultReads ==
  ASSUME VaultInv, UNCHANGED <<secrets, had>>,
         NEW k \in Calls, NEW next \in Secrets!Call, Secrets!Become(k, next), Rightful(next),
         versions' \subseteq Secrets!Version,
         \A v \in versions' : HasHad(v.secret, v.value)
  PROVE  VaultInv' /\ SecretsStay
<1>1. Secrets!TypeOK'
  BY DEF VaultInv, Secrets!TypeOK, Secrets!Become
<1>2. \A c : Rightful(c) => Rightful(c)'
  BY DEF Rightful, HasHad, StillSo, Checked, Listed
<1>3. \A j \in Calls : vaultCall'[j] = IF j = k THEN next ELSE vaultCall[j]
  BY DEF VaultInv, Secrets!TypeOK, Secrets!Become
<1>4. \A j \in Calls : Rightful(vaultCall'[j])
  BY <1>3 DEF VaultInv
<1>5. (\A j \in Calls : Rightful(vaultCall[j]))'
  BY <1>4 DEF Rightful, HasHad, StillSo, Checked, Listed
<1> QED
  BY <1>1, <1>5 DEF VaultInv, HasHad, SecretsStay

\* A statement that changes rows, no id and no owner, and notes what value
\* they get.
LEMMA VaultRewrite ==
  ASSUME VaultInv, NEW g,
         \A t : t \in secrets' <=> \E s \in secrets : t = g[s],
         \A s \in secrets : /\ g[s] \in Secrets!Secret
                            /\ g[s].id = s.id /\ g[s].user = s.user
                            /\ s.deleted => g[s] = s
                            /\ g[s].value \in had'[s.id],
         had' \in [SecretIds -> SUBSET Values],
         \A id \in SecretIds : had[id] \subseteq had'[id],
         NEW k \in Calls, Secrets!Become(k, Secrets!Idle),
         UNCHANGED versions
  PROVE  VaultInv' /\ SecretsStay
<1>a. /\ secrets \subseteq Secrets!Secret /\ versions \subseteq Secrets!Version
      /\ vaultCall \in [Calls -> Secrets!Call]
      /\ \A s \in secrets : s.id \in SecretIds
      /\ \A s, t \in secrets : s.id = t.id => s = t
  BY DEF VaultInv, Secrets!TypeOK, Secrets!Secret
<1>1. Secrets!TypeOK'
  BY <1>a, VaultCalls DEF Secrets!TypeOK, Secrets!Become
<1>2. \A id, v : HasHad(id, v) => HasHad(id, v)'
  <2> SUFFICES ASSUME NEW id, NEW v, HasHad(id, v) PROVE HasHad(id, v)'
    OBVIOUS
  <2>1. PICK s \in secrets : s.id = id
    BY DEF HasHad
  <2>2. g[s] \in secrets' /\ g[s].id = id /\ id \in SecretIds
    BY <1>a, <2>1
  <2>3. v \in had'[id]
    BY <2>2 DEF HasHad
  <2> QED
    BY <2>2, <2>3 DEF HasHad
<1>3. \A t \in secrets' : HasHad(t.id, t.value)'
  BY DEF HasHad
<1>4. \A s, t \in secrets' : s.id = t.id => s = t
  BY <1>a
<1>5. \A j \in Calls : vaultCall'[j] \in {vaultCall[j], Secrets!Idle}
  BY <1>a DEF Secrets!Become
<1>6. ASSUME NEW j \in Calls PROVE Rightful(vaultCall[j])'
  <2>1. CASE vaultCall'[j] = Secrets!Idle
    BY <2>1 DEF Rightful, Secrets!Idle, Secrets!Scoped
  <2>2. ASSUME NEW c, c = vaultCall[j], c = vaultCall'[j]
        PROVE  Rightful(vaultCall[j])'
    <3>1. Rightful(c)
      BY <2>2 DEF VaultInv
    <3>2. c.op \in Secrets!Scoped => \A s \in secrets' : StillSo(c, s)
      BY <3>1 DEF Rightful, StillSo
    <3>3. c.op \in {"snapshot", "store"} => Checked(c) /\ HasHad(c.row.id, c.row.value)'
      BY <1>2, <3>1 DEF Rightful
    <3>4. c.op = "count" => Listed(c)
      BY <3>1 DEF Rightful
    <3> QED
      BY <2>2, <3>2, <3>3, <3>4 DEF Rightful, HasHad, StillSo, Checked, Listed
  <2> QED
    BY <1>5, <2>1, <2>2
<1>7. \A v \in versions' : HasHad(v.secret, v.value)'
  BY <1>2 DEF VaultInv
<1>8. SecretsStay
  BY DEF SecretsStay
<1> QED
  BY <1>1, <1>3, <1>4, <1>6, <1>7, <1>8 DEF VaultInv

\* Every step of the service keeps it.
LEMMA VaultStep ==
  ASSUME VaultInv, [Secrets!Next]_vaultVars
  PROVE  VaultInv' /\ SecretsStay
<1>a. /\ secrets \subseteq Secrets!Secret /\ versions \subseteq Secrets!Version
      /\ vaultCall \in [Calls -> Secrets!Call]
      /\ had \in [SecretIds -> SUBSET Values]
      /\ \A s \in secrets : s.id \in SecretIds /\ s.value \in had[s.id]
      /\ \A s, t \in secrets : s.id = t.id => s = t
      /\ \A k \in Calls : vaultCall[k] \in Secrets!Call /\ Rightful(vaultCall[k])
  BY DEF VaultInv, Secrets!TypeOK, Secrets!Secret, HasHad
<1>b. \A v \in versions : v \in Secrets!Version /\ HasHad(v.secret, v.value)
  BY <1>a DEF VaultInv
<1>c. Rightful(Secrets!Idle) /\ Secrets!Idle \in Secrets!Call
  BY VaultCalls DEF Rightful, Secrets!Idle, Secrets!Scoped
<1>1. ASSUME NEW k \in Calls, UNCHANGED <<secrets, versions, had>>,
             NEW next \in Secrets!Call, Secrets!Become(k, next), Rightful(next)
      PROVE  VaultInv' /\ SecretsStay
  BY <1>1, <1>a, <1>b, VaultReads
<1>2. ASSUME NEW k \in Calls, NEW u \in Secrets!Callers, NEW op \in Secrets!Scoped,
             NEW id \in SecretIds, Secrets!IsolateTenant(k, u, op, id)
      PROVE  VaultInv' /\ SecretsStay
  <2>1. PICK seen \in Secrets!Seen :
          /\ seen = "own" => \E s \in Secrets!GetSecretByID(id) : s.user = u
          /\ seen = "absent" => Secrets!GetSecretByID(id) = {}
          /\ Secrets!Become(k, [op |-> op, by |-> u, id |-> id, seen |-> seen])
    BY <1>2 DEF Secrets!IsolateTenant
  <2>2. PICK next : next = [op |-> op, by |-> u, id |-> id, seen |-> seen]
    OBVIOUS
  <2>3. next \in Secrets!Call
    BY <2>2, VaultCalls
  <2>4. /\ next.op = op /\ next.by = u /\ next.id = id /\ next.seen = seen
        /\ op \notin {"snapshot", "store", "count"}
    BY <2>2 DEF Secrets!Scoped
  <2>5. \A s \in secrets : StillSo(next, s)
    BY <1>a, <2>1, <2>4 DEF StillSo, Secrets!GetSecretByID
  <2>6. Rightful(next)
    BY <2>4, <2>5 DEF Rightful
  <2> QED
    BY <1>1, <1>2, <2>1, <2>2, <2>3, <2>6 DEF Secrets!IsolateTenant
<1>3. ASSUME NEW k \in Calls, NEW u \in Secrets!Callers, NEW value \in Values,
             Secrets!CreateSecret(k, u, value)
      PROVE  VaultInv' /\ SecretsStay
  <2>1. PICK id \in SecretIds \ Secrets!Named :
          Secrets!InsertSecret([id |-> id, user |-> u, value |-> value, deleted |-> FALSE])
    BY <1>3 DEF Secrets!CreateSecret
  <2>2. PICK row : row = [id |-> id, user |-> u, value |-> value, deleted |-> FALSE]
    OBVIOUS
  <2>3. row \in Secrets!Secret /\ row.id = id /\ row.value = value
    BY <2>2 DEF Secrets!Secret
  <2>4. /\ secrets' = secrets \cup {row} /\ had' = [had EXCEPT ![id] = {value}]
        /\ UNCHANGED <<versions, vaultCall>>
    BY <1>3, <2>1, <2>2, <2>3 DEF Secrets!InsertSecret, Secrets!CreateSecret
  <2>5. /\ \A s \in secrets : s.id # id
        /\ \A j \in Calls : vaultCall[j].op \in Secrets!Scoped => vaultCall[j].id # id
    BY <2>1 DEF Secrets!Named
  <2>6. \A i, v : HasHad(i, v) => HasHad(i, v)'
    BY <1>a, <2>4, <2>5 DEF HasHad
  <2>7. Secrets!TypeOK'
    BY <1>a, <2>3, <2>4 DEF Secrets!TypeOK
  <2>8. \A s \in secrets' : HasHad(s.id, s.value)'
    <3> SUFFICES ASSUME NEW s \in secrets' PROVE HasHad(s.id, s.value)'
      OBVIOUS
    <3>1. CASE s = row
      BY <1>a, <2>1, <2>3, <2>4, <3>1 DEF HasHad
    <3>2. CASE s \in secrets
      BY <2>6, <3>2 DEF VaultInv
    <3> QED
      BY <2>4, <3>1, <3>2
  <2>9. ASSUME NEW j \in Calls PROVE Rightful(vaultCall[j])'
    <3>1. PICK c : c = vaultCall[j]
      OBVIOUS
    <3>2. c = vaultCall'[j] /\ Rightful(c) /\ (c.op \in Secrets!Scoped => c.id # id)
      BY <1>a, <2>4, <2>5, <3>1
    <3>3. c.op \in Secrets!Scoped => \A s \in secrets' : StillSo(c, s)
      BY <2>3, <2>4, <3>2 DEF Rightful, StillSo
    <3>4. c.op \in {"snapshot", "store"} => Checked(c) /\ HasHad(c.row.id, c.row.value)'
      BY <2>6, <3>2 DEF Rightful
    <3>5. c.op = "count" => Listed(c)
      BY <3>2 DEF Rightful
    <3> QED
      BY <3>2, <3>3, <3>4, <3>5 DEF Rightful, HasHad, StillSo, Checked, Listed
  <2>10. \A v \in versions' : HasHad(v.secret, v.value)'
    BY <2>4, <2>6 DEF VaultInv
  <2>11. \A s, t \in secrets' : s.id = t.id => s = t
    BY <2>3, <2>4, <2>5 DEF VaultInv
  <2> QED
    BY <2>4, <2>7, <2>8, <2>9, <2>10, <2>11 DEF VaultInv, SecretsStay
<1>4. ASSUME NEW k \in Calls, NEW u \in Secrets!Callers, Secrets!ListSecrets(k, u)
      PROVE  VaultInv' /\ SecretsStay
  <2>1. PICK next : next = [op |-> "count", by |-> u, rows |-> Secrets!SecretsOf(u)]
    OBVIOUS
  <2>2. Secrets!SecretsOf(u) \in SUBSET Secrets!Secret
    BY <1>a DEF Secrets!SecretsOf
  <2>3. next \in Secrets!Call
    BY <2>1, <2>2, VaultCalls
  <2>4. Rightful(next)
    BY <2>1 DEF Rightful, Listed, Secrets!SecretsOf, Secrets!Scoped
  <2> QED
    BY <1>1, <1>4, <2>1, <2>3, <2>4 DEF Secrets!ListSecrets
<1>5. ASSUME NEW k \in Calls, Secrets!CountSecrets(k) \/ Secrets!ReadSecret(k)
      PROVE  VaultInv' /\ SecretsStay
  BY <1>1, <1>5, <1>c DEF Secrets!CountSecrets, Secrets!ReadSecret, Secrets!Answer
<1>6. ASSUME NEW k \in Calls, NEW value \in Values,
             Secrets!UpdateSecret(k, value) \/ Secrets!RotateSecret(k, value)
      PROVE  VaultInv' /\ SecretsStay
  <2>1. UNCHANGED <<secrets, versions, had>> /\ vaultCall[k].op \in {"update", "rotate"}
    BY <1>6 DEF Secrets!UpdateSecret, Secrets!RotateSecret
  <2>2. PICK c \in Secrets!Call : c = vaultCall[k] /\ c.op \in Secrets!Scoped /\ Rightful(c)
    BY <1>a, <2>1 DEF Secrets!Scoped
  <2>3. CASE Secrets!Become(k, Secrets!Idle)
    BY <1>1, <1>c, <2>1, <2>3
  <2>4. ASSUME NEW s \in Secrets!GetSecretByID(c.id), NEW op \in {"snapshot", "store"},
               Secrets!Become(k, [op |-> op, by |-> c.by, row |-> s, value |-> value,
                                  seen |-> c.seen])
        PROVE  VaultInv' /\ SecretsStay
    <3>1. PICK next : next = [op |-> op, by |-> c.by, row |-> s, value |-> value, seen |-> c.seen]
      OBVIOUS
    <3>2. /\ next.op = op /\ next.by = c.by /\ next.row = s /\ next.seen = c.seen
          /\ op \notin Secrets!Scoped /\ op # "count"
      BY <3>1 DEF Secrets!Scoped
    <3>3. s \in secrets /\ s.id = c.id /\ ~s.deleted
      BY DEF Secrets!GetSecretByID
    <3>4. c.by \in Secrets!Callers /\ c.seen \in Secrets!Seen
      BY <2>2, VaultCalls
    <3>5. StillSo(c, s) /\ HasHad(s.id, s.value)
      BY <2>2, <3>3 DEF Rightful, VaultInv
    <3>6. s.user = c.by \/ c.seen = "failed"
      BY <3>3, <3>4, <3>5 DEF StillSo, Secrets!Seen
    <3>7. Rightful(next)
      BY <3>2, <3>5, <3>6 DEF Rightful, Checked
    <3>8. next \in Secrets!Call
      <4>1. next \in RowCall
        BY <1>a, <3>1, <3>3, <3>4 DEF RowCall
      <4> QED
        BY <4>1, VaultCalls
    <3> QED
      BY <1>1, <2>1, <2>4, <3>1, <3>7, <3>8
  <2> QED
    BY <1>6, <2>2, <2>3, <2>4 DEF Secrets!UpdateSecret, Secrets!RotateSecret, Secrets!Answer
<1>7. ASSUME NEW k \in Calls, Secrets!Snapshot(k)
      PROVE  VaultInv' /\ SecretsStay
  <2>1. UNCHANGED <<secrets, had>> /\ vaultCall[k].op = "snapshot"
    BY <1>7 DEF Secrets!Snapshot
  <2>2. PICK c \in Secrets!Call : c = vaultCall[k] /\ c.op = "snapshot" /\ Rightful(c)
    BY <1>a, <2>1
  <2>3. CASE Secrets!Answer(k) /\ UNCHANGED versions
    BY <1>1, <1>c, <2>1, <2>3 DEF Secrets!Answer
  <2>4. CASE /\ Secrets!CreateSecretVersion([secret |-> c.row.id, value |-> c.row.value])
             /\ Secrets!Become(k, [c EXCEPT !.op = "store"])
    <3>1. PICK next, v : /\ next = [c EXCEPT !.op = "store"]
                         /\ v = [secret |-> c.row.id, value |-> c.row.value]
      OBVIOUS
    <3>2. c \in RowCall /\ c.row.id \in SecretIds /\ c.row.value \in Values
      BY <2>2, VaultCalls
    <3>3. /\ next \in RowCall
          /\ next.op = "store" /\ next.by = c.by /\ next.row = c.row /\ next.seen = c.seen
      BY <3>1, <3>2 DEF RowCall
    <3>4. next \in Secrets!Call
      BY <3>3, VaultCalls
    <3>5. Rightful(next)
      BY <2>2, <3>3 DEF Rightful, Checked, Secrets!Scoped
    <3>6. v \in Secrets!Version /\ HasHad(v.secret, v.value)
      BY <2>2, <3>1, <3>2 DEF Rightful, Secrets!Version
    <3>7. versions' = versions \cup {v} /\ Secrets!Become(k, next)
      BY <2>4, <3>1 DEF Secrets!CreateSecretVersion
    <3>8. versions' \subseteq Secrets!Version /\ \A w \in versions' : HasHad(w.secret, w.value)
      BY <1>a, <1>b, <3>6, <3>7
    <3> QED
      BY <2>1, <3>4, <3>5, <3>7, <3>8, VaultReads
  <2> QED
    BY <1>7, <2>2, <2>3, <2>4 DEF Secrets!Snapshot
<1>8. ASSUME NEW k \in Calls, Secrets!StoreSecret(k)
      PROVE  VaultInv' /\ SecretsStay
  <2>1. /\ vaultCall[k].op = "store" /\ Secrets!Become(k, Secrets!Idle) /\ UNCHANGED versions
    BY <1>8 DEF Secrets!StoreSecret, Secrets!Answer
  <2>2. PICK c \in Secrets!Call : c = vaultCall[k] /\ c.op = "store"
    BY <1>a, <2>1
  <2>3. c.row.id \in SecretIds /\ c.value \in Values
    BY <2>2, VaultCalls DEF RowCall
  <2>4. CASE UNCHANGED <<secrets, had>>
    BY <1>1, <1>c, <2>1, <2>4
  <2>5. CASE Secrets!UpdateRow(c.row, c.value)
    <3> DEFINE live == Secrets!GetSecretByID(c.row.id)
    <3>1. \A s : s \in live <=> s \in secrets /\ s.id = c.row.id /\ ~s.deleted
      BY DEF Secrets!GetSecretByID
    <3>2. /\ secrets' = (secrets \ live) \cup {[s EXCEPT !.value = c.value] : s \in live}
          /\ had' = IF live = {} THEN had ELSE [had EXCEPT ![c.row.id] = @ \cup {c.value}]
      BY <2>5 DEF Secrets!UpdateRow
    <3> HIDE DEF live
    <3>3. PICK g : g = [s \in secrets |-> IF s \in live THEN [s EXCEPT !.value = c.value] ELSE s]
      OBVIOUS
    <3>4. \A t : t \in secrets' <=> \E s \in secrets : t = g[s]
      BY <3>1, <3>2, <3>3
    <3>5. /\ had' \in [SecretIds -> SUBSET Values]
          /\ \A id \in SecretIds : had[id] \subseteq had'[id]
          /\ \A s \in live : c.value \in had'[s.id]
      BY <1>a, <2>3, <3>1, <3>2
    <3>6. \A s \in secrets : /\ g[s] \in Secrets!Secret
                             /\ g[s].id = s.id /\ g[s].user = s.user
                             /\ g[s].value = IF s \in live THEN c.value ELSE s.value
      BY <1>a, <2>3, <3>3 DEF Secrets!Secret
    <3>7. \A s \in secrets : /\ s.deleted => g[s] = s
                             /\ g[s].value \in had'[s.id]
      BY <1>a, <3>1, <3>3, <3>5, <3>6
    <3> QED
      BY <2>1, <3>4, <3>5, <3>6, <3>7, VaultRewrite
  <2> QED
    BY <1>8, <2>2, <2>4, <2>5 DEF Secrets!StoreSecret
<1>9. ASSUME NEW k \in Calls, Secrets!DeleteSecret(k)
      PROVE  VaultInv' /\ SecretsStay
  <2>a. CASE UNCHANGED secrets
    BY <1>1, <1>9, <1>c, <2>a DEF Secrets!DeleteSecret, Secrets!Answer
  <2> SUFFICES ASSUME Secrets!StoreDeletion(vaultCall[k].id) PROVE VaultInv' /\ SecretsStay
    BY <1>9, <2>a DEF Secrets!DeleteSecret
  <2>1. PICK id : id = vaultCall[k].id
    OBVIOUS
  <2>2. PICK g : g = [s \in secrets |-> IF s.id = id /\ ~s.deleted
                                          THEN [s EXCEPT !.deleted = TRUE] ELSE s]
    OBVIOUS
  <2>3. \A t : t \in secrets' <=> \E s \in secrets : t = g[s]
    BY <2>1, <2>2 DEF Secrets!StoreDeletion, Secrets!GetSecretByID
  <2>4. /\ had' \in [SecretIds -> SUBSET Values]
        /\ \A i \in SecretIds : had[i] \subseteq had'[i]
        /\ Secrets!Become(k, Secrets!Idle) /\ UNCHANGED <<versions, had>>
    BY <1>9, <1>a DEF Secrets!DeleteSecret, Secrets!Answer
  <2>5. \A s \in secrets : /\ g[s] \in Secrets!Secret
                           /\ g[s].id = s.id /\ g[s].user = s.user /\ g[s].value = s.value
                           /\ s.deleted => g[s] = s
    BY <1>a, <2>2 DEF Secrets!Secret
  <2>6. \A s \in secrets : g[s].value \in had'[s.id]
    BY <1>a, <2>4, <2>5
  <2> QED
    BY <2>3, <2>4, <2>5, <2>6, VaultRewrite
<1>10. ASSUME UNCHANGED <<secrets, versions, had>>,
              vaultCall' \in [Calls -> Secrets!Call],
              \A k \in Calls : vaultCall'[k] \in {vaultCall[k], Secrets!Idle}
       PROVE  VaultInv' /\ SecretsStay
  <2>1. \A k \in Calls : Rightful(vaultCall'[k])
    BY <1>10, <1>a, <1>c
  <2>2. (\A k \in Calls : Rightful(vaultCall[k]))'
    BY <1>10, <2>1 DEF Rightful, HasHad, StillSo, Checked, Listed
  <2>3. Secrets!TypeOK'
    BY <1>10, <1>a DEF Secrets!TypeOK
  <2> QED
    BY <1>10, <2>2, <2>3 DEF VaultInv, HasHad, SecretsStay
<1>11. CASE Secrets!Restart
  BY <1>10, <1>11, <1>c DEF Secrets!Restart
<1>12. CASE UNCHANGED vaultVars
  BY <1>10, <1>12, <1>a DEF vaultVars
<1> QED
  BY <1>2, <1>3, <1>4, <1>5, <1>6, <1>7, <1>8, <1>9, <1>11, <1>12 DEF Secrets!Next

-----------------------------------------------------------------------------
(* keychain-service *)

\* The item a call with an id is about to change, or answer, is there, and is
\* its sender's.
Mine(c) ==
  c.op \in {"update", "delete", "fetch"} /\ c.by # Nobody =>
    \E i \in items : i.id = c.id /\ i.user = c.by

\* The inductive invariant.
ChainInv ==
  /\ Chain!TypeOK
  /\ \A i \in items : i.private.text = kept[i.id]
  /\ \A k \in Calls : Mine(chainCall[k])

\* Deleted rows are as they were.
ItemsStay == \A i \in items : i.deleted => i \in items'

\* What the op of a call says of its fields.
LEMMA ChainCalls ==
  /\ Chain!Idle \in Chain!Call /\ Mine(Chain!Idle)
  /\ \A u \in Chain!Callers, id \in ItemIds, name \in Texts :
       [op |-> "update", by |-> u, id |-> id, name |-> name] \in Chain!Call
  /\ \A op \in {"delete", "fetch"}, u \in Chain!Callers, id \in ItemIds :
       [op |-> op, by |-> u, id |-> id] \in Chain!Call
  /\ \A u \in Users : [op |-> "page", by |-> u] \in Chain!Call
  /\ \A c \in Chain!Call :
       c.op = "update" => c.by \in Chain!Callers /\ c.id \in ItemIds /\ c.name \in Texts
  BY DEF Chain!Call, Chain!Idle, Mine

\* The strengthening implies what it is for.
LEMMA ChainImplies == ChainInv => Chain!OwnersStayApart /\ Chain!PrivateKeysAreKept
<1> SUFFICES ASSUME ChainInv PROVE Chain!OwnersStayApart /\ Chain!PrivateKeysAreKept
  OBVIOUS
<1>1. Chain!OwnersStayApart
  BY DEF ChainInv, Mine, Chain!TypeOK, Chain!OwnersStayApart
<1>2. ASSUME NEW i \in items PROVE Chain!Decrypt(i.private) \subseteq {kept[i.id]}
  <2>1. \A t \in Chain!Decrypt(i.private) : i.private.text = t
    BY DEF Chain!Decrypt
  <2> QED
    BY <2>1 DEF ChainInv
<1> QED
  BY <1>1, <1>2 DEF Chain!PrivateKeysAreKept

\* The invariant holds of an empty table.
LEMMA ChainStart == Chain!Init => ChainInv
<1> SUFFICES ASSUME Chain!Init PROVE ChainInv
  OBVIOUS
<1>1. Chain!TypeOK
  BY ChainCalls DEF Chain!Init, Chain!TypeOK
<1>2. \A k \in Calls : Mine(chainCall[k])
  BY ChainCalls DEF Chain!Init
<1> QED
  BY <1>1, <1>2 DEF ChainInv, Chain!Init

\* A statement that changes rows, no id, no owner and no private key.
LEMMA ChainRewrite ==
  ASSUME ChainInv, NEW g,
         \A j : j \in items' <=> \E i \in items : j = g[i],
         \A i \in items : /\ g[i] \in Chain!Row
                          /\ g[i].id = i.id /\ g[i].user = i.user /\ g[i].private = i.private
                          /\ i.deleted => g[i] = i,
         NEW k \in Calls, NEW next \in Chain!Call, Chain!Become(k, next), Mine(next),
         UNCHANGED <<encKey, kept>>
  PROVE  ChainInv' /\ ItemsStay
<1>1. Chain!TypeOK'
  BY DEF ChainInv, Chain!TypeOK, Chain!Become
<1>2. \A c : Mine(c) => Mine(c)'
  <2> SUFFICES ASSUME NEW c, Mine(c), c.op \in {"update", "delete", "fetch"}, c.by # Nobody
               PROVE  \E i \in items' : i.id = c.id /\ i.user = c.by
    BY DEF Mine
  <2>1. PICK i \in items : i.id = c.id /\ i.user = c.by
    BY DEF Mine
  <2>2. g[i] \in items' /\ g[i].id = c.id /\ g[i].user = c.by
    BY <2>1
  <2> QED
    BY <2>2
<1>3. \A j \in Calls : chainCall'[j] = IF j = k THEN next ELSE chainCall[j]
  BY DEF ChainInv, Chain!TypeOK, Chain!Become
<1>4. (\A j \in Calls : Mine(chainCall[j]))'
  <2> SUFFICES ASSUME NEW j \in Calls PROVE Mine(chainCall[j])'
    OBVIOUS
  <2>1. CASE j = k
    <3>1. Mine(next)' /\ next = chainCall'[j]
      BY <1>2, <1>3, <2>1
    <3> QED
      BY <3>1 DEF Mine
  <2>2. CASE j # k
    <3>1. PICK c : c = chainCall[j]
      OBVIOUS
    <3>2. c = chainCall'[j] /\ Mine(c)'
      BY <1>2, <1>3, <2>2, <3>1 DEF ChainInv
    <3> QED
      BY <3>2 DEF Mine
  <2> QED
    BY <2>1, <2>2
<1>5. \A i \in items' : i.private.text = kept'[i.id]
  BY DEF ChainInv
<1> QED
  BY <1>1, <1>4, <1>5 DEF ChainInv, ItemsStay

\* Every step of the service keeps it.
LEMMA ChainStep ==
  ASSUME ChainInv, [Chain!Next]_keychainVars
  PROVE  ChainInv' /\ ItemsStay
<1>a. /\ items \subseteq Chain!Row /\ chainCall \in [Calls -> Chain!Call]
      /\ \A i, j \in items : i.id = j.id => i = j
      /\ encKey \in EncKeys /\ kept \in [ItemIds -> Texts \cup {"none"}]
      /\ \A k \in Calls : chainCall[k] \in Chain!Call /\ Mine(chainCall[k])
  BY DEF ChainInv, Chain!TypeOK
<1>1. ASSUME UNCHANGED <<items, kept>>, encKey' \in EncKeys,
             chainCall' \in [Calls -> Chain!Call],
             \A k \in Calls : Mine(chainCall'[k])
      PROVE  ChainInv' /\ ItemsStay
  <2>1. Chain!TypeOK'
    BY <1>1, <1>a DEF Chain!TypeOK
  <2>2. (\A k \in Calls : Mine(chainCall[k]))'
    BY <1>1 DEF Mine
  <2> QED
    BY <1>1, <2>1, <2>2 DEF ChainInv, ItemsStay
<1>2. ASSUME NEW k \in Calls, NEW next \in Chain!Call, Mine(next), Chain!Become(k, next),
             UNCHANGED <<items, encKey, kept>>
      PROVE  ChainInv' /\ ItemsStay
  <2>1. chainCall' \in [Calls -> Chain!Call] /\ \A j \in Calls : Mine(chainCall'[j])
    BY <1>2, <1>a DEF Chain!Become
  <2> QED
    BY <1>1, <1>2, <1>a, <2>1
<1>3. ASSUME NEW k \in Calls, NEW u \in Users, NEW name \in Texts, NEW text \in Texts,
             Chain!CreateItem(k, u, name, text)
      PROVE  ChainInv' /\ ItemsStay
  <2>1. PICK id \in ItemIds :
          /\ \A i \in items : i.id # id
          /\ items' = items \cup {[id |-> id, user |-> u, name |-> name,
                                   private |-> Chain!Encrypt(text), deleted |-> FALSE]}
          /\ kept' = [kept EXCEPT ![id] = text]
    BY <1>3 DEF Chain!CreateItem, Chain!InsertItem, Chain!FreshIds, Chain!Named
  <2>2. PICK row : row = [id |-> id, user |-> u, name |-> name,
                          private |-> Chain!Encrypt(text), deleted |-> FALSE]
    OBVIOUS
  <2>3. Chain!Encrypt(text) \in Chain!Sealed /\ Chain!Encrypt(text).text = text
    BY <1>a DEF Chain!Encrypt, Chain!Sealed
  <2>4. row \in Chain!Row /\ row.id = id /\ row.private.text = text
    BY <2>2, <2>3 DEF Chain!Row
  <2>5. items' = items \cup {row} /\ UNCHANGED <<encKey, chainCall>>
    BY <1>3, <2>1, <2>2 DEF Chain!CreateItem
  <2>6. Chain!TypeOK'
    BY <1>a, <2>1, <2>4, <2>5 DEF Chain!TypeOK
  <2>7. \A i \in items' : i.private.text = kept'[i.id]
    <3> SUFFICES ASSUME NEW i \in items' PROVE i.private.text = kept'[i.id]
      OBVIOUS
    <3>1. CASE i = row
      BY <1>a, <2>1, <2>4, <3>1
    <3>2. CASE i \in items
      BY <1>a, <2>1, <3>2 DEF ChainInv, Chain!Row
    <3> QED
      BY <2>5, <3>1, <3>2
  <2>8. (\A j \in Calls : Mine(chainCall[j]))'
    BY <1>a, <2>5 DEF Mine
  <2> QED
    BY <2>5, <2>6, <2>7, <2>8 DEF ChainInv, ItemsStay
<1>4. ASSUME NEW k \in Calls,
             Chain!AnswerRead(k) \/ \E u \in Users : Chain!CountItems(k, u)
      PROVE  ChainInv' /\ ItemsStay
  <2>1. \A u \in Users : Mine([op |-> "page", by |-> u])
    BY DEF Mine
  <2> QED
    BY <1>2, <1>4, <2>1, ChainCalls DEF Chain!AnswerRead, Chain!CountItems, Chain!Answer
<1>5. ASSUME NEW k \in Calls, NEW u \in Chain!Callers, NEW id \in ItemIds,
             \/ Chain!GetItem(k, u, id) \/ Chain!DeleteItem(k, u, id)
             \/ \E name \in Texts : Chain!UpdateItem(k, u, id, name)
      PROVE  ChainInv' /\ ItemsStay
  <2>1. /\ UNCHANGED <<items, encKey, kept>>
        /\ u # Nobody => \E i \in items : i.id = id /\ i.user = u
    BY <1>5 DEF Chain!GetItem, Chain!DeleteItem, Chain!UpdateItem, Chain!Owns, Chain!GetItemByID
  <2>2. CASE \E op \in {"fetch", "delete"} : Chain!Become(k, [op |-> op, by |-> u, id |-> id])
    <3>1. PICK op \in {"fetch", "delete"} : Chain!Become(k, [op |-> op, by |-> u, id |-> id])
      BY <2>2
    <3>2. PICK next : next = [op |-> op, by |-> u, id |-> id]
      OBVIOUS
    <3>3. next \in Chain!Call /\ Mine(next)
      BY <2>1, <3>2, ChainCalls DEF Mine
    <3> QED
      BY <1>2, <2>1, <3>1, <3>2, <3>3
  <2>3. CASE \E name \in Texts :
               Chain!Become(k, [op |-> "update", by |-> u, id |-> id, name |-> name])
    <3>1. PICK name \in Texts :
            Chain!Become(k, [op |-> "update", by |-> u, id |-> id, name |-> name])
      BY <2>3
    <3>2. PICK next : next = [op |-> "update", by |-> u, id |-> id, name |-> name]
      OBVIOUS
    <3>3. next \in Chain!Call /\ Mine(next)
      BY <2>1, <3>2, ChainCalls DEF Mine
    <3> QED
      BY <1>2, <2>1, <3>1, <3>2, <3>3
  <2> QED
    BY <1>5, <2>2, <2>3 DEF Chain!GetItem, Chain!DeleteItem, Chain!UpdateItem
<1>6. ASSUME NEW k \in Calls, Chain!StoreItem(k) \/ Chain!StoreNothing(k)
      PROVE  ChainInv' /\ ItemsStay
  <2>1. PICK c \in Chain!Call : c = chainCall[k] /\ c.op = "update" /\ Mine(c)
    BY <1>6, <1>a DEF Chain!StoreItem, Chain!StoreNothing
  <2>2. c.by \in Chain!Callers /\ c.id \in ItemIds /\ c.name \in Texts
    BY <2>1, ChainCalls
  <2>3. PICK g, next : /\ g = [i \in items |-> IF i.id = c.id /\ ~i.deleted
                                                 THEN Chain!buildUpdateQuery(i, c.name) ELSE i]
                       /\ next = [op |-> "fetch", by |-> c.by, id |-> c.id]
    OBVIOUS
  <2>4. /\ next \in Chain!Call /\ Mine(next)
        /\ UNCHANGED <<encKey, kept>>
    BY <1>6, <2>1, <2>2, <2>3, ChainCalls DEF Mine, Chain!StoreItem, Chain!StoreNothing
  <2>5. CASE UNCHANGED items /\ Chain!Become(k, next)
    BY <1>2, <2>4, <2>5
  <2>6. CASE UNCHANGED items /\ Chain!Answer(k)
    BY <1>2, <2>4, <2>6, ChainCalls DEF Chain!Answer
  <2>7. CASE /\ items' = (items \ {i \in items : i.id = c.id /\ ~i.deleted})
                           \cup {Chain!buildUpdateQuery(i, c.name) :
                                   i \in {i \in items : i.id = c.id /\ ~i.deleted}}
             /\ Chain!Become(k, next)
    <3>1. \A j : j \in items' <=> \E i \in items : j = g[i]
      BY <2>3, <2>7
    <3>2. \A i \in items : /\ g[i] \in Chain!Row
                           /\ g[i].id = i.id /\ g[i].user = i.user /\ g[i].private = i.private
                           /\ i.deleted => g[i] = i
      BY <1>a, <2>2, <2>3 DEF Chain!Row, Chain!buildUpdateQuery
    <3> QED
      BY <2>4, <2>7, <3>1, <3>2, ChainRewrite
  <2> QED
    BY <1>6, <2>1, <2>3, <2>5, <2>6, <2>7 DEF Chain!StoreItem, Chain!StoreNothing
<1>7. ASSUME NEW k \in Calls, Chain!RemoveItem(k)
      PROVE  ChainInv' /\ ItemsStay
  <2>a. CASE UNCHANGED items
    BY <1>2, <1>7, <2>a, ChainCalls DEF Chain!RemoveItem, Chain!Answer
  <2>b. ASSUME items # items'
        PROVE  items' = (items \ {i \in items : i.id = chainCall[k].id /\ ~i.deleted})
                          \cup {[i EXCEPT !.deleted = TRUE] :
                                  i \in {i \in items : i.id = chainCall[k].id /\ ~i.deleted}}
    BY <1>7, <2>b DEF Chain!RemoveItem
  <2> SUFFICES ASSUME items # items' PROVE ChainInv' /\ ItemsStay
    BY <2>a
  <2>1. PICK id : id = chainCall[k].id
    OBVIOUS
  <2>2. PICK g : g = [i \in items |-> IF i.id = id /\ ~i.deleted
                                        THEN [i EXCEPT !.deleted = TRUE] ELSE i]
    OBVIOUS
  <2>3. \A j : j \in items' <=> \E i \in items : j = g[i]
    BY <2>1, <2>2, <2>b
  <2>4. \A i \in items : /\ g[i] \in Chain!Row
                         /\ g[i].id = i.id /\ g[i].user = i.user /\ g[i].private = i.private
                         /\ i.deleted => g[i] = i
    <3>1. \A i \in Chain!Row : /\ [i EXCEPT !.deleted = TRUE] \in Chain!Row
                               /\ [i EXCEPT !.deleted = TRUE].id = i.id
                               /\ [i EXCEPT !.deleted = TRUE].user = i.user
                               /\ [i EXCEPT !.deleted = TRUE].private = i.private
      BY DEF Chain!Row
    <3>2. ASSUME NEW i \in items
          PROVE  g[i] = IF i.id = id /\ ~i.deleted THEN [i EXCEPT !.deleted = TRUE] ELSE i
      BY <2>2, <3>2
    <3> QED
      <4>1. ASSUME NEW i \in items
            PROVE  /\ g[i] \in Chain!Row
                   /\ g[i].id = i.id /\ g[i].user = i.user /\ g[i].private = i.private
                   /\ i.deleted => g[i] = i
        <5>1. i \in Chain!Row
          BY <1>a, <4>1
        <5>2. CASE i.id = id /\ ~i.deleted
          <6>1. g[i] = [i EXCEPT !.deleted = TRUE]
            BY <3>2, <4>1, <5>2
          <6> QED
            BY <3>1, <5>1, <5>2, <6>1
        <5>3. CASE ~(i.id = id /\ ~i.deleted)
          <6>1. g[i] = i
            BY <3>2, <4>1, <5>3
          <6> QED
            BY <5>1, <6>1
        <5> QED
          BY <5>2, <5>3
      <4> QED
        BY <4>1
  <2>5. Chain!Become(k, Chain!Idle) /\ UNCHANGED <<encKey, kept>>
    BY <1>7 DEF Chain!RemoveItem, Chain!Answer
  <2> QED
    BY <2>3, <2>4, <2>5, ChainRewrite, ChainCalls
<1>8. CASE Chain!Restart
  BY <1>1, <1>8, ChainCalls DEF Chain!Restart
<1>9. CASE UNCHANGED keychainVars
  BY <1>1, <1>9, <1>a DEF keychainVars
<1> QED
  BY <1>3, <1>4, <1>5, <1>6, <1>7, <1>8, <1>9 DEF Chain!Next

-----------------------------------------------------------------------------
(* config-service *)

\* The inductive invariant.
ConfInv == Conf!TypeOK /\ Conf!KeysHaveOneValue

\* Deleted rows are as they were.
ConfigsStay == \A c \in configs : c.deleted => c \in configs'

\* What a request may be.
LEMMA ConfCalls ==
  /\ Conf!Idle \in Conf!Call
  /\ \A id \in RowIds : [op |-> "fetch", id |-> id] \in Conf!Call
  /\ \A scope \in Conf!Scopes : [op |-> "page", scope |-> scope] \in Conf!Call
  BY DEF Conf!Call, Conf!Idle

\* A statement that changes rows and none of their keys.
LEMMA ConfRewrite ==
  ASSUME ConfInv, NEW g,
         \A d : d \in configs' <=> \E c \in configs : d = g[c],
         \A c \in configs : /\ g[c] \in Conf!Row
                            /\ g[c].id = c.id /\ g[c].scope = c.scope /\ g[c].key = c.key
                            /\ c.deleted => g[c] = c,
         configCall' \in [Calls -> Conf!Call]
  PROVE  ConfInv' /\ ConfigsStay
<1>a. /\ configs \subseteq Conf!Row
      /\ \A c, d \in configs : c.id = d.id => c = d
  BY DEF ConfInv, Conf!TypeOK
<1>1. Conf!TypeOK'
  BY <1>a DEF Conf!TypeOK
<1>2. Conf!KeysHaveOneValue'
  <2> SUFFICES ASSUME NEW owner \in Owners, NEW key \in Keys, NEW c \in configs', NEW d \in configs',
                      c.scope = owner, c.key = key, ~c.deleted,
                      d.scope = owner, d.key = key, ~d.deleted
               PROVE  c = d
    BY DEF Conf!KeysHaveOneValue, Conf!GetConfigByKey
  <2>1. PICK e \in configs, f \in configs : c = g[e] /\ d = g[f]
    OBVIOUS
  <2>2. ~e.deleted /\ ~f.deleted
    BY <2>1
  <2>3. e = f
    BY <2>1, <2>2 DEF ConfInv, Conf!KeysHaveOneValue, Conf!GetConfigByKey
  <2> QED
    BY <2>1, <2>3
<1>3. ConfigsStay
  BY DEF ConfigsStay
<1> QED
  BY <1>1, <1>2, <1>3 DEF ConfInv

\* INSERT of rows that the index lets in.
LEMMA ConfInsert ==
  ASSUME ConfInv, NEW rows \in SUBSET Conf!Row, Conf!Insert(rows),
         \A r \in rows : ~r.deleted /\ r.id \in Conf!FreshIds,
         \A r, q \in rows : r.id = q.id => r = q,
         UNCHANGED configCall
  PROVE  ConfInv' /\ ConfigsStay
<1>a. /\ configs \subseteq Conf!Row
      /\ \A c, d \in configs : c.id = d.id => c = d
  BY DEF ConfInv, Conf!TypeOK
<1>1. configs' = configs \cup rows /\ Conf!IndexAllows(rows)
  BY DEF Conf!Insert
<1>2. \A c \in configs, r \in rows : c.id # r.id
  BY DEF Conf!FreshIds
<1>3. Conf!TypeOK'
  BY <1>a, <1>1, <1>2 DEF Conf!TypeOK, ConfInv
<1>4. Conf!KeysHaveOneValue'
  <2> SUFFICES ASSUME NEW owner \in Owners, NEW key \in Keys, NEW c \in configs', NEW d \in configs',
                      c.scope = owner, c.key = key, ~c.deleted,
                      d.scope = owner, d.key = key, ~d.deleted
               PROVE  c = d
    BY DEF Conf!KeysHaveOneValue, Conf!GetConfigByKey
  <2>1. owner # Global
    BY InsideAssumption
  <2>2. CASE c \in rows
    BY <1>1, <2>1, <2>2 DEF Conf!IndexAllows, Conf!GetConfigByKey
  <2>3. CASE d \in rows
    BY <1>1, <2>1, <2>3 DEF Conf!IndexAllows, Conf!GetConfigByKey
  <2>4. CASE c \in configs /\ d \in configs
    BY <2>4 DEF ConfInv, Conf!KeysHaveOneValue, Conf!GetConfigByKey
  <2> QED
    BY <1>1, <2>2, <2>3, <2>4
<1> QED
  BY <1>1, <1>3, <1>4 DEF ConfInv, ConfigsStay

\* The invariant holds of an empty table.
LEMMA ConfStart == Conf!Init => ConfInv
  BY ConfCalls DEF Conf!Init, ConfInv, Conf!TypeOK, Conf!KeysHaveOneValue, Conf!GetConfigByKey

\* Every step of the service keeps it.
LEMMA ConfStep ==
  ASSUME ConfInv, [Conf!Next]_configVars
  PROVE  ConfInv' /\ ConfigsStay
<1>a. /\ configs \subseteq Conf!Row /\ configCall \in [Calls -> Conf!Call]
      /\ \A k \in Calls, call \in Conf!Call : Conf!Become(k, call) =>
           configCall' \in [Calls -> Conf!Call]
  BY DEF ConfInv, Conf!TypeOK, Conf!Become
<1>1. ASSUME UNCHANGED configs, configCall' \in [Calls -> Conf!Call]
      PROVE  ConfInv' /\ ConfigsStay
  BY <1>1 DEF ConfInv, ConfigsStay, Conf!TypeOK, Conf!KeysHaveOneValue, Conf!GetConfigByKey
<1>2. ASSUME NEW k \in Calls, NEW scope \in Conf!Scopes, NEW key \in Keys,
             Conf!CreateConfig(k, scope, key)
      PROVE  ConfInv' /\ ConfigsStay
  <2>1. PICK id \in Conf!FreshIds, secret \in BOOLEAN :
          Conf!Insert({Conf!New(id, scope, key, secret)}) /\ UNCHANGED configCall
    BY <1>2 DEF Conf!CreateConfig
  <2>2. PICK row : row = Conf!New(id, scope, key, secret)
    OBVIOUS
  <2>3. row \in Conf!Row /\ ~row.deleted /\ row.id = id
    BY <2>2 DEF Conf!New, Conf!Row, Conf!FreshIds
  <2> QED
    BY <2>1, <2>2, <2>3, ConfInsert
<1>3. ASSUME NEW k \in Calls, NEW scope \in Conf!Scopes, NEW first \in Keys, NEW second \in Keys,
             Conf!BulkCreateConfigs(k, scope, first, second)
      PROVE  ConfInv' /\ ConfigsStay
  <2>1. PICK i \in Conf!FreshIds, j \in Conf!FreshIds :
          /\ i # j
          /\ Conf!Insert({Conf!New(i, scope, first, FALSE), Conf!New(j, scope, second, FALSE)})
          /\ UNCHANGED configCall
    BY <1>3 DEF Conf!BulkCreateConfigs, Conf!InsertBatch
  <2>2. PICK r, q : r = Conf!New(i, scope, first, FALSE) /\ q = Conf!New(j, scope, second, FALSE)
    OBVIOUS
  <2>3. /\ r \in Conf!Row /\ ~r.deleted /\ r.id = i
        /\ q \in Conf!Row /\ ~q.deleted /\ q.id = j
    BY <2>2 DEF Conf!New, Conf!Row, Conf!FreshIds
  <2> QED
    BY <2>1, <2>2, <2>3, ConfInsert
<1>4. ASSUME NEW id \in RowIds, NEW n,
             \A c \in configs : /\ n[c] \in Conf!Row
                                /\ n[c].id = c.id /\ n[c].scope = c.scope /\ n[c].key = c.key,
             configs' = (configs \ Conf!GetConfigByID(id)) \cup {n[c] : c \in Conf!GetConfigByID(id)},
             configCall' \in [Calls -> Conf!Call]
      PROVE  ConfInv' /\ ConfigsStay
  <2>1. PICK g : g = [c \in configs |-> IF c.id = id /\ ~c.deleted THEN n[c] ELSE c]
    OBVIOUS
  <2>2. \A d : d \in configs' <=> \E c \in configs : d = g[c]
    BY <1>4, <2>1 DEF Conf!GetConfigByID
  <2>3. \A c \in configs : /\ g[c] \in Conf!Row
                           /\ g[c].id = c.id /\ g[c].scope = c.scope /\ g[c].key = c.key
                           /\ c.deleted => g[c] = c
    BY <1>a, <1>4, <2>1
  <2> QED
    BY <1>4, <2>2, <2>3, ConfRewrite
<1>5. ASSUME NEW k \in Calls, NEW id \in RowIds, Conf!UpdateConfig(k, id)
      PROVE  ConfInv' /\ ConfigsStay
  <2>1. configCall' \in [Calls -> Conf!Call]
    BY <1>5, <1>a, ConfCalls DEF Conf!UpdateConfig
  <2>2. CASE configs' = (configs \ Conf!GetConfigByID(id)) \cup
                          {[c EXCEPT !.edits = 1] : c \in Conf!GetConfigByID(id)}
    <3>1. PICK n : n = [c \in configs |-> [c EXCEPT !.edits = 1]]
      OBVIOUS
    <3>2. /\ \A c \in configs : /\ n[c] \in Conf!Row
                                /\ n[c].id = c.id /\ n[c].scope = c.scope /\ n[c].key = c.key
          /\ configs' = (configs \ Conf!GetConfigByID(id)) \cup {n[c] : c \in Conf!GetConfigByID(id)}
      BY <1>a, <2>2, <3>1 DEF Conf!Row, Conf!GetConfigByID
    <3> QED
      BY <1>4, <2>1, <3>2
  <2>3. ASSUME NEW secret \in BOOLEAN,
               configs' = (configs \ Conf!GetConfigByID(id)) \cup
                            {[c EXCEPT !.secret = secret] : c \in Conf!GetConfigByID(id)}
        PROVE  ConfInv' /\ ConfigsStay
    <3>1. PICK n : n = [c \in configs |-> [c EXCEPT !.secret = secret]]
      OBVIOUS
    <3>2. /\ \A c \in configs : /\ n[c] \in Conf!Row
                                /\ n[c].id = c.id /\ n[c].scope = c.scope /\ n[c].key = c.key
          /\ configs' = (configs \ Conf!GetConfigByID(id)) \cup {n[c] : c \in Conf!GetConfigByID(id)}
      BY <1>a, <2>3, <3>1 DEF Conf!Row, Conf!GetConfigByID
    <3> QED
      BY <1>4, <2>1, <3>2
  <2> QED
    BY <1>5, <2>2, <2>3 DEF Conf!UpdateConfig, Conf!StoreEdit
<1>6. ASSUME NEW k \in Calls, NEW id \in RowIds, Conf!DeleteConfig(k, id)
      PROVE  ConfInv' /\ ConfigsStay
  <2>1. /\ configCall' \in [Calls -> Conf!Call]
        /\ configs' = (configs \ Conf!GetConfigByID(id)) \cup
                        {[c EXCEPT !.deleted = TRUE] : c \in Conf!GetConfigByID(id)}
    BY <1>6, <1>a DEF Conf!DeleteConfig, Conf!StoreDeletion
  <2>2. PICK n : n = [c \in configs |-> [c EXCEPT !.deleted = TRUE]]
    OBVIOUS
  <2>3. /\ \A c \in configs : /\ n[c] \in Conf!Row
                              /\ n[c].id = c.id /\ n[c].scope = c.scope /\ n[c].key = c.key
        /\ configs' = (configs \ Conf!GetConfigByID(id)) \cup {n[c] : c \in Conf!GetConfigByID(id)}
    BY <1>a, <2>1, <2>2 DEF Conf!Row, Conf!GetConfigByID
  <2> QED
    BY <1>4, <2>1, <2>3
<1>7. ASSUME NEW k \in Calls,
             \/ \E scope \in Conf!Scopes : Conf!CountConfigs(k, scope)
             \/ Conf!ListPage(k) \/ Conf!FetchUpdated(k)
      PROVE  ConfInv' /\ ConfigsStay
  BY <1>1, <1>7, <1>a, ConfCalls
  DEF Conf!CountConfigs, Conf!ListPage, Conf!FetchUpdated, Conf!Answer
<1>8. CASE Conf!Restart
  BY <1>1, <1>8, ConfCalls DEF Conf!Restart
<1>9. CASE UNCHANGED configVars
  BY <1>1, <1>9, <1>a DEF configVars
<1> QED
  BY <1>2, <1>3, <1>5, <1>6, <1>7, <1>8, <1>9 DEF Conf!Next, Conf!configVars

-----------------------------------------------------------------------------
(* user-service *)

\* The inductive invariant.
UserInv == People!TypeOK /\ People!EmailsAreUnique

\* Deleted rows are as they were.
UsersStay == \A u \in users : u.deleted => u \in users'

\* What the op of a call says of its fields.
LEMMA UserCalls ==
  /\ People!Idle \in People!Call
  /\ \A email \in Emails, name \in Texts :
       [op |-> "create", email |-> email, name |-> name] \in People!Call
  /\ \A op \in {"fetch", "profile"}, id \in RowIds : [op |-> op, id |-> id] \in People!Call
  /\ \A id \in RowIds, name \in Texts, bios \in SUBSET Texts :
       [op |-> "user", id |-> id, name |-> name, bios |-> bios] \in People!Call
  /\ \A id \in RowIds, bios \in SUBSET Texts :
       [op |-> "bio", id |-> id, bios |-> bios] \in People!Call
  /\ [op |-> "page"] \in People!Call
  /\ \A c \in People!Call :
       /\ c.op = "create" => c.email \in Emails /\ c.name \in Texts
       /\ c.op = "user" => c.id \in RowIds /\ c.name \in Texts /\ c.bios \in SUBSET Texts
       /\ c.op = "bio" => c.id \in RowIds /\ c.bios \in SUBSET Texts
  BY DEF People!Call, People!Idle

\* The invariant holds of empty tables.
LEMMA UserStart == People!Init => UserInv
  BY UserCalls DEF People!Init, UserInv, People!TypeOK, People!EmailsAreUnique

\* Every step of the service keeps it.
LEMMA UserStep ==
  ASSUME UserInv, [People!Next]_userVars
  PROVE  UserInv' /\ UsersStay
<1>a. /\ users \subseteq People!Row /\ userCall \in [Calls -> People!Call]
      /\ \A u, v \in users : u.id = v.id => u = v
      /\ profiles \in [RowIds -> Texts \cup {"none"}]
      /\ \A u, v \in users : u.email = v.email => u = v
      /\ \A k \in Calls, call \in People!Call : People!Become(k, call) =>
           userCall' \in [Calls -> People!Call]
  BY DEF UserInv, People!TypeOK, People!Become, People!EmailsAreUnique
<1>1. ASSUME UNCHANGED users, profiles' \in [RowIds -> Texts \cup {"none"}],
             userCall' \in [Calls -> People!Call]
      PROVE  UserInv' /\ UsersStay
  BY <1>1, <1>a DEF UserInv, UsersStay, People!TypeOK, People!EmailsAreUnique
<1>2. ASSUME NEW id \in RowIds, NEW n,
             \A u \in users : n[u] \in People!Row /\ n[u].id = u.id /\ n[u].email = u.email,
             users' = (users \ People!GetUserByID(id)) \cup {n[u] : u \in People!GetUserByID(id)},
             UNCHANGED profiles, userCall' \in [Calls -> People!Call]
      PROVE  UserInv' /\ UsersStay
  <2>1. PICK g : g = [u \in users |-> IF u.id = id /\ ~u.deleted THEN n[u] ELSE u]
    OBVIOUS
  <2>2. \A v : v \in users' <=> \E u \in users : v = g[u]
    BY <1>2, <2>1 DEF People!GetUserByID
  <2>3. \A u \in users : /\ g[u] \in People!Row /\ g[u].id = u.id /\ g[u].email = u.email
                         /\ u.deleted => g[u] = u
    BY <1>a, <1>2, <2>1
  <2>4. People!TypeOK'
    BY <1>a, <1>2, <2>2, <2>3 DEF People!TypeOK
  <2>5. People!EmailsAreUnique' /\ UsersStay
    BY <1>a, <2>2, <2>3 DEF People!EmailsAreUnique, UsersStay
  <2> QED
    BY <2>4, <2>5 DEF UserInv
<1>3. ASSUME NEW id \in RowIds, NEW name \in Texts, People!UpdateName(id, name),
             UNCHANGED profiles, userCall' \in [Calls -> People!Call]
      PROVE  UserInv' /\ UsersStay
  <2>1. PICK n : n = [u \in users |-> [u EXCEPT !.name = name]]
    OBVIOUS
  <2>2. /\ \A u \in users : n[u] \in People!Row /\ n[u].id = u.id /\ n[u].email = u.email
        /\ users' = (users \ People!GetUserByID(id)) \cup {n[u] : u \in People!GetUserByID(id)}
    BY <1>a, <1>3, <2>1 DEF People!Row, People!GetUserByID, People!UpdateName
  <2> QED
    BY <1>2, <1>3, <2>2
<1>4. ASSUME NEW k \in Calls, NEW id \in RowIds, People!DeleteUser(k, id)
      PROVE  UserInv' /\ UsersStay
  <2>1. PICK n : n = [u \in users |-> [u EXCEPT !.deleted = TRUE]]
    OBVIOUS
  <2>2. /\ \A u \in users : n[u] \in People!Row /\ n[u].id = u.id /\ n[u].email = u.email
        /\ users' = (users \ People!GetUserByID(id)) \cup {n[u] : u \in People!GetUserByID(id)}
        /\ UNCHANGED profiles /\ userCall' \in [Calls -> People!Call]
    <3>1. \A u \in users : n[u] \in People!Row /\ n[u].id = u.id /\ n[u].email = u.email
      BY <1>a, <2>1 DEF People!Row
    <3>2. \A u \in People!GetUserByID(id) : n[u] = [u EXCEPT !.deleted = TRUE]
      BY <2>1 DEF People!GetUserByID
    <3>3. UNCHANGED profiles /\ userCall' \in [Calls -> People!Call]
      BY <1>a, <1>4 DEF People!DeleteUser
    <3>4. users' = (users \ People!GetUserByID(id)) \cup {n[u] : u \in People!GetUserByID(id)}
      BY <1>4, <3>2 DEF People!DeleteUser, People!StoreDeletion
    <3> QED
      BY <3>1, <3>3, <3>4
  <2> QED
    BY <1>2, <2>2
<1>5. ASSUME NEW k \in Calls, People!InsertUser(k)
      PROVE  UserInv' /\ UsersStay
  <2>1. userCall' \in [Calls -> People!Call] /\ UNCHANGED profiles
    BY <1>5, <1>a, UserCalls DEF People!InsertUser, People!Answer
  <2>2. PICK call \in People!Call : call = userCall[k] /\ call.op = "create"
    BY <1>5, <1>a DEF People!InsertUser
  <2>3. CASE UNCHANGED users
    BY <1>1, <1>a, <2>1, <2>3
  <2>4. CASE People!InsertRow(call.email, call.name)
    <3>1. PICK id \in RowIds : /\ \A u \in users : u.id # id
                               /\ users' = users \cup {[id |-> id, email |-> call.email,
                                                        name |-> call.name, deleted |-> FALSE]}
      BY <2>4 DEF People!InsertRow, People!FreshIds
    <3>2. PICK row : row = [id |-> id, email |-> call.email, name |-> call.name, deleted |-> FALSE]
      OBVIOUS
    <3>3. row \in People!Row /\ row.id = id /\ row.email = call.email
      BY <2>2, <3>2, UserCalls DEF People!Row
    <3>4. users' = users \cup {row} /\ \A u \in users : u.email # row.email
      BY <2>4, <3>1, <3>2, <3>3 DEF People!InsertRow
    <3>5. People!TypeOK'
      BY <1>a, <2>1, <3>1, <3>3, <3>4 DEF People!TypeOK
    <3>6. People!EmailsAreUnique' /\ UsersStay
      BY <1>a, <3>4 DEF People!EmailsAreUnique, UsersStay
    <3> QED
      BY <3>5, <3>6 DEF UserInv
  <2> QED
    BY <1>5, <2>2, <2>3, <2>4 DEF People!InsertUser
<1>6. ASSUME NEW k \in Calls, NEW id \in RowIds, NEW name \in Texts, NEW bios \in SUBSET Texts,
             People!UpdateUser(k, id, name, bios)
      PROVE  UserInv' /\ UsersStay
  <2>1. People!UpdateName(id, name) /\ UNCHANGED profiles /\ userCall' \in [Calls -> People!Call]
    BY <1>6, <1>a, UserCalls DEF People!UpdateUser
  <2> QED
    BY <1>3, <2>1
<1>7. ASSUME NEW k \in Calls, People!StoreUser(k)
      PROVE  UserInv' /\ UsersStay
  <2>1. PICK call \in People!Call : call = userCall[k] /\ call.op = "user"
    BY <1>7, <1>a DEF People!StoreUser
  <2>2. call.id \in RowIds /\ call.name \in Texts /\ call.bios \in SUBSET Texts
    BY <2>1, UserCalls
  <2>3. userCall' \in [Calls -> People!Call] /\ UNCHANGED profiles
    BY <1>7, <1>a, <2>1, <2>2, UserCalls DEF People!StoreUser, People!Answer
  <2>4. CASE UNCHANGED users
    BY <1>1, <1>a, <2>3, <2>4
  <2>5. CASE People!UpdateName(call.id, call.name)
    BY <1>3, <2>2, <2>3, <2>5
  <2> QED
    BY <1>7, <2>1, <2>4, <2>5 DEF People!StoreUser
<1>8. ASSUME NEW k \in Calls, People!CreateOrUpdateProfile(k)
      PROVE  UserInv' /\ UsersStay
  <2>1. PICK call \in People!Call : call = userCall[k] /\ call.op = "bio"
    BY <1>8, <1>a DEF People!CreateOrUpdateProfile
  <2>2. call.id \in RowIds /\ call.bios \in SUBSET Texts
    BY <2>1, UserCalls
  <2>3. userCall' \in [Calls -> People!Call]
    BY <1>8, <1>a, <2>1, <2>2, UserCalls DEF People!CreateOrUpdateProfile, People!Answer
  <2>4. profiles' \in [RowIds -> Texts \cup {"none"}] /\ UNCHANGED users
    BY <1>8, <1>a, <2>1, <2>2 DEF People!CreateOrUpdateProfile
  <2> QED
    BY <1>1, <2>3, <2>4
<1>9. ASSUME NEW k \in Calls,
             \/ \E email \in Emails, name \in Texts : People!CreateUser(k, email, name)
             \/ People!ListUsers(k) \/ People!AnswerRead(k)
             \/ \E id \in RowIds :
                  \/ People!ReadProfile(k, id)
                  \/ \E names, bios \in {{}} \cup {{t} : t \in Texts} :
                       People!UpdateProfile(k, id, names, bios)
      PROVE  UserInv' /\ UsersStay
  <2>1. UNCHANGED <<users, profiles>>
    BY <1>9
    DEF People!CreateUser, People!ListUsers, People!AnswerRead, People!ReadProfile,
        People!UpdateProfile
  <2>2. CASE \E id \in RowIds : \E names, bios \in {{}} \cup {{t} : t \in Texts} :
               People!UpdateProfile(k, id, names, bios)
    <3>1. PICK id \in RowIds, names \in SUBSET Texts, bios \in SUBSET Texts :
            People!UpdateProfile(k, id, names, bios)
      BY <2>2
    <3>2. userCall' \in [Calls -> People!Call]
      BY <1>a, <3>1, UserCalls DEF People!UpdateProfile
    <3> QED
      BY <1>1, <1>a, <2>1, <3>2
  <2>3. CASE \/ \E email \in Emails, name \in Texts : People!CreateUser(k, email, name)
             \/ People!ListUsers(k) \/ People!AnswerRead(k)
             \/ \E id \in RowIds : People!ReadProfile(k, id)
    <3>1. userCall' \in [Calls -> People!Call]
      BY <1>a, <2>3, UserCalls
      DEF People!CreateUser, People!ListUsers, People!AnswerRead, People!ReadProfile, People!Answer
    <3> QED
      BY <1>1, <1>a, <2>1, <3>1
  <2> QED
    BY <1>9, <2>2, <2>3
<1>10. CASE People!Restart
  BY <1>1, <1>10, <1>a, UserCalls DEF People!Restart
<1>11. CASE UNCHANGED userVars
  BY <1>1, <1>11, <1>a DEF userVars
<1> QED
  BY <1>4, <1>5, <1>6, <1>7, <1>8, <1>9, <1>10, <1>11 DEF People!Next

-----------------------------------------------------------------------------
(* host-service *)

\* Deleted rows are as they were.
HostsStay == \A h \in hosts : h.deleted => h \in hosts'

\* What the op of a call says of its fields.
LEMMA HostCalls ==
  /\ Catalog!Idle \in Catalog!Call
  /\ \A row \in Catalog!Row : [op |-> "store", row |-> row] \in Catalog!Call
  /\ \A u \in HostUsers, page \in SUBSET Catalog!Row :
       [op |-> "count", by |-> u, page |-> page] \in Catalog!Call
  /\ \A c \in Catalog!Call : c.op = "store" => c.row \in Catalog!Row
  BY DEF Catalog!Call, Catalog!Idle

\* The types hold of an empty table.
LEMMA HostStart == Catalog!Init => Catalog!TypeOK
  BY HostCalls DEF Catalog!Init, Catalog!TypeOK

\* Every step of the service keeps them; they are inductive.
LEMMA HostStep ==
  ASSUME Catalog!TypeOK, [Catalog!Next]_hostVars
  PROVE  Catalog!TypeOK' /\ HostsStay
<1>a. /\ hosts \subseteq Catalog!Row /\ hostCall \in [Calls -> Catalog!Call]
      /\ \A h, i \in hosts : h.id = i.id => h = i
      /\ \A k \in Calls, call \in Catalog!Call : Catalog!Become(k, call) =>
           hostCall' \in [Calls -> Catalog!Call]
  BY DEF Catalog!TypeOK, Catalog!Become
<1>1. ASSUME UNCHANGED hosts, hostCall' \in [Calls -> Catalog!Call]
      PROVE  Catalog!TypeOK' /\ HostsStay
  BY <1>1, <1>a DEF Catalog!TypeOK, HostsStay
<1>2. ASSUME NEW id \in HostIds, NEW n,
             \A h \in hosts : n[h] \in Catalog!Row /\ n[h].id = h.id,
             hosts' = (hosts \ Catalog!GetHostByID(id)) \cup {n[h] : h \in Catalog!GetHostByID(id)},
             hostCall' \in [Calls -> Catalog!Call]
      PROVE  Catalog!TypeOK' /\ HostsStay
  <2>1. PICK g : g = [h \in hosts |-> IF h.id = id /\ ~h.deleted THEN n[h] ELSE h]
    OBVIOUS
  <2>2. \A i : i \in hosts' <=> \E h \in hosts : i = g[h]
    BY <1>2, <2>1 DEF Catalog!GetHostByID
  <2>3. \A h \in hosts : g[h] \in Catalog!Row /\ g[h].id = h.id /\ (h.deleted => g[h] = h)
    BY <1>a, <1>2, <2>1
  <2> QED
    BY <1>a, <1>2, <2>2, <2>3 DEF Catalog!TypeOK, HostsStay
<1>3. ASSUME NEW k \in Calls, NEW u \in HostUsers, NEW name \in Texts, NEW vault \in Texts,
             Catalog!CreateHost(k, u, name, vault)
      PROVE  Catalog!TypeOK' /\ HostsStay
  <2>1. PICK id \in HostIds :
          /\ Catalog!InsertHost([id |-> id, user |-> u, name |-> name, vault |-> vault,
                                 deleted |-> FALSE])
          /\ UNCHANGED hostCall
    BY <1>3 DEF Catalog!CreateHost
  <2>2. PICK row : row = [id |-> id, user |-> u, name |-> name, vault |-> vault, deleted |-> FALSE]
    OBVIOUS
  <2>3. row \in Catalog!Row
    BY <2>2 DEF Catalog!Row
  <2> QED
    BY <1>a, <2>1, <2>2, <2>3 DEF Catalog!InsertHost, Catalog!TypeOK, HostsStay
<1>4. ASSUME NEW k \in Calls, NEW id \in HostIds, Catalog!DeleteHost(k, id)
      PROVE  Catalog!TypeOK' /\ HostsStay
  <2>1. PICK n : n = [h \in hosts |-> [h EXCEPT !.deleted = TRUE]]
    OBVIOUS
  <2>2. /\ \A h \in hosts : n[h] \in Catalog!Row /\ n[h].id = h.id
        /\ hosts' = (hosts \ Catalog!GetHostByID(id)) \cup {n[h] : h \in Catalog!GetHostByID(id)}
        /\ hostCall' \in [Calls -> Catalog!Call]
    BY <1>a, <1>4, <2>1
    DEF Catalog!Row, Catalog!GetHostByID, Catalog!DeleteHost, Catalog!StoreDeletion
  <2> QED
    BY <1>2, <2>2
<1>5. ASSUME NEW k \in Calls, Catalog!StoreHost(k)
      PROVE  Catalog!TypeOK' /\ HostsStay
  <2>1. PICK call \in Catalog!Call : call = hostCall[k] /\ call.op = "store"
    BY <1>5, <1>a DEF Catalog!StoreHost
  <2>2. call.row \in Catalog!Row
    BY <2>1, HostCalls
  <2>3. hostCall' \in [Calls -> Catalog!Call]
    BY <1>5, <1>a, HostCalls DEF Catalog!StoreHost, Catalog!Answer
  <2>4. CASE UNCHANGED hosts
    BY <1>1, <2>3, <2>4
  <2>5. CASE Catalog!UpdateHost(call.row)
    <3>1. PICK n : n = [h \in hosts |-> Catalog!Written(h, call.row)]
      OBVIOUS
    <3>2. PICK id \in HostIds : id = call.row.id
      BY <2>2 DEF Catalog!Row
    <3>3. /\ \A h \in hosts : n[h] \in Catalog!Row /\ n[h].id = h.id
          /\ hosts' = (hosts \ Catalog!GetHostByID(id)) \cup {n[h] : h \in Catalog!GetHostByID(id)}
      BY <1>a, <2>2, <2>5, <3>1, <3>2
      DEF Catalog!Row, Catalog!GetHostByID, Catalog!UpdateHost, Catalog!Written
    <3> QED
      BY <1>2, <2>3, <3>3
  <2> QED
    BY <1>5, <2>1, <2>4, <2>5 DEF Catalog!StoreHost
<1>6. ASSUME NEW k \in Calls,
             \/ Catalog!CountHosts(k) \/ \E u \in HostUsers : Catalog!PageHosts(k, u)
      PROVE  Catalog!TypeOK' /\ HostsStay
  <2>1. \A u \in HostUsers : Catalog!ListHosts(u) \in SUBSET Catalog!Row
    BY <1>a DEF Catalog!ListHosts
  <2> QED
    BY <1>1, <1>6, <1>a, <2>1, HostCalls DEF Catalog!CountHosts, Catalog!PageHosts, Catalog!Answer
<1>7. ASSUME NEW k \in Calls, NEW id \in HostIds, NEW name \in Texts, NEW vault \in Texts,
             Catalog!ReadForUpdate(k, id, name, vault)
      PROVE  Catalog!TypeOK' /\ HostsStay
  <2>1. PICK h \in hosts, new \in SUBSET {"name", "vault"} :
          /\ Catalog!Become(k, [op |-> "store",
                  row |-> [h EXCEPT !.name  = IF "name"  \in new THEN name  ELSE @,
                                    !.vault = IF "vault" \in new THEN vault ELSE @]])
          /\ UNCHANGED hosts
    BY <1>7 DEF Catalog!ReadForUpdate, Catalog!GetHostByID
  <2>2. PICK row : row = [h EXCEPT !.name  = IF "name"  \in new THEN name  ELSE @,
                                   !.vault = IF "vault" \in new THEN vault ELSE @]
    OBVIOUS
  <2>3. row \in Catalog!Row
    BY <1>a, <2>2 DEF Catalog!Row
  <2> QED
    BY <1>1, <1>a, <2>1, <2>2, <2>3, HostCalls
<1>8. CASE Catalog!Restart
  BY <1>1, <1>8, HostCalls DEF Catalog!Restart
<1>9. CASE UNCHANGED hostVars
  BY <1>1, <1>9, <1>a DEF hostVars
<1> QED
  BY <1>3, <1>4, <1>5, <1>6, <1>7, <1>8, <1>9 DEF Catalog!Next, Catalog!hostVars

-----------------------------------------------------------------------------
(* snippet-service *)

\* No number of uses falls.
UsesGrow == \A s \in snippets, t \in snippets' : s.id = t.id => s.uses <= t.uses

\* What a request may be.
LEMMA SnippetCalls ==
  /\ Snip!Idle \in Snip!Call
  /\ \A id \in SnippetIds, seen \in 0 .. MaxUses :
       [op |-> "count use", id |-> id, seen |-> seen] \in Snip!Call
  /\ [op |-> "page"] \in Snip!Call
  BY DEF Snip!Call, Snip!Idle

\* The types hold of an empty table.
LEMMA SnippetStart == Snip!Init => Snip!TypeOK
  BY SnippetCalls DEF Snip!Init, Snip!TypeOK

\* Every step of the service keeps them, and no use is lost: a row that is
\* inserted has an id no row had, and an update of a count adds to the row.
LEMMA SnippetStep ==
  ASSUME Snip!TypeOK, [Snip!Next]_snippetVars
  PROVE  Snip!TypeOK' /\ UsesGrow
<1>a. /\ snippets \subseteq Snip!Row /\ snippetCall \in [Calls -> Snip!Call]
      /\ \A s, t \in snippets : s.id = t.id => s = t
      /\ \A s \in snippets : s.uses \in 0 .. MaxUses
      /\ gone \subseteq SnippetIds
      /\ \A k \in Calls, call \in Snip!Call : Snip!Become(k, call) =>
           snippetCall' \in [Calls -> Snip!Call]
  BY DEF Snip!TypeOK, Snip!Become, Snip!Row
<1>1. ASSUME UNCHANGED <<snippets, gone>>, snippetCall' \in [Calls -> Snip!Call]
      PROVE  Snip!TypeOK' /\ UsesGrow
  <2>1. Snip!TypeOK'
    BY <1>1, <1>a DEF Snip!TypeOK
  <2>2. UsesGrow
    BY <1>1, <1>a, InsideAssumption DEF UsesGrow
  <2> QED
    BY <2>1, <2>2
<1>2. ASSUME NEW old, old \subseteq snippets, NEW n,
             \A s \in snippets : n[s] \in Snip!Row /\ n[s].id = s.id,
             \A s \in old : s.uses <= n[s].uses,
             snippets' = (snippets \ old) \cup {n[s] : s \in old},
             UNCHANGED gone, snippetCall' \in [Calls -> Snip!Call]
      PROVE  Snip!TypeOK' /\ UsesGrow
  <2>1. PICK g : g = [s \in snippets |-> IF s \in old THEN n[s] ELSE s]
    OBVIOUS
  <2>2. \A t : t \in snippets' <=> \E s \in snippets : t = g[s]
    BY <1>2, <2>1
  <2>3. \A s \in snippets : g[s] \in Snip!Row /\ g[s].id = s.id
    BY <1>a, <1>2, <2>1
  <2>4. \A s \in snippets : s.uses <= g[s].uses
    BY <1>a, <1>2, <2>1, InsideAssumption
  <2>5. Snip!TypeOK'
    BY <1>a, <1>2, <2>2, <2>3 DEF Snip!TypeOK
  <2>6. UsesGrow
    BY <1>a, <2>2, <2>3, <2>4 DEF UsesGrow
  <2> QED
    BY <2>5, <2>6
<1>3. ASSUME NEW k \in Calls, NEW public \in BOOLEAN, Snip!CreateSnippet(k, public)
      PROVE  Snip!TypeOK' /\ UsesGrow
  <2>1. PICK id \in SnippetIds : /\ \A s \in snippets : s.id # id
                                 /\ snippets' = snippets \cup {[id |-> id, public |-> public, uses |-> 0]}
    BY <1>3 DEF Snip!CreateSnippet, Snip!InsertSnippet, Snip!GetSnippetByID
  <2>2. PICK row : row = [id |-> id, public |-> public, uses |-> 0]
    OBVIOUS
  <2>3. row \in Snip!Row /\ row.id = id
    BY <2>2, InsideAssumption DEF Snip!Row
  <2>4. snippets' = snippets \cup {row}
    BY <2>1, <2>2
  <2>5. Snip!TypeOK'
    BY <1>a, <1>3, <2>1, <2>3, <2>4 DEF Snip!TypeOK, Snip!CreateSnippet
  <2>6. UsesGrow
    <3> SUFFICES ASSUME NEW s \in snippets, NEW t \in snippets', s.id = t.id
                 PROVE  s.uses <= t.uses
      BY DEF UsesGrow
    <3>1. s = t /\ s.uses \in 0 .. MaxUses
      BY <1>a, <2>1, <2>3, <2>4
    <3> QED
      BY <3>1, InsideAssumption
  <2> QED
    BY <2>5, <2>6
<1>4. ASSUME NEW k \in Calls, NEW id \in SnippetIds, NEW public \in BOOLEAN,
             Snip!UpdateSnippet(k, id, public)
      PROVE  Snip!TypeOK' /\ UsesGrow
  <2>1. PICK n, old : /\ n = [s \in snippets |-> [s EXCEPT !.public = public]]
                      /\ old = {s \in snippets : s.id = id}
    OBVIOUS
  <2>2. /\ \A s \in snippets : n[s] \in Snip!Row /\ n[s].id = s.id /\ n[s].uses = s.uses
        /\ snippets' = (snippets \ old) \cup {n[s] : s \in old}
        /\ UNCHANGED gone /\ snippetCall' \in [Calls -> Snip!Call] /\ old \subseteq snippets
    BY <1>a, <1>4, <2>1 DEF Snip!Row, Snip!UpdateSnippet, Snip!StoreSnippet, Snip!GetSnippetByID
  <2>3. \A s \in old : s.uses <= n[s].uses
    BY <1>a, <2>2, InsideAssumption
  <2> QED
    BY <1>2, <2>2, <2>3
<1>5. ASSUME NEW k \in Calls, Snip!IncrementUsage(k)
      PROVE  Snip!TypeOK' /\ UsesGrow
  <2>1. snippetCall' \in [Calls -> Snip!Call] /\ UNCHANGED gone
    BY <1>5, <1>a, SnippetCalls DEF Snip!IncrementUsage, Snip!Answer
  <2>2. PICK old : old = {s \in Snip!GetSnippetByID(snippetCall[k].id) : s.uses < MaxUses}
    OBVIOUS
  <2>3. old \subseteq snippets /\ \A s \in old : s.uses < MaxUses
    BY <2>2 DEF Snip!GetSnippetByID
  <2>4. CASE UNCHANGED snippets
    BY <1>1, <2>1, <2>4
  <2>5. CASE snippets' = (snippets \ old) \cup {[s EXCEPT !.uses = @ + 1] : s \in old}
    <3>1. PICK n : n = [s \in snippets |-> IF s \in old THEN [s EXCEPT !.uses = @ + 1] ELSE s]
      OBVIOUS
    <3>2. \A s \in old : s.uses + 1 \in 0 .. MaxUses
      BY <1>a, <2>3, InsideAssumption
    <3>3. \A s \in snippets : n[s] \in Snip!Row /\ n[s].id = s.id
      BY <1>a, <3>1, <3>2 DEF Snip!Row
    <3>4. \A s \in old : n[s].uses = s.uses + 1
      BY <1>a, <2>3, <3>1 DEF Snip!Row
    <3>5. \A s \in old : s.uses <= n[s].uses
      BY <1>a, <2>3, <3>4, InsideAssumption
    <3>6. snippets' = (snippets \ old) \cup {n[s] : s \in old}
      BY <2>3, <2>5, <3>1
    <3> QED
      BY <1>2, <2>1, <2>3, <3>3, <3>5, <3>6
  <2> QED
    BY <1>5, <2>2, <2>4, <2>5 DEF Snip!IncrementUsage
<1>6. ASSUME NEW k \in Calls, NEW id \in SnippetIds, Snip!DeleteSnippet(k, id)
      PROVE  Snip!TypeOK' /\ UsesGrow
  <2>1. snippets' \subseteq snippets /\ gone' \subseteq SnippetIds /\ UNCHANGED snippetCall
    BY <1>6, <1>a DEF Snip!DeleteSnippet, Snip!DropSnippet
  <2>2. Snip!TypeOK'
    BY <1>a, <2>1 DEF Snip!TypeOK
  <2>3. UsesGrow
    <3> SUFFICES ASSUME NEW s \in snippets, NEW t \in snippets', s.id = t.id
                 PROVE  s.uses <= t.uses
      BY DEF UsesGrow
    <3>1. s = t /\ s.uses \in 0 .. MaxUses
      BY <1>a, <2>1
    <3> QED
      BY <3>1, InsideAssumption
  <2> QED
    BY <2>2, <2>3
<1>7. ASSUME NEW k \in Calls, Snip!CountSnippets(k) \/ Snip!ListSnippets(k)
      PROVE  Snip!TypeOK' /\ UsesGrow
  BY <1>1, <1>7, <1>a, SnippetCalls DEF Snip!CountSnippets, Snip!ListSnippets, Snip!Answer
<1>8. ASSUME NEW k \in Calls, NEW id \in SnippetIds, Snip!GetSnippet(k, id)
      PROVE  Snip!TypeOK' /\ UsesGrow
  BY <1>1, <1>8, <1>a, SnippetCalls DEF Snip!GetSnippet, Snip!GetSnippetByID
<1>9. CASE Snip!Restart
  BY <1>1, <1>9, SnippetCalls DEF Snip!Restart
<1>10. CASE UNCHANGED snippetVars
  BY <1>1, <1>10, <1>a DEF snippetVars
<1> QED
  BY <1>3, <1>4, <1>5, <1>6, <1>7, <1>8, <1>9, <1>10 DEF Snip!Next

-----------------------------------------------------------------------------
(* sftp-service *)

\* The inductive invariant.
TransferInv == Sftp!TypeOK /\ Sftp!CompletionFollowsStatus

\* The invariant holds of an empty table.
LEMMA TransferStart == Sftp!Init => TransferInv
  BY DEF Sftp!Init, TransferInv, Sftp!TypeOK, Sftp!CompletionFollowsStatus, Sftp!Call

\* Every step of the service keeps it.
LEMMA TransferStep ==
  ASSUME TransferInv, [Sftp!Next]_transferVars
  PROVE  TransferInv'
<1>a. /\ transfers \subseteq Sftp!Row /\ transferCall \in [Calls -> Sftp!Call]
      /\ \A t, s \in transfers : t.id = s.id => t = s
      /\ \A t \in transfers : t.completed <=> t.status \in Sftp!Final
      /\ removed \subseteq RowIds
  BY DEF TransferInv, Sftp!TypeOK, Sftp!CompletionFollowsStatus
<1>1. ASSUME transfers' \subseteq transfers, removed' \subseteq RowIds,
             transferCall' \in [Calls -> Sftp!Call]
      PROVE  TransferInv'
  BY <1>1, <1>a DEF TransferInv, Sftp!TypeOK, Sftp!CompletionFollowsStatus
<1>2. ASSUME NEW k \in Calls, Sftp!CreateSession(k)
      PROVE  TransferInv'
  <2>1. PICK id \in RowIds : /\ \A t \in transfers : t.id # id
                             /\ transfers' = transfers \cup
                                  {[id |-> id, status |-> "pending", bytes |-> 0, completed |-> FALSE]}
    BY <1>2 DEF Sftp!CreateSession, Sftp!InsertSession, Sftp!GetSessionByID
  <2>2. PICK row : row = [id |-> id, status |-> "pending", bytes |-> 0, completed |-> FALSE]
    OBVIOUS
  <2>3. row \in Sftp!Row /\ row.id = id /\ ~row.completed /\ row.status \notin Sftp!Final
    BY <2>2, InsideAssumption DEF Sftp!Row, Sftp!Status, Sftp!Final
  <2>4. transfers' = transfers \cup {row}
    BY <2>1, <2>2
  <2> QED
    BY <1>2, <1>a, <2>1, <2>3, <2>4
    DEF TransferInv, Sftp!TypeOK, Sftp!CompletionFollowsStatus, Sftp!CreateSession
<1>3. ASSUME NEW k \in Calls, NEW id \in RowIds, NEW status \in Sftp!Status,
             NEW bytes \in 0 .. MaxBytes, Sftp!UpdateSession(k, id, status, bytes)
      PROVE  TransferInv'
  <2> DEFINE final == status \in Sftp!Final
  <2>1. PICK n : n = [t \in transfers |->
                        [t EXCEPT !.status = status, !.bytes = bytes, !.completed = final]]
    OBVIOUS
  <2>2. PICK g : g = [t \in transfers |-> IF t.id = id THEN n[t] ELSE t]
    OBVIOUS
  <2>3. \A t \in transfers : /\ n[t] \in Sftp!Row /\ n[t].id = t.id
                             /\ n[t].status = status /\ (n[t].completed <=> final)
    <3> HIDE DEF final
    <3>1. final \in BOOLEAN
      BY DEF final
    <3> QED
      BY <1>a, <2>1, <3>1 DEF Sftp!Row
  <2>4. \A s : s \in transfers' <=> \E t \in transfers : s = g[t]
    BY <1>3, <2>1, <2>2 DEF Sftp!UpdateSession, Sftp!StoreSession, Sftp!GetSessionByID
  <2>5. \A t \in transfers : /\ g[t] \in Sftp!Row /\ g[t].id = t.id
                             /\ g[t].completed <=> g[t].status \in Sftp!Final
    BY <1>a, <2>2, <2>3
  <2> QED
    BY <1>3, <1>a, <2>4, <2>5
    DEF TransferInv, Sftp!TypeOK, Sftp!CompletionFollowsStatus, Sftp!UpdateSession
<1>4. ASSUME NEW k \in Calls, NEW id \in RowIds, Sftp!DeleteSession(k, id)
      PROVE  TransferInv'
  BY <1>1, <1>4, <1>a DEF Sftp!DeleteSession, Sftp!DropSession
<1>5. ASSUME NEW k \in Calls, Sftp!CountSessions(k) \/ Sftp!ListSessions(k)
      PROVE  TransferInv'
  BY <1>1, <1>5, <1>a DEF Sftp!CountSessions, Sftp!ListSessions, Sftp!Call
<1>6. CASE Sftp!Restart
  BY <1>1, <1>6, <1>a DEF Sftp!Restart, Sftp!Call
<1>7. CASE UNCHANGED transferVars
  BY <1>1, <1>7, <1>a DEF transferVars
<1> QED
  BY <1>2, <1>3, <1>4, <1>5, <1>6, <1>7 DEF Sftp!Next

-----------------------------------------------------------------------------
(* recording-service *)

\* The inductive invariant.
RecordingInv == Rec!TypeOK /\ Rec!DeletedRecordingsStay

\* The invariant holds of an empty table.
LEMMA RecordingStart == Rec!Init => RecordingInv
  BY DEF Rec!Init, RecordingInv, Rec!TypeOK, Rec!DeletedRecordingsStay

\* Every step of the service keeps it: an INSERT takes a new id, an UPDATE no
\* id that is not there, and a DELETE takes every row with the id.
LEMMA RecordingStep ==
  ASSUME RecordingInv, [Rec!Next]_recordingVars
  PROVE  RecordingInv'
<1>a. /\ recordings \subseteq Rec!Row /\ recordingCall \in [Calls -> {"none", "page"}]
      /\ \A r, q \in recordings : r.id = q.id => r = q
      /\ \A r \in recordings : r.id \notin dropped
      /\ dropped \subseteq RowIds
  BY DEF RecordingInv, Rec!TypeOK, Rec!DeletedRecordingsStay
<1>1. ASSUME UNCHANGED <<recordings, dropped>>, recordingCall' \in [Calls -> {"none", "page"}]
      PROVE  RecordingInv'
  BY <1>1, <1>a DEF RecordingInv, Rec!TypeOK, Rec!DeletedRecordingsStay
<1>2. ASSUME NEW k \in Calls, Rec!CreateRecording(k)
      PROVE  RecordingInv'
  <2>1. PICK id \in RowIds \ dropped :
          /\ \A r \in recordings : r.id # id
          /\ recordings' = recordings \cup {[id |-> id, status |-> "recording", size |-> 0]}
    BY <1>2 DEF Rec!CreateRecording, Rec!InsertRecording, Rec!GetRecordingByID
  <2>2. PICK row : row = [id |-> id, status |-> "recording", size |-> 0]
    OBVIOUS
  <2>3. row \in Rec!Row /\ row.id = id
    BY <2>2, InsideAssumption DEF Rec!Row, Rec!Status
  <2>4. recordings' = recordings \cup {row}
    BY <2>1, <2>2
  <2> QED
    BY <1>2, <1>a, <2>1, <2>3, <2>4
    DEF RecordingInv, Rec!TypeOK, Rec!DeletedRecordingsStay, Rec!CreateRecording
<1>3. ASSUME NEW k \in Calls, NEW id \in RowIds, NEW status \in Rec!Status,
             NEW size \in 0 .. MaxSize, Rec!UpdateRecording(k, id, status, size)
      PROVE  RecordingInv'
  <2>1. PICK n : n = [r \in recordings |-> [r EXCEPT !.status = status, !.size = size]]
    OBVIOUS
  <2>2. PICK g : g = [r \in recordings |-> IF r.id = id THEN n[r] ELSE r]
    OBVIOUS
  <2>3. \A r \in recordings : n[r] \in Rec!Row /\ n[r].id = r.id
    BY <1>a, <2>1 DEF Rec!Row
  <2>4. \A q : q \in recordings' <=> \E r \in recordings : q = g[r]
    BY <1>3, <2>1, <2>2 DEF Rec!UpdateRecording, Rec!StoreRecording, Rec!GetRecordingByID
  <2>5. \A r \in recordings : g[r] \in Rec!Row /\ g[r].id = r.id
    BY <1>a, <2>2, <2>3
  <2> QED
    BY <1>3, <1>a, <2>4, <2>5
    DEF RecordingInv, Rec!TypeOK, Rec!DeletedRecordingsStay, Rec!UpdateRecording
<1>4. ASSUME NEW k \in Calls, NEW id \in RowIds, Rec!DeleteRecording(k, id)
      PROVE  RecordingInv'
  BY <1>4, <1>a
  DEF RecordingInv, Rec!TypeOK, Rec!DeletedRecordingsStay, Rec!DeleteRecording, Rec!DropRecording,
      Rec!GetRecordingByID
<1>5. ASSUME NEW k \in Calls, Rec!CountRecordings(k) \/ Rec!ListRecordings(k)
      PROVE  RecordingInv'
  BY <1>1, <1>5, <1>a DEF Rec!CountRecordings, Rec!ListRecordings
<1>6. CASE Rec!Restart
  BY <1>1, <1>6 DEF Rec!Restart
<1>7. CASE UNCHANGED recordingVars
  BY <1>1, <1>7, <1>a DEF recordingVars
<1> QED
  BY <1>2, <1>3, <1>4, <1>5, <1>6, <1>7 DEF Rec!Next

-----------------------------------------------------------------------------
(* collaboration-service *)

\* Ended sessions are as they were.
EndedStay == \A s \in sessions : s.ended => s \in sessions'

\* The types hold of an empty table.
LEMMA CollabStart == Collab!Init => Collab!TypeOK
  BY DEF Collab!Init, Collab!TypeOK, Collab!Call

\* Every step of the service keeps them; they are inductive.
LEMMA CollabStep ==
  ASSUME Collab!TypeOK, [Collab!Next]_collabVars
  PROVE  Collab!TypeOK' /\ EndedStay
<1>a. /\ sessions \subseteq Collab!Row /\ collabCall \in [Calls -> Collab!Call]
      /\ \A s, t \in sessions : s.id = t.id => s = t
  BY DEF Collab!TypeOK
<1>1. ASSUME UNCHANGED sessions, collabCall' \in [Calls -> Collab!Call]
      PROVE  Collab!TypeOK' /\ EndedStay
  BY <1>1, <1>a DEF Collab!TypeOK, EndedStay
<1>2. ASSUME NEW old, old \subseteq sessions, \A s \in old : ~s.ended, NEW n,
             \A s \in old : n[s] \in Collab!Row /\ n[s].id = s.id,
             sessions' = (sessions \ old) \cup {n[s] : s \in old},
             UNCHANGED collabCall
      PROVE  Collab!TypeOK' /\ EndedStay
  <2>1. PICK g : g = [s \in sessions |-> IF s \in old THEN n[s] ELSE s]
    OBVIOUS
  <2>2. \A t : t \in sessions' <=> \E s \in sessions : t = g[s]
    BY <1>2, <2>1
  <2>3. \A s \in sessions : g[s] \in Collab!Row /\ g[s].id = s.id /\ (s.ended => g[s] = s)
    BY <1>a, <1>2, <2>1
  <2> QED
    BY <1>a, <1>2, <2>2, <2>3 DEF Collab!TypeOK, EndedStay
<1>3. ASSUME NEW k \in Calls, Collab!CreateSession(k)
      PROVE  Collab!TypeOK' /\ EndedStay
  <2>1. PICK id \in RowIds :
          /\ \A s \in sessions : s.id # id
          /\ sessions' = sessions \cup {[id |-> id, participants |-> Null, ended |-> FALSE]}
    BY <1>3 DEF Collab!CreateSession, Collab!InsertSession
  <2>2. PICK row : row = [id |-> id, participants |-> Null, ended |-> FALSE]
    OBVIOUS
  <2>3. row \in Collab!Row /\ row.id = id
    BY <2>2 DEF Collab!Row
  <2>4. sessions' = sessions \cup {row} /\ UNCHANGED collabCall
    BY <1>3, <2>1, <2>2 DEF Collab!CreateSession
  <2> QED
    BY <1>a, <2>1, <2>3, <2>4 DEF Collab!TypeOK, EndedStay
<1>4. ASSUME NEW k \in Calls, NEW id \in RowIds, NEW u \in Users, Collab!JoinSession(k, id, u)
      PROVE  Collab!TypeOK' /\ EndedStay
  <2>1. PICK old, n : /\ old = {s \in Collab!GetSessionByID(id) : Collab!NotIn(u, s)}
                      /\ n = [s \in old |-> [s EXCEPT !.participants = @ \cup {u}]]
    OBVIOUS
  <2>2. /\ old \subseteq sessions
        /\ \A s \in old : ~s.ended /\ s.participants # Null
    BY <2>1 DEF Collab!GetSessionByID, Collab!NotIn
  <2>3. \A s \in old : s.participants \cup {u} \in SUBSET Users
    BY <1>a, <2>2 DEF Collab!Row
  <2>4. \A s \in old : n[s] \in Collab!Row /\ n[s].id = s.id
    BY <1>a, <2>1, <2>2, <2>3 DEF Collab!Row
  <2>5. sessions' = (sessions \ old) \cup {n[s] : s \in old} /\ UNCHANGED collabCall
    BY <1>4, <2>1 DEF Collab!JoinSession, Collab!AppendParticipant
  <2> QED
    BY <1>2, <2>2, <2>4, <2>5
<1>5. ASSUME NEW k \in Calls, NEW id \in RowIds, Collab!EndSession(k, id)
      PROVE  Collab!TypeOK' /\ EndedStay
  <2>1. PICK old, n : /\ old = Collab!GetSessionByID(id)
                      /\ n = [s \in old |-> [s EXCEPT !.ended = TRUE]]
    OBVIOUS
  <2>2. old \subseteq sessions /\ \A s \in old : ~s.ended
    BY <2>1 DEF Collab!GetSessionByID
  <2>3. \A s \in old : n[s] \in Collab!Row /\ n[s].id = s.id
    <3>1. \A s \in Collab!Row : /\ [s EXCEPT !.ended = TRUE] \in Collab!Row
                                /\ [s EXCEPT !.ended = TRUE].id = s.id
      BY DEF Collab!Row
    <3>2. \A s \in old : s \in Collab!Row /\ n[s] = [s EXCEPT !.ended = TRUE]
      BY <1>a, <2>1, <2>2
    <3> QED
      BY <3>1, <3>2
  <2>4. sessions' = (sessions \ old) \cup {n[s] : s \in old} /\ UNCHANGED collabCall
    BY <1>5, <2>1 DEF Collab!EndSession, Collab!StoreEnd
  <2> QED
    BY <1>2, <2>2, <2>3, <2>4
<1>6. ASSUME NEW k \in Calls, Collab!CountSessions(k) \/ Collab!ListSessions(k)
      PROVE  Collab!TypeOK' /\ EndedStay
  BY <1>1, <1>6, <1>a DEF Collab!CountSessions, Collab!ListSessions, Collab!Call
<1>7. CASE Collab!Restart
  BY <1>1, <1>7 DEF Collab!Restart, Collab!Call
<1>8. CASE UNCHANGED collabVars
  BY <1>1, <1>8, <1>a DEF collabVars
<1> QED
  BY <1>3, <1>4, <1>5, <1>6, <1>7, <1>8 DEF Collab!Next, Collab!collabVars

-----------------------------------------------------------------------------
(* analytics-service, audit-service *)

\* Rows with ids of their own are no more than there are ids.
LEMMA RowsAreFew ==
  ASSUME NEW S, \A x, y \in S : x.id = y.id => x = y, \A x \in S : x.id \in RowIds
  PROVE  /\ IsFiniteSet(S)
         /\ Cardinality(S) \in 0 .. Cardinality(RowIds)
<1>1. PICK f : f = [x \in S |-> x.id]
  OBVIOUS
<1>2. f \in Injection(S, RowIds)
  BY <1>1, Fun_IsInj
<1>3. IsFiniteSet(S) /\ Cardinality(S) <= Cardinality(RowIds)
  BY <1>2, InsideAssumption, FS_Injection
<1>4. Cardinality(S) \in Nat /\ Cardinality(RowIds) \in Nat
  BY <1>3, InsideAssumption, FS_CardinalityType
<1> QED
  BY <1>3, <1>4

\* w[s] is the sum of f over s, for every subset s of S, in the order of CHOOSE.
Walk(f, S, w) ==
  w = [s \in SUBSET S |->
         IF s = {} THEN 0 ELSE LET x == CHOOSE y \in s : TRUE IN f[x] + w[s \ {x}]]

\* The sum of audit-service is one that walks over the domain.
LEMMA SumIsWalk ==
  ASSUME NEW f
  PROVE  Trail!Sum(f) = (CHOOSE w : Walk(f, DOMAIN f, w))[DOMAIN f]
  BY DEF Trail!Sum, Trail!FoldFunction, Trail!FoldFunctionOnSet, Trail!MapThenFoldSet, Walk

\* A non-empty family of subsets of a finite set has a smallest member: the
\* induction principle for sums, as a fact about sets.
LEMMA SmallestSet ==
  ASSUME NEW S, IsFiniteSet(S), NEW F, F \subseteq SUBSET S, F # {}
  PROVE  \E s \in F : \A t \in SUBSET s : t # s => t \notin F
<1>1. FiniteSubsetsOf(S) = SUBSET S
  BY FS_FiniteSubsetsOfFinite
<1>2. IsWellFoundedOn(StrictSubsetOrdering(S), SUBSET S)
  BY <1>1, FS_StrictSubsetOrderingWellFounded
<1>3. PICK s \in F : \A t \in F : ~(<<t, s>> \in StrictSubsetOrdering(S))
  BY <1>2, WFMin
<1>4. ASSUME NEW t \in SUBSET s, t # s, t \in F
      PROVE  FALSE
  <2>1. <<t, s>> \in (SUBSET S) \X (SUBSET S)
    BY <1>4
  <2>2. <<t, s>>[1] = t /\ <<t, s>>[2] = s
    OBVIOUS
  <2>3. <<t, s>> \in StrictSubsetOrdering(S)
    BY <1>4, <2>1, <2>2 DEF StrictSubsetOrdering
  <2> QED
    BY <1>3, <1>4, <2>3
<1> QED
  BY <1>4

\* Over a finite set there is one walk at most: where two differ on a smallest
\* set, they differ on a smaller one.
LEMMA WalksAgree ==
  ASSUME NEW S, IsFiniteSet(S), NEW f, NEW v, NEW w, Walk(f, S, v), Walk(f, S, w)
  PROVE  v[S] = w[S]
<1> DEFINE F == {s \in SUBSET S : v[s] # w[s]}
<1>1. SUFFICES ASSUME F # {} PROVE FALSE
  OBVIOUS
<1>2. F \subseteq SUBSET S
  OBVIOUS
<1> HIDE DEF F
<1>5. PICK s \in F : \A t \in SUBSET s : t # s => t \notin F
  BY <1>1, <1>2, SmallestSet
<1> USE DEF F
<1>3. CASE s = {}
  <2>1. v[s] = 0 /\ w[s] = 0
    BY <1>5, <1>3 DEF Walk
  <2> QED
    BY <1>5, <2>1
<1>4. CASE s # {}
  <2>1. PICK x : x = CHOOSE y \in s : TRUE
    OBVIOUS
  <2>2. x \in s
    BY <1>4, <2>1
  <2>3. v[s \ {x}] = w[s \ {x}]
    BY <1>5, <2>2
  <2>4. s \in SUBSET S
    OBVIOUS
  <2>5. v[s] = f[x] + v[s \ {x}]
    BY <1>4, <2>1, <2>4 DEF Walk
  <2>6. w[s] = f[x] + w[s \ {x}]
    BY <1>4, <2>1, <2>4 DEF Walk
  <2> QED
    BY <1>5, <2>3, <2>5, <2>6
<1> QED
  BY <1>3, <1>4

\* Counting by a key and adding up counts everything: the walk is known, it
\* counts the elements whose key is in the set.
LEMMA SumOfCounts ==
  ASSUME NEW A, IsFiniteSet(A), NEW L, IsFiniteSet(L), NEW key,
         \A l \in L : key[l] \in A
  PROVE  Trail!Sum([a \in A |-> Cardinality({l \in L : key[l] = a})]) = Cardinality(L)
<1> DEFINE f == [a \in A |-> Cardinality({l \in L : key[l] = a})]
           W == [s \in SUBSET A |-> Cardinality({l \in L : key[l] \in s})]
<1>1. Walk(f, A, W)
  <2>1. ASSUME NEW s \in SUBSET A
        PROVE  W[s] = IF s = {} THEN 0
                      ELSE LET x == CHOOSE y \in s : TRUE IN f[x] + W[s \ {x}]
    <3>1. CASE s = {}
      <4>1. {l \in L : key[l] \in s} = {}
        BY <3>1
      <4> QED
        BY <3>1, <4>1, FS_EmptySet
    <3>2. CASE s # {}
      <4>1. PICK x : x = CHOOSE y \in s : TRUE
        OBVIOUS
      <4>2. x \in s
        BY <3>2, <4>1
      <4> DEFINE X == {l \in L : key[l] = x}
                 R == {l \in L : key[l] \in s \ {x}}
      <4>3. IsFiniteSet(X) /\ IsFiniteSet(R)
        BY FS_Subset
      <4>4. X \cup R = {l \in L : key[l] \in s} /\ X \cap R = {}
        BY <4>2
      <4>5. Cardinality(X \cup R) = Cardinality(X) + Cardinality(R)
        <5>1. /\ Cardinality(X) \in Nat /\ Cardinality(R) \in Nat
              /\ Cardinality(X \cap R) = 0
          BY <4>3, <4>4, FS_EmptySet, FS_CardinalityType
        <5>2. Cardinality(X \cup R) = Cardinality(X) + Cardinality(R) - Cardinality(X \cap R)
          BY <4>3, FS_Union
        <5> HIDE DEF X, R
        <5> QED
          BY <5>1, <5>2
      <4>6. W[s] = Cardinality(X \cup R) /\ f[x] = Cardinality(X)
            /\ W[s \ {x}] = Cardinality(R)
        BY <4>2, <4>4
      <4>7. W[s] = f[x] + W[s \ {x}]
        BY <4>5, <4>6
      <4> HIDE DEF W, f
      <4> QED
        BY <3>2, <4>1, <4>7
    <3> QED
      BY <3>1, <3>2
  <2>2. W = [s \in SUBSET A |-> W[s]]
    OBVIOUS
  <2> HIDE DEF W, f
  <2> QED
    BY <2>1, <2>2 DEF Walk
<1> HIDE DEF W, f
<1>2. DOMAIN f = A
  BY DEF f
<1>3. PICK w : w = CHOOSE v : Walk(f, A, v)
  OBVIOUS
<1>4. Walk(f, A, w)
  BY <1>1, <1>3
<1>5. w[A] = W[A]
  BY <1>1, <1>4, WalksAgree
<1>6. {l \in L : key[l] \in A} = L
  OBVIOUS
<1>7. W[A] = Cardinality(L)
  BY <1>6 DEF W
<1>8. Trail!Sum(f) = w[A]
  BY <1>2, <1>3, SumIsWalk
<1> QED
  BY <1>5, <1>7, <1>8 DEF f

\* What the statistics of an organisation add up to: the number of its entries.
LEMMA AuditSums ==
  ASSUME Trail!TypeOK, NEW org
  PROVE  /\ Trail!Sum(Trail!CountByAction(org)) = Cardinality(Trail!LogsOf(org))
         /\ Trail!Sum(Trail!CountByResourceType(org)) = Cardinality(Trail!LogsOf(org))
         /\ Trail!Cardinality(Trail!LogsOf(org)) = Cardinality(Trail!LogsOf(org))
         /\ IsFiniteSet(Trail!LogsOf(org))
         /\ Cardinality(Trail!LogsOf(org)) \in 0 .. Cardinality(RowIds)
<1>1. PICK L : L = Trail!LogsOf(org)
  OBVIOUS
<1>2. /\ \A x, y \in L : x.id = y.id => x = y
      /\ \A x \in L : x.id \in RowIds /\ x.action \in Actions /\ x.type \in Types
  BY <1>1 DEF Trail!LogsOf, Trail!TypeOK, Trail!Row
<1>3. IsFiniteSet(L) /\ Cardinality(L) \in 0 .. Cardinality(RowIds)
  BY <1>2, RowsAreFew
<1>4. \A T : Trail!Cardinality(T) = Cardinality(T)
  BY DEF Trail!Cardinality, Cardinality
<1>5. PICK f, g : f = [l \in L |-> l.action] /\ g = [l \in L |-> l.type]
  OBVIOUS
<1>6. /\ Trail!Sum([a \in Actions |-> Cardinality({l \in L : f[l] = a})]) = Cardinality(L)
      /\ Trail!Sum([t \in Types |-> Cardinality({l \in L : g[l] = t})]) = Cardinality(L)
  <2>1. \A l \in L : f[l] \in Actions /\ g[l] \in Types
    BY <1>2, <1>5
  <2> QED
    BY <1>3, <2>1, SumOfCounts, InsideAssumption
<1>7. /\ \A a : {l \in L : f[l] = a} = {l \in L : l.action = a}
      /\ \A t : {l \in L : g[l] = t} = {l \in L : l.type = t}
  BY <1>5
<1>8. Trail!CountByAction(org) = [a \in Actions |-> Cardinality({l \in L : f[l] = a})]
  BY <1>1, <1>4, <1>7 DEF Trail!CountByAction
<1>9. Trail!CountByResourceType(org) = [t \in Types |-> Cardinality({l \in L : g[l] = t})]
  BY <1>1, <1>4, <1>7 DEF Trail!CountByResourceType
<1> QED
  BY <1>1, <1>3, <1>4, <1>6, <1>8, <1>9

\* The total of a page is no more than the entries there are now.
TotalBehind(c) == c.op = "page" => c.total <= Cardinality(Trail!LogsOf(c.org))

\* The inductive invariant.
AuditInv == Trail!TypeOK /\ \A k \in Calls : TotalBehind(auditCall[k])

\* The strengthening implies what it is for.
LEMMA AuditImplies == AuditInv => Trail!TotalsNeverAhead
<1> SUFFICES ASSUME AuditInv PROVE Trail!TotalsNeverAhead
  OBVIOUS
<1>1. \A org \in AuditedOrgs :
        Trail!Sum(Trail!CountByAction(org)) = Trail!Sum(Trail!CountByResourceType(org))
  BY AuditSums DEF AuditInv
<1>2. ASSUME NEW k \in Calls, auditCall[k].op = "page"
      PROVE  auditCall[k].total <= Trail!Sum(Trail!CountByAction(auditCall[k].org))
  BY <1>2, AuditSums DEF AuditInv, TotalBehind
<1> QED
  BY <1>1, <1>2 DEF Trail!TotalsNeverAhead

\* The invariant holds of an empty table.
LEMMA AuditStart == Trail!Init => AuditInv
  BY DEF Trail!Init, AuditInv, Trail!TypeOK, Trail!Call, Trail!Idle, TotalBehind

\* Every step of the service keeps it: entries are never removed.
LEMMA AuditStep ==
  ASSUME AuditInv, [Trail!Next]_auditVars
  PROVE  AuditInv'
<1>a. /\ logs \subseteq Trail!Row /\ auditCall \in [Calls -> Trail!Call]
      /\ \A l, m \in logs : l.id = m.id => l = m
      /\ Trail!Idle \in Trail!Call /\ TotalBehind(Trail!Idle)
      /\ Trail!TypeOK
      /\ \A k \in Calls : TotalBehind(auditCall[k])
  BY DEF AuditInv, Trail!TypeOK, Trail!Call, Trail!Idle, TotalBehind
<1>1. ASSUME NEW k \in Calls, NEW next \in Trail!Call, TotalBehind(next), UNCHANGED logs,
             auditCall' = [auditCall EXCEPT ![k] = next]
      PROVE  AuditInv'
  <2>1. Trail!TypeOK'
    BY <1>1, <1>a DEF Trail!TypeOK
  <2>2. \A j \in Calls : TotalBehind(auditCall'[j])
    BY <1>1, <1>a
  <2>3. (\A j \in Calls : TotalBehind(auditCall[j]))'
    BY <1>1, <2>2 DEF TotalBehind, Trail!LogsOf
  <2> QED
    BY <2>1, <2>3 DEF AuditInv
<1>2. ASSUME NEW k \in Calls, NEW org \in AuditedOrgs, Trail!CountLogs(k, org)
      PROVE  AuditInv'
  <2>1. PICK n : n = Cardinality(Trail!LogsOf(org))
    OBVIOUS
  <2>2. /\ n = Trail!Cardinality(Trail!LogsOf(org))
        /\ n \in 0 .. Trail!Cardinality(RowIds) /\ n \in Nat
    <3>1. Trail!Cardinality(RowIds) = Cardinality(RowIds)
      BY DEF Trail!Cardinality, Cardinality
    <3> QED
      BY <1>a, <2>1, <3>1, AuditSums
  <2>3. PICK next : next = [op |-> "page", org |-> org, total |-> n]
    OBVIOUS
  <2>4. next \in Trail!Call
    BY <2>2, <2>3 DEF Trail!Call
  <2>5. TotalBehind(next)
    <3>1. next.org = org /\ next.total = n /\ n <= n
      BY <2>2, <2>3
    <3>2. Cardinality(Trail!LogsOf(next.org)) = n
      BY <2>1, <3>1
    <3> QED
      BY <3>1, <3>2 DEF TotalBehind
  <2> QED
    BY <1>1, <1>2, <2>2, <2>3, <2>4, <2>5 DEF Trail!CountLogs
<1>3. ASSUME NEW k \in Calls, NEW org \in AuditedOrgs, NEW action \in Actions, NEW type \in Types,
             Trail!CreateAuditLog(k, org, action, type)
      PROVE  AuditInv'
  <2>1. PICK id \in RowIds :
          /\ \A l \in logs : l.id # id
          /\ logs' = logs \cup {[id |-> id, org |-> org, action |-> action, type |-> type]}
    BY <1>3 DEF Trail!CreateAuditLog, Trail!InsertLog
  <2>2. PICK row : row = [id |-> id, org |-> org, action |-> action, type |-> type]
    OBVIOUS
  <2>3. row \in Trail!Row /\ row.id = id /\ UNCHANGED auditCall
    BY <1>3, <2>2 DEF Trail!Row, Trail!CreateAuditLog
  <2>4. Trail!TypeOK'
    BY <1>a, <2>1, <2>2, <2>3 DEF Trail!TypeOK
  <2>5. ASSUME NEW j \in Calls PROVE TotalBehind(auditCall[j])'
    <3>1. PICK c \in Trail!Call : c = auditCall[j] /\ TotalBehind(c)
      BY <1>a
    <3>2. c = auditCall'[j]
      BY <2>3, <3>1
    <3>3. CASE c.op # "page"
      BY <3>2, <3>3 DEF TotalBehind
    <3>4. CASE c.op = "page"
      <4>1. PICK S, T : S = Trail!LogsOf(c.org) /\ T = Trail!LogsOf(c.org)'
        OBVIOUS
      <4>2. S \in SUBSET T
        BY <2>1, <4>1 DEF Trail!LogsOf
      <4>3. IsFiniteSet(T) /\ Cardinality(T) \in Nat
        <5>1. /\ \A x, y \in T : x.id = y.id => x = y
              /\ \A x \in T : x.id \in RowIds
          BY <2>4, <4>1 DEF Trail!LogsOf, Trail!TypeOK, Trail!Row
        <5> QED
          BY <5>1, RowsAreFew
      <4>4. Cardinality(S) <= Cardinality(T) /\ Cardinality(S) \in Nat
        BY <4>2, <4>3, FS_Subset, FS_CardinalityType
      <4>5. c.total \in Nat /\ c.total <= Cardinality(S)
        <5>1. c.total \in 0 .. Trail!Cardinality(RowIds)
          BY <3>4 DEF Trail!Call, Trail!Idle
        <5> QED
          BY <3>1, <3>4, <4>1, <5>1 DEF TotalBehind
      <4>6. c.total <= Cardinality(T)
        BY <4>3, <4>4, <4>5
      <4>7. auditCall'[j].total <= Cardinality(Trail!LogsOf(c.org)')
        BY <3>2, <4>1, <4>6
      <4>8. Trail!LogsOf(auditCall[j].org)' = Trail!LogsOf(c.org)'
        BY <3>2 DEF Trail!LogsOf
      <4> QED
        BY <4>7, <4>8 DEF TotalBehind
    <3> QED
      BY <3>3, <3>4
  <2> QED
    BY <2>4, <2>5 DEF AuditInv
<1>4. ASSUME NEW k \in Calls, Trail!ListAuditLogs(k)
      PROVE  AuditInv'
  BY <1>1, <1>4, <1>a DEF Trail!ListAuditLogs
<1>5. CASE Trail!Restart
  <2>1. Trail!TypeOK'
    BY <1>5, <1>a DEF Trail!Restart, Trail!TypeOK
  <2>2. \A j \in Calls : TotalBehind(auditCall'[j])
    BY <1>5, <1>a DEF Trail!Restart
  <2>3. (\A j \in Calls : TotalBehind(auditCall[j]))'
    BY <1>5, <2>2 DEF TotalBehind, Trail!Restart, Trail!LogsOf
  <2> QED
    BY <2>1, <2>3 DEF AuditInv
<1>6. CASE UNCHANGED auditVars
  BY <1>6, <1>a DEF auditVars, AuditInv, Trail!TypeOK, TotalBehind, Trail!LogsOf
<1> QED
  BY <1>2, <1>3, <1>4, <1>5, <1>6 DEF Trail!Next

\* The events a statistic counts.
Matching(es, org, type) == {e \in es : (org = Unset \/ e.org = org) /\ e.type = type}

\* A total is no more than the events there are now.
Behind(c) == c.op = "page" => c.total <= Cardinality(Matching(events, c.org, c.type))

\* The inductive invariant.
StatsInv == Stats!TypeOK /\ \A k \in Calls : Behind(analyticsCall[k])

\* What the statistics count, in these terms.
LEMMA StatsCount ==
  ASSUME Stats!TypeOK, NEW org, NEW type
  PROVE  /\ {e \in Stats!EventsOf(org) : e.type = type} = Matching(events, org, type)
         /\ \A S : Stats!Cardinality(S) = Cardinality(S)
         /\ IsFiniteSet(Matching(events, org, type))
         /\ Cardinality(Matching(events, org, type)) \in 0 .. Cardinality(RowIds)
<1>1. PICK S : S = Matching(events, org, type)
  OBVIOUS
<1>2. /\ \A x, y \in S : x.id = y.id => x = y
      /\ \A x \in S : x.id \in RowIds
  BY <1>1 DEF Matching, Stats!TypeOK, Stats!Row
<1>3. IsFiniteSet(S) /\ Cardinality(S) \in 0 .. Cardinality(RowIds)
  BY <1>2, RowsAreFew
<1>4. \A T : Stats!Cardinality(T) = Cardinality(T)
  BY DEF Stats!Cardinality, Cardinality
<1>5. {e \in Stats!EventsOf(org) : e.type = type} = Matching(events, org, type)
  BY DEF Stats!EventsOf, Matching
<1> QED
  BY <1>1, <1>3, <1>4, <1>5

\* The strengthening implies what it is for.
LEMMA StatsImplies == StatsInv => Stats!TotalsNeverAhead
<1> SUFFICES ASSUME StatsInv, NEW k \in Calls, analyticsCall[k].op = "page"
             PROVE  analyticsCall[k].total
                      <= Stats!CountByEventType(analyticsCall[k].org)[analyticsCall[k].type]
  BY DEF Stats!TotalsNeverAhead
<1>1. PICK c \in Stats!Call : c = analyticsCall[k]
  BY DEF StatsInv, Stats!TypeOK
<1>2. c.op = "page" /\ c.type \in EventTypes /\ Behind(c)
  BY <1>1 DEF StatsInv, Stats!Call, Stats!Idle
<1>3. Stats!CountByEventType(c.org)[c.type] = Stats!Cardinality({e \in Stats!EventsOf(c.org) : e.type = c.type})
  BY <1>2 DEF Stats!CountByEventType
<1>4. Stats!CountByEventType(c.org)[c.type] = Cardinality(Matching(events, c.org, c.type))
  BY <1>3, StatsCount DEF StatsInv
<1> QED
  BY <1>1, <1>2, <1>4 DEF Behind

\* The invariant holds of an empty table.
LEMMA StatsStart == Stats!Init => StatsInv
  BY DEF Stats!Init, StatsInv, Stats!TypeOK, Stats!Call, Stats!Idle, Behind

\* Every step of the service keeps it: events are never removed.
LEMMA StatsStep ==
  ASSUME StatsInv, [Stats!Next]_analyticsVars
  PROVE  StatsInv'
<1>a. /\ events \subseteq Stats!Row /\ analyticsCall \in [Calls -> Stats!Call]
      /\ \A e, f \in events : e.id = f.id => e = f
      /\ Stats!Idle \in Stats!Call /\ Behind(Stats!Idle)
      /\ Stats!TypeOK
      /\ \A k \in Calls : Behind(analyticsCall[k])
  BY DEF StatsInv, Stats!TypeOK, Stats!Call, Stats!Idle, Behind
<1>1. ASSUME NEW k \in Calls, NEW next \in Stats!Call, Behind(next), UNCHANGED events,
             analyticsCall' = [analyticsCall EXCEPT ![k] = next]
      PROVE  StatsInv'
  <2>1. Stats!TypeOK'
    BY <1>1, <1>a DEF Stats!TypeOK
  <2>2. \A j \in Calls : Behind(analyticsCall'[j])
    BY <1>1, <1>a
  <2>3. (\A j \in Calls : Behind(analyticsCall[j]))'
    BY <1>1, <2>2 DEF Behind
  <2> QED
    BY <2>1, <2>3 DEF StatsInv
<1>2. ASSUME NEW k \in Calls, NEW org \in Stats!Filters, NEW type \in EventTypes,
             Stats!CountEvents(k, org, type)
      PROVE  StatsInv'
  <2>1. PICK n : n = Cardinality(Matching(events, org, type))
    OBVIOUS
  <2>2. n = Stats!Cardinality({e \in Stats!EventsOf(org) : e.type = type})
    BY <1>a, <2>1, StatsCount
  <2>3. n \in 0 .. Stats!Cardinality(RowIds) /\ n \in Nat
    BY <1>a, <2>1, StatsCount
  <2>4. PICK next : next = [op |-> "page", org |-> org, type |-> type, total |-> n]
    OBVIOUS
  <2>5. next \in Stats!Call
    BY <2>3, <2>4 DEF Stats!Call
  <2>6. Behind(next)
    BY <2>1, <2>3, <2>4 DEF Behind
  <2> QED
    BY <1>1, <1>2, <2>2, <2>4, <2>5, <2>6 DEF Stats!CountEvents
<1>3. ASSUME NEW k \in Calls, NEW org \in Stats!Filters, NEW type \in EventTypes,
             Stats!CreateEvent(k, org, type)
      PROVE  StatsInv'
  <2>1. PICK id \in RowIds :
          /\ \A e \in events : e.id # id
          /\ events' = events \cup {[id |-> id, org |-> org, type |-> type]}
    BY <1>3 DEF Stats!CreateEvent, Stats!InsertEvent
  <2>2. PICK row : row = [id |-> id, org |-> org, type |-> type]
    OBVIOUS
  <2>3. row \in Stats!Row /\ row.id = id /\ UNCHANGED analyticsCall
    BY <1>3, <2>2 DEF Stats!Row, Stats!CreateEvent
  <2>4. Stats!TypeOK'
    BY <1>a, <2>1, <2>2, <2>3 DEF Stats!TypeOK
  <2>5. ASSUME NEW j \in Calls PROVE Behind(analyticsCall[j])'
    <3>1. PICK c \in Stats!Call : c = analyticsCall[j] /\ Behind(c)
      BY <1>a
    <3>2. c = analyticsCall'[j]
      BY <2>3, <3>1
    <3>3. CASE c.op # "page"
      BY <3>2, <3>3 DEF Behind
    <3>4. CASE c.op = "page"
      <4>1. PICK S, T : S = Matching(events, c.org, c.type) /\ T = Matching(events', c.org, c.type)
        OBVIOUS
      <4>2. S \in SUBSET T
        BY <2>1, <4>1 DEF Matching
      <4>3. IsFiniteSet(T) /\ Cardinality(T) \in Nat
        <5>1. /\ \A x, y \in T : x.id = y.id => x = y
              /\ \A x \in T : x.id \in RowIds
          BY <2>4, <4>1 DEF Matching, Stats!TypeOK, Stats!Row
        <5> QED
          BY <5>1, RowsAreFew
      <4>4. Cardinality(S) <= Cardinality(T) /\ Cardinality(S) \in Nat
        BY <4>2, <4>3, FS_Subset, FS_CardinalityType
      <4>5. c.total \in Nat /\ c.total <= Cardinality(S)
        <5>1. c.total \in 0 .. Stats!Cardinality(RowIds)
          BY <3>4 DEF Stats!Call, Stats!Idle
        <5> QED
          BY <3>1, <3>4, <4>1, <5>1 DEF Behind
      <4>6. c.total <= Cardinality(T)
        BY <4>3, <4>4, <4>5
      <4> QED
        BY <3>2, <4>1, <4>6 DEF Behind
    <3> QED
      BY <3>3, <3>4
  <2> QED
    BY <2>4, <2>5 DEF StatsInv
<1>4. ASSUME NEW k \in Calls, Stats!ListEvents(k)
      PROVE  StatsInv'
  BY <1>1, <1>4, <1>a DEF Stats!ListEvents
<1>5. CASE Stats!Restart
  <2>1. Stats!TypeOK'
    BY <1>5, <1>a DEF Stats!Restart, Stats!TypeOK
  <2>2. \A j \in Calls : Behind(analyticsCall'[j])
    BY <1>5, <1>a DEF Stats!Restart
  <2>3. (\A j \in Calls : Behind(analyticsCall[j]))'
    BY <1>5, <2>2 DEF Behind, Stats!Restart
  <2> QED
    BY <2>1, <2>3 DEF StatsInv
<1>6. CASE UNCHANGED analyticsVars
  BY <1>6, <1>a DEF analyticsVars, StatsInv, Stats!TypeOK, Behind
<1> QED
  BY <1>2, <1>3, <1>4, <1>5, <1>6 DEF Stats!Next
=============================================================================
