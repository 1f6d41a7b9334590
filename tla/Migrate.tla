------------------------------ MODULE Migrate ------------------------------
(***************************************************************************)
(* The start of a replica of notification-service, the service with the    *)
(* most migrations: migrations.Run brings the schema up to date and New    *)
(* opens the pool, or serves without a database when Run has failed.       *)
(* Replicas of an older and of a newer release start, crash and are        *)
(* started again over one database.  The other services' migrations/ are   *)
(* copies of the same file.                                                *)
(***************************************************************************)
EXTENDS Naturals

CONSTANTS
  Replicas,
  Releases      \* numbers of migrations that releases of the service embed

VARIABLES
  schema,       \* the service's schema exists
  version,      \* the bookkeeping table: the last migration, 0 if there is none,
  dirty,        \* and whether it was begun and not finished
  lock,         \* who holds the advisory lock of golang-migrate, or nobody
  replica,      \* where each replica is in its start
  applied       \* observed only: how many migrations have taken effect

migrateVars == <<schema, version, dirty, lock, replica, applied>>

Free == "free"
Latest == CHOOSE v \in Releases : \A w \in Releases : w <= v
Down == [at |-> "down"]
Phases == {"schema", "lock", "up", "apply", "clean", "version", "pool", "repo", "norepo"}

TypeOK ==
  /\ schema \in BOOLEAN
  /\ version \in 0 .. Latest
  /\ dirty \in BOOLEAN
  /\ lock \in Replicas \cup {Free}
  /\ replica \in [Replicas -> {Down} \cup [at : Phases, release : Releases]]
  /\ applied \in 0 .. Latest

Init ==
  /\ schema = FALSE
  /\ version = 0
  /\ dirty = FALSE
  /\ lock = Free
  /\ replica = [r \in Replicas |-> Down]
  /\ applied = 0

At(r, at) == replica[r].at = at
Goto(r, at) == replica' = [replica EXCEPT ![r].at = at]
Unlock(r) == lock' = IF lock = r THEN Free ELSE lock

-----------------------------------------------------------------------------
(* migrations.Run *)

\* DATABASE_URL is given; Run begins.
Start(r, release) ==
  /\ replica[r] = Down
  /\ replica' = [replica EXCEPT ![r] = [at |-> "schema", release |-> release]]
  /\ UNCHANGED <<schema, version, dirty, lock, applied>>

\* Any call of the database may fail: Run gives up, and the replica serves
\* without a pool.
Fail(r) ==
  /\ replica[r].at \in {"schema", "lock", "up", "apply", "clean", "version"}
  /\ Goto(r, "norepo")
  /\ Unlock(r)
  /\ UNCHANGED <<schema, version, dirty, applied>>

\* CREATE SCHEMA IF NOT EXISTS, on a connection of its own, before any
\* connection has it in its search_path.
EnsureSchema(r) ==
  /\ At(r, "schema")
  /\ schema' = TRUE
  /\ Goto(r, "lock")
  /\ UNCHANGED <<version, dirty, lock, applied>>

TakeLock(r) ==
  /\ At(r, "lock") /\ lock = Free
  /\ lock' = r
  /\ Goto(r, "up")
  /\ UNCHANGED <<schema, version, dirty, applied>>

\* A dirty version is refused, and so is one the release does not embed.
UpRefuses(r) ==
  /\ At(r, "up")
  /\ dirty \/ version > replica[r].release
  /\ Goto(r, "norepo")
  /\ Unlock(r)
  /\ UNCHANGED <<schema, version, dirty, applied>>

\* The next migration is noted as begun ...
UpBegins(r) ==
  /\ At(r, "up") /\ ~dirty /\ version < replica[r].release
  /\ version' = version + 1 /\ dirty' = TRUE
  /\ Goto(r, "apply")
  /\ UNCHANGED <<schema, lock, applied>>

\* ... its file is executed, as one transaction ...
UpApplies(r) ==
  /\ At(r, "apply")
  /\ applied' = version
  /\ Goto(r, "clean")
  /\ UNCHANGED <<schema, version, dirty, lock>>

\* ... and noted as done.
UpCleans(r) ==
  /\ At(r, "clean")
  /\ dirty' = FALSE
  /\ Goto(r, "up")
  /\ UNCHANGED <<schema, version, lock, applied>>

\* Nothing is left to do: ErrNoChange the first time round.
UpEnds(r) ==
  /\ At(r, "up") /\ ~dirty /\ version = replica[r].release
  /\ Unlock(r)
  /\ Goto(r, "version")
  /\ UNCHANGED <<schema, version, dirty, applied>>

\* The version is read once more when the lock has been given up: a newer
\* release may have begun a migration by now.
Run(r) ==
  /\ At(r, "version")
  /\ Goto(r, IF dirty THEN "norepo" ELSE "pool")
  /\ UNCHANGED <<schema, version, dirty, lock, applied>>

-----------------------------------------------------------------------------
(* New, and the end of a process *)

\* Slip: the failure of Run is logged and the pool opened all the same.
OpenAnyway(r) ==
  /\ replica[r].at \in {"pool", "norepo"}
  /\ Goto(r, "repo")
  /\ UNCHANGED <<schema, version, dirty, lock, applied>>

\* ConnectionURL and pgxpool.New; without a pool every request is refused
\* until the replica is started again.
OpenPool(r) ==
  /\ At(r, "pool")
  /\ Goto(r, "repo") \/ Goto(r, "norepo")
  /\ UNCHANGED <<schema, version, dirty, lock, applied>>

\* A replica ends or dies, wherever it is; its session's lock goes with it.
Stop(r) ==
  /\ replica[r] # Down
  /\ replica' = [replica EXCEPT ![r] = Down]
  /\ Unlock(r)
  /\ UNCHANGED <<schema, version, dirty, applied>>

\* "manual operator intervention": with all replicas stopped the version is
\* set to what has taken effect.
Repair ==
  /\ dirty
  /\ \A r \in Replicas : replica[r].at \in {"down", "repo", "norepo"}
  /\ version' = applied /\ dirty' = FALSE
  /\ UNCHANGED <<schema, lock, replica, applied>>

Next ==
  \/ \E r \in Replicas :
       \/ \E release \in Releases : Start(r, release)
       \/ Fail(r) \/ EnsureSchema(r) \/ TakeLock(r)
       \/ UpRefuses(r) \/ UpBegins(r) \/ UpApplies(r) \/ UpCleans(r) \/ UpEnds(r)
       \/ Run(r) \/ OpenPool(r) \/ Stop(r)
  \/ Repair

Spec == Init /\ [][Next]_migrateVars

-----------------------------------------------------------------------------

\* A replica that has a pool has a schema with every migration its release
\* embeds, whichever replicas raced it, failed halfway or were killed and
\* repaired: "a dirty (partially applied) state ... MUST NOT be silently
\* served against".
SchemasAreWhole ==
  \A r \in Replicas : At(r, "repo") => schema /\ applied >= replica[r].release

\* No migration is executed twice, and none is left out: Up begins the one
\* after what has taken effect.
MigrationsAreInOrder ==
  \A r \in Replicas : At(r, "apply") => applied = version - 1
=============================================================================
