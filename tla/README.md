# Helix Terminator: formal models

TLA+ models of the parts of Helix Terminator whose correctness depends on the
order in which things happen, the TLC instances that check them, and proofs of
their safety properties for every value of the constants.

Everything is translated from the Go code under `src/services/`; paths below
are relative to that directory unless they start with `src/`.

## 1. The system

Helix Terminator is a multi-tenant terminal platform: 25 Go services, each with
its own PostgreSQL schema, a Flutter client, and deployment manifests. The
services share one shape:

* `cmd/<service>/main.go` connects to the database, migrates, builds the server
  and runs it until a signal arrives;
* `internal/handler` holds HTTP handlers (gin), each request in a goroutine of
  its own;
* `internal/repository` holds one method per SQL statement. There is **no
  multi-statement transaction in any handler**: a statement is the unit of
  atomicity, and a handler that issues several can be interleaved, cancelled
  (the statements use the request's context) or cut short between any two;
* state outside the database exists only in a few services: tunnels, live
  bridges, MFA challenges, recordings in progress, limiter windows.

So the hard behaviour is in two places: in-memory objects with goroutines and
locks of their own, and handlers of more than one step over rows, memory or
an external system. That is what the models are about.

### Inventory

| component | state | operations that change it | hard behaviour | what makes it correct |
|---|---|---|---|---|
| port-forward-service | `port_forwards` rows; `Manager.tunnels`; each `Tunnel`: listener, SSH connection, accept loop, connection handlers | create, update, start, stop, delete; accept, serve, close | two critical sections with a dial between them; wait group and close order; row and tunnel change in different steps; restarts | a tunnel has one owner, is closed in order, authorized, and the row tells the truth |
| auth-service | `users` (failed logins, lock), `user_sessions`, in-memory MFA challenges | register, login, verify and set up MFA, refresh, logout | read-then-write of rows, check-then-consume of challenges, lost responses, restarts | lock agrees with counter, one account per address, logout final, one session per challenge |
| ssh-proxy-service | `SessionManager.sessions`; per bridge: WebSocket, SSH connection, context, resize channel | bridge a terminal, terminate, shut down | four goroutines per bridge, any of which ends it; close of a channel others send on | nothing leaks, nothing is lost from the map, no bridge ends another, no panic |
| container-bridge-service | `container_bridges` rows; containers in an external runtime | create (bring up or attach), update, reconcile on read, delete | row and container change in separate steps and each may fail | a container without a row can be found, no row says active for a dead container |
| billing-service | subscriptions, plans; objects at the payment provider | subscribe, change, cancel, webhooks | provider first, row second; retries; webhooks late, twice, out of order | a retry creates nothing twice; a row names what the provider has |
| gateway-service | limiter windows, upstream health, the prober | proxy, probe, clean up, shut down | requests against the reset of windows, stale health, Stop against a probe | bursts are bounded, health converges, the process ends and leaves no probe or request |
| terminal-service | `terminal_sessions`; recordings in memory, in one of three formats, then stored | create, update, close, record, write, stop | write against stop; read-modify-write of rows | no output lost, a closed session stays closed |
| org-service | organisations, members, a counting trigger | create, invite, join, leave | two statements per creation; count kept twice | the count is the number of members; an organisation has an owner |
| vault-service | secrets and their versions | create, rotate, delete | three statements per rotation | every version is kept, once |
| notification-service | notifications, preferences, an OAuth token | deliver and record, read, delete | delivery before record; an SMTP goroutine that outlives its request; a token that expires | a recorded success is real; no push with an expired token |
| pki-service | CAs, serials, certificates | issue, revoke, delete a CA | four steps per certificate | a CA signs a serial number once |
| health-service | none | probe | a fan-out joined within the request, one slice | a report is whole and its verdict right |
| ai-service | requests | complete | two timeouts | a completion in time is answered |
| helixtrack-bridge | rows; a cached login | create, update, delete | login before row | a new row's login was accepted |
| config, keychain, user, host, workspace, snippet, sftp, recording, audit, analytics, collaboration | rows | CRUD | two or more statements per request, writes of rows read before | unique keys, owners apart, deleted rows stay deleted, undisturbed host lists exact, counters never fall, totals never ahead |
| a replica's start (every service) | the schema, golang-migrate's version, dirty flag and lock | migrate, open the pool | replicas of two releases, a crash in a migration | who serves has the schema it needs |
| Flutter client, infrastructure, scripts, documents | | | | |

Interaction: clients reach every service through the gateway; services trust
the identity headers or tokens they get and **do not call each other** for any
behaviour modelled here. Each modelled service is therefore a system of its
own, and its environment is: its clients, PostgreSQL, the peers on its sockets,
SSH servers, the processors and runtimes it calls, the operator who restarts it.
The gateway is the one that calls others, and of what it calls it waits for an
answer and no more, so in its model an upstream answers or does not.

`PROJECT.json` lists every component with its files, and every hazard met in
the survey with its line and the property that would catch it.

## 2. Plan

Done, the most important behaviour first:

1. `PortForward` with its abstract specification `TunnelLifecycle`, and proofs;
2. `AuthSession` and proofs;
3. `SshBridge` and proofs;
4. the services that act on something besides their own tables, composed in
   `Outside`: `ContainerBridge`, `Billing`, `Org`, `Notification`, `Pki`,
   `Terminal`, `Ai`, `TrackBridge`;
5. the gateway, the health checks, the migrations at a replica's start and the
   services of plain rows, composed in `Inside`;
6. proofs of every invariant and every action property of 4 and 5;
7. `SessionLifecycle`, which the sessions of `AuthSession` implement as tunnels
   implement `TunnelLifecycle`, and the proof that they do;
8. `SshBridge` without an assumption on session ids, which clients make up.

What is left are the liveness properties for every value of the constants, which
the provers cannot reach (see 5).

The number of runs is kept small on purpose. The three services with goroutines
and long-lived objects have a safety run each, one for what must eventually
happen, and one for each disagreement with the documentation that a trace shows
best; the other services share two runs, which is sound because they share
nothing (see 4).

## 3. Modules

| module | what it is |
|---|---|
| `TunnelLifecycle` | what a client of a tunnel may rely on: serve, refuse, drain, close |
| `PortForward` | port-forward-service in full |
| `PortForward_proofs` | its inductive invariant, theorems and the refinement proof |
| `SessionLifecycle` | what auth-service promises of every login session: one owner, tokens of its own, no life after logout |
| `AuthSession`, `AuthSession_proofs` | auth-service: accounts, lockout, MFA, sessions; invariant, theorems and the refinement proof |
| `SshBridge`, `SshBridge_proofs` | ssh-proxy-service: bridges and their manager |
| `ContainerBridge` | rows and containers of an external runtime |
| `Billing` | subscriptions at the payment processor and their rows, webhooks |
| `Org` | organisations, teams, memberships, the counting triggers |
| `Notification` | delivery over five channels, the token cache, the rows |
| `Pki` | CAs, serial counters, issuing in four steps |
| `Terminal` | sessions, the recorder, its buffers and files, output rows |
| `Ai` | a completion between two timeouts |
| `TrackBridge` | the login to an issue tracker and the rows that rest on it |
| `Gateway` | limiters, proxying, health prober, shutdown |
| `Vault`, `Keychain` | secrets and sealed items with one owner each, rotation |
| `Config`, `User`, `Host`, `Workspace`, `Snippet`, `Transfers` (sftp-service), `Recording`, `Collaboration`, `Audit`, `Analytics` | the tables of one service each |
| `HealthCheck` | the fan-out of one health request |
| `Migrate` | replicas of two releases starting over one database |
| `Outside`, `Inside` | the modules above side by side: `Outside` those that act on something besides their tables, `Inside` the rest |
| `OutsideRemote_proofs` | inductive invariants of container-bridge, billing, notification, ai and the tracker bridge, which call something outside |
| `OutsideLocal_proofs` | those of org, pki and terminal |
| `InsideRows_proofs` | those of the services of plain rows |
| `Outside_proofs`, `Inside_proofs` | their composition and the theorems; `Inside_proofs` has the gateway, host lists, health checks and migrations too |
| `MCOutside`, `MCInside` | the sums of the services of `Outside` and `Inside`, for TLC |
| other `MC*` | the values given to function constants for TLC, and the symmetries |

Definitions whose comment starts with "Slip:" are not part of a specification.
Each is a plausible mistake in the definition that follows it; replacing one by
the other must break the property it is paired with under `mutants`.

### PortForward

A request is a process with a program counter; the labels are the places
between two atomic steps of the handler.

| code | model |
|---|---|
| `port_forwards` row | `status`, `ftype`, `port`, `deleted` |
| `Manager.tunnels` | `tunnels` |
| a `*Tunnel`: `cfg.ID`, `cfg.LocalPort`, listener, accept loop, handlers, SSH connection | `tFwd`, `tPort`, `listening`, `loop`, `conns`, `ssh` |
| a request's local variables | `pc`, `op`, `rFwd`, `rTun`, `rPort` |
| `Authorizer` built from the environment | `env`, chosen again at `Restart` |
| `StartForward`: read and authorize; look in the map; dial and bind; insert; update the row | `StartForward`, `Check`, `Establish` or `EstablishFails`, `Insert`, `Activate` or `RecordFailure` |
| `StopForward`, `DeleteForward`, and the undo of a Start whose row could not be updated | `Take` or `TakeNothing`, `CloseListener`, `Drain`, then `RecordStopped`, `Purge` or nothing |
| `acceptLoop`, `serveConn` | `Accept`, `Spawn`, `Finish`, `LoopExit` |

Details that matter and are easy to lose: `Insert` overwrites whatever entry is
there; the undo in `Activate` stops whatever tunnel the forward has by then; a
statement may fail, may find no row, and may be carried out although an error
is reported; a SOCKS5 or target dial that fails is a handler that finishes at
once; a connection accepted just before the listener closes is in the loop's
hand (`"inhand"`) and is still served. A lost SSH connection takes a `-R`
listener with it and nothing in the service notices.

`TunnelLifecycle` sees a tunnel through `Phase` (down, serving, draining) and
`Load` (the connection in the loop's hand counts).

### AuthSession

Access tokens of a session are numbered in the order they are minted, so
`access_token_hash` is the number the row recognises; the refresh token stands
for the session itself. A request holds the columns of the `users` row that it
read (`rFailed`, `rLock`, `rMfa`), because `SetupMFA` writes the whole row back.

| code | model |
|---|---|
| `users` | `account`, `failed`, `lockedUntil`, `mfa` |
| `user_sessions` | `sUser`, `revoked`, `access`; `sChal` records which challenge a session was created from |
| `mfaChallengeStore` | `live`, `chUser`, `chExp` |
| `Register`: address free?; insert | `Register`, `CreateUser` |
| `Login`: read; count a failure or reset; challenge or session | `Login`, `CountFailure`, `ResetFailures`, `CreateChallenge`, `CreateSession`, `Reply` |
| `VerifyMFA`: look up; check; consume; session | `VerifyMFA`, `CheckCode`, `Consume`, `CreateSession`, `Reply` |
| `SetupMFA`: read the row; write it back | `SetupMFA`, `ReadUser`, `UpdateUser` |
| `RefreshToken`: check; rebind the session; answer | `RefreshToken`, `Rebind`, `Reply` |
| `Logout` | `Logout`, `RevokeSession` or `RevokeAllUserSessions` |
| the JWT middleware's lookup of the token | `Recognised` |

A response may be lost (`LoseReply`): the row has changed and the client has
not. `held` is the token the client received last, and is the environment's.

`SessionLifecycle` sees of a session its owner, whether it has ended, how many
tokens were minted for it, the one it recognises and the one its client received
last. A refresh mints first and binds in another step, so the abstract `Mint`
goes through on an ended session and `Bind` does not: that is the promise in
the comment on `UpdateSessionAccessTokenHash`. A logout from everywhere is one
abstract step `End(S)` for all sessions of a user.

### SshBridge

A bridge is one call of `HandleWebSocket`. Its handler has a program counter;
its goroutines `SSHToWSProxy`, `WSToSSHProxy` and `handleResize` have a state
each (`output`, `input`, `resizer`). `ws` and `ssh` are the connections,
`cancelled` the context, `sizes` and `sealed` the resize channel: how many sizes
wait in it and whether it is closed. The gap between the receipt of a window
size and the send on the channel is `input = "send"`.

`Cleanup` is one step because `SessionManager.mu` is held across it and every
part of it is a close; what the goroutines see of the order inside it makes no
difference to the properties. `Panic` ends the process: no `recover` runs in
those goroutines (gin's recovery covers handler goroutines only).

The session id of a call is the client's, and `Register` overwrites the entry of
its id without looking. So two bridges may share an id (`SharesId`), and then
the first to end takes the other's entry. The properties say what holds
nevertheless, and name the shared id where it makes an exception: of two bridges
that share one, the SSH connection of the one whose entry was overwritten is
closed by nobody, and its proxies may wait on it for ever; its handler and its
resizer end all the same.

### The services composed in Outside and Inside

They share one way of writing. A table is a set of records with an `id`. A
request is one of `Calls`, a record whose `op` (and `at`, where a handler has
several steps) is its place in the handler and whose other fields are its local
variables; `Idle` is no request. **A step is one SQL statement, one call of
something outside, or one critical section**, so requests interleave exactly
where the code lets them: a value read by one statement and written by another
sits in the call's record in between, and is stale if the row has changed. A
statement that may fail has a disjunct that leaves the table alone and goes
where the handler's error path goes. `Restart` ends the process at any point:
requests are cut off, memory is lost, rows and everything outside stay.

| code | model |
|---|---|
| container-bridge `CreateBridge`, `bringUp` | `CreateBridge`, `Look` (a failing `Status` goes on to a run), then `StartExisting` and `ConfirmStarted`, or `RunNew` and `ConfirmNew`, then `InsertRow` |
| `reconcile` on get and list | `GetBridge` or `ListBridges`, `Reconcile`, `ReconcileWrite` |
| `UpdateBridge`; `DeleteBridge` | `UpdateBridge`, `UpdateLook`, `UpdateWrite`; `DeleteBridge`, `StopContainer`, `RemoveContainer`, `DropRow`; or `DropRow` at once, when the row cannot be read or the runtime is out of reach |
| billing `CreateSubscription` and the Stripe provider | `CreateSubscription`, `CreateCustomer`, `CreateExternal`, `InsertRow` |
| change of plan, cancel, status by PUT | `UpdateSubscription`, `ChangePlan`, `CancelSubscription`, `CancelExternal`, `StoreStatus` |
| `StripeWebhook` | `StripeWebhook`, over a set of events that may come twice or never |
| org's triggers and foreign keys | `CountInOrg`, `CountInTeams`, `InsertMember`, part of each statement's step |
| notification `CreateNotification` | `CreateNotification`, then `DeliverEmail`, `DeliverWebhook`, `DeliverSlack` or `DeliverPush` with `PushSend`, then `InsertNotification`; `MailGoesOut` is the goroutine whose request has gone |
| `serviceAccountTokenSource` | `fcmToken`, `Cached`, `AccessToken`; `Tick` is one refresh skew |
| pki `CreateCertificate` | `CreateCertificateOf`, `TakeSerial`, `Sign`, `CreateCert` |
| terminal `Recorder` | `active`, `buffer` with the format of each recording, `castFiles`; `StartTake`, `WriteOutput`, `NumberChunk`, `CreateOutput`, `StopRecording`, `WriteRecordingFile`; what can be read is `GetPlaybackData` (asciinema), `GetAsciinemaData` (any format) and the rows |
| ai `CreateRequest` and the check in `main` | `CreateRequest`, `Complete`, `InsertRequest`; `ValidateTimeoutInvariant` |
| gateway middlewares and `proxyTo` | `Accept`, `AdmitClient`, `AdmitEndpoint`, `CheckToken`, `Route` or `NotImplemented`, `Forward` |
| `rateLimiter.cleanup` | `Tick`, of half a window, so that what passes within one window's length of time can be said |
| `probeAllUpstreams`, `startHealthChecker`, `Stop` | `Probe`, `StoreProbe`, `SweepEnds`, `SweepAgain`, `ProberReturns`, `StopReturns` |
| vault's middleware and handlers | `IsolateTenant`, whose read finds the caller's secret, finds none or fails (`seen`), then the handler's own step; `RotateSecret`, `Snapshot`, `StoreSecret` |
| keychain's ownership check | `Owns`, which a caller without an id (`Nobody`) passes unread |
| workspace `UpdateWorkspace` | `UpdateWorkspace`, `StoreWorkspace` with its `UpdateRow`, `ReplaceHosts` (whose read may fail or stop early and count as less than there is), `DropNext`, `AddNext`, `AnswerUpdate` |
| a list with a total | `Count...`, then the page |
| health `CheckServices` | `Spawn`, `CheckService`, `ReadSlice`, `StoreSlice`, `Wait`; an append is its read and its write |
| `migrations.Run`, golang-migrate's `Up`, `New` | `Start`, `EnsureSchema`, `TakeLock`, `UpBegins`, `UpApplies`, `UpCleans`, `UpEnds`, `Run`, `OpenPool` |

"Observed only" variables (`accounted`, `abandoned`, `begotten`, `accepted`,
`had`, `kept`, `signed`, `burst`, `gone`, `everUsed`, `removed`, `dropped`,
`applied`) record history for a property and are in no guard of the code's,
except that ids of rows that have gone are not given out again, as UUIDs are
not.

Things the modules say that are easy to miss in the code: an attach to an
existing container stores whatever state the second look finds, a new one must
be running; a run that fails may leave its container behind; the delete of a
bridge goes on whatever the runtime says, and without asking it when the row
could not be read; an organisation's count starts one too high; a chunk of an
html recording is numbered and not buffered; an update of a configuration reads
the row again and answers 500 if it has gone meanwhile; the foreign key of a
workspace's hosts is content with a workspace that is deleted softly; a keychain
item that does not open under the running process's key is an error and no row,
so its owner can neither change nor delete it until the old key is back.

## 4. Runs

| run | instance | checks | outcome |
|---|---|---|---|
| `PortForward_safety` | 1 forward of any type, 2 tunnels, 2 requests, 3 authorizer configurations, 1 connection per tunnel, 1 restart | `TypeOK`, `MapHoldsLiveTunnels`, `OneOwner`, `NoOrphanListener`, `LiveTunnelsAuthorized`, `DeletedForever`, `TunnelsKeepPromise` | holds |
| `PortForward_liveness` | 1 forward, 1 tunnel, 2 requests, 2 connections | `RequestsReturn` | holds |
| `PortForward_status` | 1 forward, 1 request at a time | `SettledStatusIsReal` | violated |
| `PortForward_delete` | 1 forward, 2 requests | `DeletedHasNoTunnel` | violated |
| `AuthSession_safety` | 2 registrations of 1 address, 2 sessions, 1 challenge, 2 requests, 3 failures, restarts and lost responses | `TypeOK`, `AccountsAreSound`, `SessionsKeepPromise` | holds |
| `AuthSession_challenge` | 1 user, 3 sessions, 1 challenge, 2 requests | `OneSessionPerChallenge` | violated |
| `AuthSession_refresh` | 1 user, 1 session, 3 tokens, 2 requests | `PresentedTokenRecognised` | violated |
| `SshBridge_safety` | 2 bridges, each with either of 2 ids, channel of 1 | `TypeOK`, `ActiveIsTracked`, `ReturnedHoldsNothing`, `OneEndsNoOther` | holds |
| `SshBridge_ends` | 1 bridge alone, or beside another with its id or a second one; fairness of the first only | `BridgesEnd` | holds |
| `SshBridge_panic` | 1 bridge | `NoSendOnClosed` | violated |
| `Outside_safety` | 2 requests, 2 ids (1 for billing and terminals), 2 users; 1 container; 2 retry keys, customers and external subscriptions; 2 serials; 2 takes of 2 chunks in any format; 2 timeouts of each kind | `TypeOK`, `OrphansAreAccounted`, `RetriesCreateOnce`, `RowsMatchProcessor`, `CountsFollowMemberships`, `SuccessIsReal`, `DeadlinesAreMet`, `SerialsAreUnique`, `PlaybackAgreesWithRows`, `RecordsStand` | holds |
| `Inside_safety` | 2 requests, 2 ids (1 where a property is of one row), 2 users and callers without an id; 1 client with limit 2, 1 upstream with limit 1; 2 hosts; 2 keys; 2 endpoints and an unknown name; 2 replicas of releases with 2 and 3 migrations | `TypeOK`, `BurstsAreBounded`, `ExitLeavesNothing`, `TenantsStayApart`, `ValuesAreKept`, `RowsAreConsistent`, `ReplacingIsExact`, `ReportsAreTrue`, `StatisticsAddUp`, `SchemasAreWhole`, `GatewayGoesOn`, `DeletedRowsStay`, `UsesNeverFall` | holds |

What `AccountsAreSound` and `BridgesEnd` say:

* `AccountsAreSound`: the lock and the counter of one row agree, whoever writes
  a row back (`LockMatchesCount`), and an address has one account
  (`OneAccountPerEmail`). That no failed login is lost is not part of it: a
  `SetupMFA` that overlaps one writes the older counter back.
* `BridgesEnd`: once a bridge has lost a connection or is cancelled its handler
  returns and its resizer stops, and its two proxies stop too, or a bridge shares
  its id. It asks for the end of one of two bridges and gives fairness to no
  other, so that it holds whatever the second does or fails to do; bridges are
  alike, so this is enough. The run is bounded by `Bounded`: everything is sent
  while the first bridge is alone, and beside the second keystrokes to the first
  only.

What the properties of `Outside_safety` and `Inside_safety` say:

* `OrphansAreAccounted`: a running container that the service made is known, that
  is, named by a row, in the hands of a create, or its client got an error or the
  log a line; or it was lost by a delete that called no runtime, because its read
  of the row failed or the runtime was out of reach (`abandoned`). That such a
  delete should leave a trace too is what its comment asks (see 6).
* `RetriesCreateOnce`, `RowsMatchProcessor`: one customer and one subscription
  per Idempotency-Key; a row names a subscription the processor has, for a
  customer of the row's organisation.
* `CountsFollowMemberships`: a team's counter is its memberships, an
  organisation's one more.
* `SuccessIsReal`: a row that says sent or delivered is of a message that a
  transport took; a bridge to the tracker is inserted on an accepted login.
* `DeadlinesAreMet`: no push carries an expired token; a completion of ai-service
  leaves the margin in which its row is stored and its answer sent.
* `SerialsAreUnique`: a CA signs no serial number twice, and each row is of a
  certificate that was signed and of no other row's.
* `PlaybackAgreesWithRows`: after any cursor, the playback of a running asciinema
  recording has each chunk its rows have, and so have the data of a running
  asciinema or raw recording; one in html has rows only. In every format no
  number is given twice.
* `RecordsStand`: what these services have recorded, no step takes back. A
  certificate keeps its CA and serial and is revoked for good, a deleted CA
  stays so and its counter stops (a request that has its serial may still
  sign); a subscription row keeps what it was made for, and a
  cancellation at the processor is final; a notification's row changes but in
  being read; a chunk keeps its number and place, and no later one gets a number
  that was given. Restarts are among the steps.
* `BurstsAreBounded`: within a window's length no more than twice the limit.
* `ExitLeavesNothing`, `GatewayGoesOn`: when main has returned no probe or
  request is left (the limiters' cleanup goroutines are stopped by nothing and
  end with the process); a signal leads to that; an upstream that stays up
  (down) is marked healthy
  (unhealthy) for good in the end.
* `TenantsStayApart`: a request that acts on one secret, after a check that read
  it, acts on its sender's own, versions and stale rows included; one whose check
  found none reaches no secret that is not deleted; a list and a keychain item
  are their caller's own. The exceptions are the code's: `IsolateTenant` lets a
  request through whose read failed, and one for a secret that is deleted, of
  which versions can still be read; keychain checks nothing for a caller
  without an id, and a vault list for the zero uuid is of all secrets.
* `ValuesAreKept`: a version is a value the secret had; the private key of an
  item that opens is the one it was made with, over restarts with other keys.
* `RowsAreConsistent`: unique keys and addresses, a completion time exactly with
  a final status, no deleted recording back.
* `ReplacingIsExact`: an update of a host list of which no read or statement
  failed, and whose list no other request wrote, leaves the list it was given. It
  is about the steps of one replacement; two that overlap may leave a list
  neither was given, as the code is.
* `ReportsAreTrue`: a health report tells of all it was asked for; the total of
  a list of analytics is never more than a later statistic.
* `StatisticsAddUp`: the same of an audit list, whose statistic is a sum; by
  action and by resource type the sums agree.
* `SchemasAreWhole`: a replica with a pool has every migration its release
  embeds, and no migration is executed twice or left out.
* `DeletedRowsStay`, `UsesNeverFall`: no write of a row read before brings a
  deleted row back or a counter down. (Collaboration's rows change
  in being ended only: its joins change none.)

**Side by side and as a sum.** `Outside` and `Inside` let their services
interleave freely: `Next` is a step of one of them and leaves the others'
variables alone. Their reachable states are all combinations of those of the
services, far too many for TLC and none of them new, because no two of these
services share a table or memory and none waits for another. So `MCOutside` and
`MCInside` add a variable `service` that says whose behaviour it is; `MCNext` is
that service's `Next`, and the others stay as they started. The state spaces
are added and not multiplied, and one run answers for all of them. The theorems
are about `Outside` and `Inside` themselves: that a step of one service is no
step of another is proved there (`StepsAreTheirs`), not assumed.

Why the bounds are enough to be interesting:

* Every race of the services is between two requests on one forward, user,
  session or bridge id, so two requests are used everywhere they may overlap.
  The two requests of `PortForward` may be any of start, stop and delete; the two
  tunnels are one in the map, or in a request's hand, and one that races it.
  More of each is what the proofs cover.
* `MaxConns` bounds how many connections are open on a tunnel. One suffices for
  the order of closing (with another in the loop's hand); two are used where
  termination depends on it.
* The failed-login limit is 5 in the code and 2 in TLC, the resize channel holds
  8 in the code and 1 in TLC: the proofs cover every value.
* `MaxRestarts`, `MaxFailures`, `MaxTokens` and `MaxTime` bound counters only;
  they appear as guards of `Restart`, `CountFailure`, minting and `Tick`.
* In the shared runs a race is between two requests on one row, so two calls and
  one or two ids show it; two users, to tell a caller from an owner. The second
  retry key, customer and external subscription let a mistaken retry create its
  second object. Serials, chunks, uses, bytes and sizes are bounded just above
  what two requests need (`MaxSerial`, `MaxChunks`, `MaxUses`, `MaxBytes`,
  `MaxSize`). The gateway's limits, 1000 and 500 in the code, are 2 and 1: a
  burst needs a window that is filled on both sides of a reset.
* Symmetry is used in the safety runs only, over sets the specifications treat
  alike. In `SshBridge_safety` bridges and ids may be exchanged as long as every
  bridge may come with every id, as there. `Inside_safety` has temporal
  properties and uses none.

`CHECK_DEADLOCK FALSE` is set everywhere because every instance may come to
rest: rows deleted, bounds reached, the process stopped, every bridge returned.

### Fairness

Only what the Go runtime gives: a goroutine of the service that can go on does.
Clients, peers, SSH servers, the database and the operator owe nothing.

* `PortForward`: weak fairness of each request's next step past the dial (the
  SSH handshake has no deadline, so nothing is assumed of the dial), of the
  accept loops' own steps, and of closing a listener, except that closing a
  `-R` listener waits for a reply of the SSH server while the connection stands.
  `RequestsReturn` says which two waits can therefore last for ever:
  that one, and `t.wg.Wait()` while some peer keeps its connection open.
* `SshBridge`: weak fairness of the handler's and goroutines' steps. The ping is
  written every 30 seconds with a deadline of 5, so it fails in time when the
  WebSocket is broken or a write of another goroutine holds it. That is
  what ends a bridge whose client has silently gone. `FairTo` is that of one
  bridge; `SshBridge_ends` assumes it of the first alone.
* `Gateway`: weak fairness of requests (each wait has a timeout: 3 s for a
  probe, 15 s for an upstream), of probes, of storing their verdicts, of the
  ticker, and strong fairness of `ProberReturns`. The prober's `select` has the
  ticker and the stop channel; once closed the channel is ready each time the
  loop comes round, and Go's `select` picks among the ready ones at random, so it
  is not passed over for ever. Nothing is assumed of upstreams, of new requests
  or of the signal.

Elsewhere weak fairness suffices: each of these steps, once possible, stays
possible until it is taken or another step of the same goroutine is.

## 5. Proofs

`tlapm` checks every theorem for all values of the constants that satisfy the
assumption named in the module. The assumptions say that sentinels are outside
their sets, that numbers are natural, and:

* `OutsideAssumption`: a token is renewed before it ends and after it was got
  (`accessTokenRefreshSkew` is a minute, the tokens it is for last an hour); the
  write timeouts ai-service may be started with have a longest one, which bounds
  the age of a call in the model;
* `InsideAssumption`: a table has finitely many ids, without which its rows
  cannot be counted, and an audit row's action and resource type are of finitely
  many (both are `VARCHAR(50)`); of the releases that meet over one database one
  is the newest.

**PortForward_proofs.** `IInv` strengthens the properties with what ties them
together: `Shape` (which local variables a program point has), `Alive` (a tunnel
with an open SSH connection belongs to an authorized row, one without is idle),
`Gated` (a request about to dial was authorized), `Held` and `Mapped` (a tunnel
in a local variable, or in the map, is open, of that forward, and bound until
its own closer closes it), `OneOwner`, and `DeletedRows`. None of the properties
is inductive alone: that no live tunnel is lost or closed twice needs
`OneOwner` for the map and `Held` for the local variables at once.
A handler that returns only drops what it held, which is one lemma
(`ReturnKeeps`) for all five that do.
From the invariant: `TypeCorrect`, `MapCorrect`, `Ownership`, `Authorization`,
`ClosedLast`, `Deletion`. `NoOrphan` needs more (`PInv`): two Starts of one
forward bind the same port, so the second cannot bind while the first is alive,
and the overwriting `Insert` overwrites nothing. That is why it is stated under
`FixedPorts` (a forward's clients ask for one port): after an edit of the port
between two racing Starts both would bind and the first would be lost.
It excludes `-R` tunnels as well, whose listener the loss of a connection frees.
`Promise` is the refinement: one step per action of `Next`, each of which moves
at most one tunnel (`OneTunnelMoves`) by a step of `TunnelLifecycle`, or none.

**AuthSession_proofs.** `IInv` adds `Snapshots` (the two login columns in a
request's hand agree with each other, so that writing back a stale row cannot
tear them), `Shape`, `Issued` and `Revocable`. From it: `TypeCorrect`,
`AccountsSound` for any limit, and `Logouts`, which needs that only existing
sessions are revoked, since creating one writes its token.
`Promise` is the refinement to `SessionLifecycle`. It needs a second invariant,
`Tokens`, on top of the first: every token there is, in a row, in a request that
will bind or answer it, or with a client, is one of those minted for its own
session, and a session that is still to come has none. `PromiseStep` then takes
one action of `Next` at a time; most are stutters (`Unseen`), a refresh's two
steps are `Mint` and `Bind`, and a logout is `End` of one session or of a user's.

**SshBridge_proofs.** No assumption is made on the ids that calls come with.
`Base` has the types, that an entry of the map is of a bridge with that id, and
what a handler at each of its points still holds; `Own` adds to it what becomes
of an entry that another bridge with the same id takes. From them `Tracked`,
`NothingHeld` and `Isolation`, whose exceptions are `SharesId`. `NobodyShares`
shows what they are worth: where no two calls can come with one id
(`DistinctIds`), there is no exception. `OverIsOver` is an action property: a
cancelled context, a closed channel, a returned handler and a closed connection
stay so through every step, a terminate, a shutdown and a panic among them.
`TypeCorrect` includes that the resize channel never exceeds its capacity.

**Outside_proofs** and **Inside_proofs.** `Inv` is the conjunction of one
inductive invariant per service. For each service the proof modules show that
its `Init` implies the invariant, that `[Next]` of that service keeps it, and
that it implies the properties; the composition is then the lemma that a step of
all of them is, for each, its own step or none. The proof of a service follows
its actions: one step per action, and for the statements that rewrite rows a
lemma of its own (`...Rewrite`) from "every new row is the image of one old
row". What the invariants need beyond the properties is what requests carry
between two statements:

* container-bridge: a running container is in a row, or accounted for, or
  abandoned by a delete that called no runtime, or in a call past the point
  where it was made (`RunningAreAnchored`), and the id of a row about to be
  inserted is nobody else's (`NewIdsAreNew`);
* billing: the customer in a call's hand was made for the call's organisation,
  and the subscription it will insert is that customer's (`Matched`);
* org: the counters follow because the foreign keys hold and memberships have
  ids; both are part of `OrgInv`, and the counting itself is in lemmas on
  cardinalities (`OneMore`, `OneLess`) and on each trigger;
* notification: the row in a call's hand claims only what a transport accepted
  (`Honest`); a token in hand had more than the skew left when it was got, and
  at most one tick has passed since;
* pki: a number that is signed, or about to be, is one the counter has passed,
  and is in one place only (`Accounted`); a certificate that waits for its row
  was signed once and has none yet (`Awaited`);
* terminal: a recording in asciinema or raw holds the chunks 1, 2, 3 and so on up
  to its number, one in html none, and no two calls insert one chunk;
* ai: a call's age is under its timeout while the process is up (`Timely`), and
  the process is up only with timeouts that `ValidateTimeoutInvariant` passes;
* gateway: in the first half of a window the counter is what this half let
  through, in the second what both did (`Counted`): so two adjoining halves stay
  within twice the limit; `Winding` orders prober, requests and exit;
* vault, keychain: what a call holds, whose check read it, is its sender's, and
  its value is or was the secret's (`Rightful`, `Mine`). This is the check that
  `IsolateTenant` makes in a query before: it stays true because an owner never
  changes;
* workspace: while a request is calm, the hosts there are what it wants less
  what it has to add, and what it has to drop (`Exact`);
* health: each name is waiting, in one goroutine or in the results, and
  in one of them only, and who appends holds the slice as it is (`Covered`);
* migrations: who is past taking the lock and before releasing it holds it, and
  knows how far the migration that made the version dirty is (`Progress`); a
  clean version is what has taken effect;
* config, user, host, snippet, sftp, recording, collaboration, audit: what is
  promised is inductive with the types.

`DeletedStay`, `UsesGrowAlways` and `RecordsStanding` are action properties: for
each service a lemma (`...Stays`) says of one of its steps what it leaves alone,
given the invariant, and `Inv` and `[Next]` give it for all. `RecordsStanding`
needs an invariant of its own for the notifications (`RowInv`): a row's id is no
other's and of no row that is still to be inserted. A CA's counter is raised in
a row chosen by its id, so that a deleted CA stays as it was rests on one row
per id (`CaInv`); that a chunk's number is not given again, on the numbers that
calls hold being at or below the recording's (`Numbered`).

`StatisticsAgree` is about sums: the totals of an audit list, which the code
adds up by action and by resource type, are the number of its rows. The sums are
folds, that is, recursive functions on the finite subsets of a set. The
library's induction theorems cannot be instantiated here, so the induction is
written out, as a least counterexample: proper inclusion of the subsets of a
finite set is well-founded (`FS_StrictSubsetOrderingWellFounded`), so the sets
for which a fact fails would have a least one (`WFMin`), and taking one element
out of it contradicts that. In this way `InsideRows_proofs` shows that two
functions that satisfy the recursion agree on the whole set (`WalksAgree`). One
that does is known, the number of rows whose key is in a subset, so the sum of
the counts by a key is the number of rows (`SumOfCounts`).

Only model-checked, for the instances named in 4:

* the liveness properties (`RequestsReturn`, `BridgesEnd`, `GatewayGoesOn`):
  fairness and ENABLED are out of the prover's reach;
* the properties that are violated, of course.

## 6. Findings

The first five have a run that produces the trace.

* **A second Start marks a live tunnel as failed** (`PortForward_status`):
  `port-forward-service/internal/handler/handler.go:273` writes `error` for every
  failure of `Manager.Start`, `ErrAlreadyRunning` included. The same property
  also fails after a restart (rows stay `active`) and after an `UpdateForward`
  that sets the status.
* **A Delete can miss a tunnel that is being started** (`PortForward_delete`):
  the map is consulted before the Start that read the row has inserted.
* **One MFA challenge can yield two sessions** (`AuthSession_challenge`):
  `consume` does not say whether it removed anything.
* **A session can forget the token its client presents** (`AuthSession_refresh`):
  overlapping refreshes rebind in one order and answer in the other.
* **A bridge's teardown can panic the process** (`SshBridge_panic`): `resizeCh`
  is closed by the manager and sent on by `WSToSSHProxy`.

Met while the other services were modelled, with no run of their own; the
modules have the behaviour as it is, and their properties are stated so that
they hold with it (`PROJECT.json` quotes the lines):

* container-bridge: a delete that cannot read the row or reach the runtime
  (`handler.go:349`) deletes the row, leaves the container running and logs
  nothing, although the comment above it says that such an orphan must be
  discoverable in the logs; a reconcile writes back the name, image and ports it
  read and so undoes a concurrent update.
* billing: a PUT with status canceled changes the row alone; a late webhook makes
  a canceled row active again.
* gateway: the limiter, called a token bucket, has fixed windows.
* org: an organisation's count is one too high; a failed owner's membership
  leaves an organisation without an owner and its slug taken.
* vault: of two overlapping rotations the first one's value is lost.
* notification: a message that was accepted and could not be recorded is answered
  as an error, and a retry delivers it again.
* config: a global key can exist twice; the "in-memory mode" does not exist.
* workspace: a filtered list is an SQL syntax error.
* user: a PUT with bio, timezone or locale fails; a deleted user's address is
  reported free and cannot be registered.
* snippet: a PUT without `isPublic` fails.
* collaboration: joining changes nothing and is answered as success; leaving is
  always refused.
* helixtrack-bridge: a PUT may set active without a login.
* terminal: an update can undo a close.

Smaller things, for a reader of the code:
`port-forward-service/internal/model/model.go:62` allows `LocalPort` 0, the
schema's check requires a positive port; keychain's organisation id is stored
from a header and compared by nothing; output of a session that is not recorded
gets the sequence number 0 each time, and a recording can be started on a closed
session; the file of an older take can be written after a newer one's and
replace it; a container whose create was cut off by the end of the process is
told of by nothing but the client's broken connection; a replica whose migration
failed serves 503 until it is restarted, and an older release cannot start on a
newer schema; a health request that names a service twice reports it twice (the
model takes sets of names).

## 7. What is not modelled

* In `PortForward`, `AuthSession` and `SshBridge`: the contents of connections,
  terminals and tokens; passwords and codes (right or wrong); expiry of access
  and refresh tokens; read-only handlers and metrics; the rows of ssh-proxy
  sessions, which no code inserts for a bridge; WebSocket ping and close frames
  as message types, which the library handles before `ReadMessage` returns; the
  SOCKS5 handshake, bytes parsed inside one connection handler.
* The end of the gateway's limiters: nothing stops their goroutines, whose ticks
  are all the model has of them. The participants of a collaboration session,
  which `CreateSession` leaves NULL for good.
* What overlapping updates do to one another where the code promises nothing:
  `ReplacingIsExact` leaves out two replacements of one host list,
  `ValuesAreKept` the value of a rotation that another overlapped,
  `AccountsAreSound` the failed logins a stale row takes back. The models have
  these steps as they are.
* `SshBridge` registers after `CloseAll` too: such a bridge ends with the
  process.
* A client of auth-service presents the token it received last; one that keeps
  an older token is outside `PresentedTokenRecognised`.
* Deployments without a database, in all services: handlers answer 503 or an
  empty list.
* Reads of one statement, health and readiness probes, request ids, logging,
  CORS and metrics, which change nothing and decide nothing the models have.
* Repository methods that nothing calls: invoices and usage of billing,
  connection logs and status of hosts, recordings of terminals, the last login
  of a user, the late response of ai-service. The gateway's `circuitBreaker`
  is never put in front of a proxy.
* Cryptography and formats: argon2id, Ed25519, TOTP, X.509, AES-GCM (a sealed
  text opens under its own key and fails under another), JWT signing, mail and
  Slack bodies, JSON; the guard of webhook destinations, a pure predicate on
  addresses.
* The other services' copies of `migrations/`: the same file over fewer
  migrations. The SQL of the migrations, but for the keys, triggers, defaults
  and foreign keys that are folded into the actions.
* Test utilities, the Flutter client, infrastructure, scripts and documents.

## 8. Running

    tlc -workers 2 -config PortForward_safety.cfg MCPortForward
    tlapm PortForward_proofs.tla

Each `.cfg` is named after its run, and each run uses the `MC` module of its
component. The safety runs take from half a minute to three minutes each.
