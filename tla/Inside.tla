------------------------------- MODULE Inside -------------------------------
(* The gateway, the health checks, the start of a replica, and the services   *)
(* that change nothing but their own rows.  They run side by side; no two     *)
(* share a table, and the one that calls others, the gateway, waits for their *)
(* answer and no more: a step of all of them is a step of one.                *)
EXTENDS Integers, FiniteSets

CONSTANTS
  Calls,                             \* slots for requests, of each service
  RowIds,                            \* ids of the rows of a table
  Users,
  Nobody,                            \* the zero uuid: a token without a user
  Texts,                             \* values of a column
  Clients, Upstreams, IpLimit, EndpointLimit,       \* gateway-service
  SecretIds, Values,                 \* vault-service
  ItemIds, EncKeys,                  \* keychain-service
  Owners, Keys, Global,              \* config-service
  WorkspaceIds, WorkspaceUsers, Hosts,              \* workspace-service
  Emails,                            \* user-service
  HostIds, HostUsers,                \* host-service
  SnippetIds, MaxUses,               \* snippet-service
  MaxBytes,                          \* sftp-service
  MaxSize,                           \* recording-service
  Null,                              \* collaboration-service
  AuditedOrgs, Actions, Types,       \* audit-service
  AnalysedOrgs, EventTypes, Unset,   \* analytics-service
  Checks, Endpoints, Unknown,        \* health-service: slots and names
  Replicas, Releases                 \* the start of a replica

\* Limits are numbers, a table has room for finitely many rows and a column of
\* 50 characters for finitely many values; no user has the zero uuid, the
\* default of a key is no owner's, and nobody is called "free"; of the releases that may meet over one database
\* one is the newest.
ASSUME InsideAssumption ==
  /\ IpLimit \in Nat /\ EndpointLimit \in Nat
  /\ MaxUses \in Nat /\ MaxBytes \in Nat /\ MaxSize \in Nat
  /\ IsFiniteSet(RowIds) /\ IsFiniteSet(Actions) /\ IsFiniteSet(Types)
  /\ Nobody \notin Users
  /\ Global \notin Owners
  /\ "free" \notin Replicas
  /\ Releases \subseteq Nat
  /\ \E newest \in Releases : \A v \in Releases : v <= newest

VARIABLES
  ipHits, endpointHits, half, burst, upstreamUp, healthy, prober, probed,
  proxyCall, gateway,
  secrets, versions, vaultCall, had,
  items, encKey, chainCall, kept,
  configs, configCall,
  workspaces, members, wsCall,
  users, profiles, userCall,
  hosts, hostCall,
  snippets, gone, snippetCall,
  transfers, removed, transferCall,
  recordings, dropped, recordingCall,
  sessions, collabCall,
  logs, auditCall,
  events, analyticsCall,
  healthCall,
  schema, version, dirty, lock, replica, applied

Gate == INSTANCE Gateway
Secrets == INSTANCE Vault WITH RowIds <- SecretIds
Chain == INSTANCE Keychain WITH RowIds <- ItemIds
Conf == INSTANCE Config
Space == INSTANCE Workspace
           WITH RowIds <- WorkspaceIds, Users <- WorkspaceUsers, Names <- Texts
People == INSTANCE User
Catalog == INSTANCE Host WITH RowIds <- HostIds, Users <- HostUsers
Snip == INSTANCE Snippet WITH RowIds <- SnippetIds
Sftp == INSTANCE Transfers
Rec == INSTANCE Recording
Collab == INSTANCE Collaboration
Trail == INSTANCE Audit WITH Orgs <- AuditedOrgs
Stats == INSTANCE Analytics WITH Orgs <- AnalysedOrgs
Health == INSTANCE HealthCheck WITH Calls <- Checks
Schema == INSTANCE Migrate

gatewayVars ==
  <<ipHits, endpointHits, half, burst, upstreamUp, healthy, prober, probed,
    proxyCall, gateway>>
vaultVars == <<secrets, versions, vaultCall, had>>
keychainVars == <<items, encKey, chainCall, kept>>
configVars == <<configs, configCall>>
workspaceVars == <<workspaces, members, wsCall>>
userVars == <<users, profiles, userCall>>
hostVars == <<hosts, hostCall>>
snippetVars == <<snippets, gone, snippetCall>>
transferVars == <<transfers, removed, transferCall>>
recordingVars == <<recordings, dropped, recordingCall>>
collabVars == <<sessions, collabCall>>
auditVars == <<logs, auditCall>>
analyticsVars == <<events, analyticsCall>>
healthVars == <<healthCall>>
migrateVars == <<schema, version, dirty, lock, replica, applied>>

vars ==
  <<gatewayVars, vaultVars, keychainVars, configVars, workspaceVars, userVars,
    hostVars, snippetVars, transferVars, recordingVars, collabVars, auditVars,
    analyticsVars, healthVars, migrateVars>>

-----------------------------------------------------------------------------

Init ==
  /\ Gate!Init /\ Secrets!Init /\ Chain!Init /\ Conf!Init /\ Space!Init
  /\ People!Init /\ Catalog!Init /\ Snip!Init /\ Sftp!Init /\ Rec!Init
  /\ Collab!Init /\ Trail!Init /\ Stats!Init /\ Health!Init /\ Schema!Init

GatewayNext ==
  /\ Gate!Next
  /\ UNCHANGED <<vaultVars, keychainVars, configVars, workspaceVars,
                 userVars, hostVars, snippetVars, transferVars,
                 recordingVars, collabVars, auditVars, analyticsVars,
                 healthVars, migrateVars>>

VaultNext ==
  /\ Secrets!Next
  /\ UNCHANGED <<gatewayVars, keychainVars, configVars, workspaceVars,
                 userVars, hostVars, snippetVars, transferVars,
                 recordingVars, collabVars, auditVars, analyticsVars,
                 healthVars, migrateVars>>

KeychainNext ==
  /\ Chain!Next
  /\ UNCHANGED <<gatewayVars, vaultVars, configVars, workspaceVars,
                 userVars, hostVars, snippetVars, transferVars,
                 recordingVars, collabVars, auditVars, analyticsVars,
                 healthVars, migrateVars>>

ConfigNext ==
  /\ Conf!Next
  /\ UNCHANGED <<gatewayVars, vaultVars, keychainVars, workspaceVars,
                 userVars, hostVars, snippetVars, transferVars,
                 recordingVars, collabVars, auditVars, analyticsVars,
                 healthVars, migrateVars>>

WorkspaceNext ==
  /\ Space!Next
  /\ UNCHANGED <<gatewayVars, vaultVars, keychainVars, configVars, userVars,
                 hostVars, snippetVars, transferVars, recordingVars,
                 collabVars, auditVars, analyticsVars, healthVars,
                 migrateVars>>

UserNext ==
  /\ People!Next
  /\ UNCHANGED <<gatewayVars, vaultVars, keychainVars, configVars,
                 workspaceVars, hostVars, snippetVars, transferVars,
                 recordingVars, collabVars, auditVars, analyticsVars,
                 healthVars, migrateVars>>

HostNext ==
  /\ Catalog!Next
  /\ UNCHANGED <<gatewayVars, vaultVars, keychainVars, configVars,
                 workspaceVars, userVars, snippetVars, transferVars,
                 recordingVars, collabVars, auditVars, analyticsVars,
                 healthVars, migrateVars>>

SnippetNext ==
  /\ Snip!Next
  /\ UNCHANGED <<gatewayVars, vaultVars, keychainVars, configVars,
                 workspaceVars, userVars, hostVars, transferVars,
                 recordingVars, collabVars, auditVars, analyticsVars,
                 healthVars, migrateVars>>

TransfersNext ==
  /\ Sftp!Next
  /\ UNCHANGED <<gatewayVars, vaultVars, keychainVars, configVars,
                 workspaceVars, userVars, hostVars, snippetVars,
                 recordingVars, collabVars, auditVars, analyticsVars,
                 healthVars, migrateVars>>

RecordingNext ==
  /\ Rec!Next
  /\ UNCHANGED <<gatewayVars, vaultVars, keychainVars, configVars,
                 workspaceVars, userVars, hostVars, snippetVars,
                 transferVars, collabVars, auditVars, analyticsVars,
                 healthVars, migrateVars>>

CollaborationNext ==
  /\ Collab!Next
  /\ UNCHANGED <<gatewayVars, vaultVars, keychainVars, configVars,
                 workspaceVars, userVars, hostVars, snippetVars,
                 transferVars, recordingVars, auditVars, analyticsVars,
                 healthVars, migrateVars>>

AuditNext ==
  /\ Trail!Next
  /\ UNCHANGED <<gatewayVars, vaultVars, keychainVars, configVars,
                 workspaceVars, userVars, hostVars, snippetVars,
                 transferVars, recordingVars, collabVars, analyticsVars,
                 healthVars, migrateVars>>

AnalyticsNext ==
  /\ Stats!Next
  /\ UNCHANGED <<gatewayVars, vaultVars, keychainVars, configVars,
                 workspaceVars, userVars, hostVars, snippetVars,
                 transferVars, recordingVars, collabVars, auditVars,
                 healthVars, migrateVars>>

HealthNext ==
  /\ Health!Next
  /\ UNCHANGED <<gatewayVars, vaultVars, keychainVars, configVars,
                 workspaceVars, userVars, hostVars, snippetVars,
                 transferVars, recordingVars, collabVars, auditVars,
                 analyticsVars, migrateVars>>

MigrateNext ==
  /\ Schema!Next
  /\ UNCHANGED <<gatewayVars, vaultVars, keychainVars, configVars,
                 workspaceVars, userVars, hostVars, snippetVars,
                 transferVars, recordingVars, collabVars, auditVars,
                 analyticsVars, healthVars>>

Next ==
  \/ GatewayNext
  \/ VaultNext
  \/ KeychainNext
  \/ ConfigNext
  \/ WorkspaceNext
  \/ UserNext
  \/ HostNext
  \/ SnippetNext
  \/ TransfersNext
  \/ RecordingNext
  \/ CollaborationNext
  \/ AuditNext
  \/ AnalyticsNext
  \/ HealthNext
  \/ MigrateNext

Spec == Init /\ [][Next]_vars

-----------------------------------------------------------------------------

\* The types of all these services.
TypeOK ==
  /\ Gate!TypeOK /\ Secrets!TypeOK /\ Chain!TypeOK /\ Conf!TypeOK
  /\ Space!TypeOK /\ People!TypeOK /\ Catalog!TypeOK /\ Snip!TypeOK
  /\ Sftp!TypeOK /\ Rec!TypeOK /\ Collab!TypeOK /\ Trail!TypeOK
  /\ Stats!TypeOK /\ Health!TypeOK /\ Schema!TypeOK

\* gateway-service: a client gets through no more than twice its limit in two
\* halves of a window.
BurstsAreBounded == Gate!BurstsAreBounded

\* gateway-service: when main returns the prober and its probes have ended and
\* no request is left.
ExitLeavesNothing == Gate!ExitLeavesNothing

\* vault-service, keychain-service: a request whose owner was checked is given,
\* and changes, what belongs to its sender only.  The code leaves three unchecked:
\* where vault's read of the secret failed, the versions a deleted secret has
\* left, and a caller without an id.
TenantsStayApart == Secrets!TenantsStayApart /\ Chain!OwnersStayApart

\* vault-service: a stored version is a value the secret had; keychain-service:
\* an update never touches a private key.
ValuesAreKept == Secrets!SnapshotsWereValues /\ Chain!PrivateKeysAreKept

\* config-service, user-service, sftp-service, recording-service: what each
\* table promises of its rows, whatever requests overlap.
RowsAreConsistent ==
  /\ Conf!KeysHaveOneValue /\ People!EmailsAreUnique
  /\ Sftp!CompletionFollowsStatus /\ Rec!DeletedRecordingsStay

\* workspace-service: an update that nothing disturbed leaves the hosts it was
\* given.
ReplacingIsExact == Space!ReplacingIsExact

\* A request that read a row before it was deleted does not bring it back.
DeletedRowsStay ==
  /\ Secrets!DeletedSecretsStay /\ Chain!DeletedItemsStay
  /\ Conf!DeletedConfigsStay /\ Space!DeletedWorkspacesStay
  /\ People!DeletedUsersStay /\ Catalog!DeletedHostsStay
  /\ Collab!EndedSessionsStay

\* snippet-service: the number of uses never falls.
UsesNeverFall == Snip!UsesNeverFall

\* health-service, analytics-service: a report covers all it was asked about,
\* and a total is never ahead of the rows.
ReportsAreTrue == Health!ReportsAreWhole /\ Stats!TotalsNeverAhead

\* audit-service: the two statistics add up to the same, and to what a list
\* answers or more.
StatisticsAddUp == Trail!TotalsNeverAhead

\* Every service's start, on the example of notification-service's three
\* migrations: a replica that serves has the schema its release needs.
SchemasAreWhole == Schema!SchemasAreWhole /\ Schema!MigrationsAreInOrder
=============================================================================
