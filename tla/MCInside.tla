------------------------------ MODULE MCInside ------------------------------
(* No service of Inside shares a table with another, so TLC explores their   *)
(* sum instead of their product, as in MCOutside: a behaviour belongs to one  *)
(* service, and the others stay as they started.                              *)
EXTENDS Inside

VARIABLES
  service           \* whose behaviour this is

MCInit ==
  /\ Init
  /\ service \in
       {"gateway", "vault", "keychain", "config", "workspace", "user",
        "host", "snippet", "sftp", "recording", "collaboration", "audit",
        "analytics", "health", "migrations"}
  \* Only the service whose behaviour this is starts in more than one state.
  /\ service # "keychain" => encKey = CHOOSE e \in EncKeys : TRUE
  /\ service # "gateway" => \A u \in Upstreams : upstreamUp[u]

MCNext ==
  /\ UNCHANGED service
  /\ \/ service = "gateway" /\ GatewayNext
     \/ service = "vault" /\ VaultNext
     \/ service = "keychain" /\ KeychainNext
     \/ service = "config" /\ ConfigNext
     \/ service = "workspace" /\ WorkspaceNext
     \/ service = "user" /\ UserNext
     \/ service = "host" /\ HostNext
     \/ service = "snippet" /\ SnippetNext
     \/ service = "sftp" /\ TransfersNext
     \/ service = "recording" /\ RecordingNext
     \/ service = "collaboration" /\ CollaborationNext
     \/ service = "audit" /\ AuditNext
     \/ service = "analytics" /\ AnalyticsNext
     \/ service = "health" /\ HealthNext
     \/ service = "migrations" /\ MigrateNext

\* The scheduler and the ticker serve the gateway's goroutines; see the module.
MCFairness == service = "gateway" => Gate!Fairness

MCSpec == MCInit /\ [][MCNext]_<<vars, service>> /\ MCFairness

-----------------------------------------------------------------------------

\* gateway-service: an upstream that stays up is found healthy again, one that
\* stays down unhealthy; a signal leads to the end of the process.
GatewayGoesOn ==
  service = "gateway" => Gate!HealthConverges /\ Gate!SignalLeadsToExit
=============================================================================
