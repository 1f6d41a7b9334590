SPECIFICATION MCSpec
CONSTANTS
  Calls = {k1, k2}
  RowIds = {r1, r2}
  Users = {u1, u2}
  Nobody = nobody
  Texts = {"t1", "t2"}
  Clients = {"i1"}
  Upstreams = {"up1"}
  IpLimit = 2
  EndpointLimit = 1
  SecretIds = {"s1"}
  Values = {"v1", "v2"}
  ItemIds = {"i1"}
  EncKeys = {"e1", "e2"}
  Owners = {"o1"}
  Keys = {"key1", "key2"}
  Global = "global"
  WorkspaceIds = {"w1"}
  WorkspaceUsers = {"u1"}
  Hosts = {"h1", "h2"}
  Emails = {"m1"}
  HostIds = {"h1"}
  HostUsers = {"u1"}
  SnippetIds = {"p1"}
  MaxUses = 3
  MaxBytes = 1
  MaxSize = 1
  Null = "null"
  AuditedOrgs = {"o1", "o2"}
  Actions = {"a1", "a2"}
  Types = {"t1"}
  AnalysedOrgs = {"o1"}
  EventTypes = {"t1", "t2"}
  Unset = "unset"
  Checks = {k1}
  Endpoints = {"s1", "s2"}
  Unknown = "s3"
  Replicas = {k1, k2}
  Releases = {2, 3}
INVARIANTS
  TypeOK
  BurstsAreBounded
  ExitLeavesNothing
  TenantsStayApart
  ValuesAreKept
  RowsAreConsistent
  ReplacingIsExact
  ReportsAreTrue
  StatisticsAddUp
  SchemasAreWhole
PROPERTIES
  GatewayGoesOn
  DeletedRowsStay
  UsesNeverFall
CHECK_DEADLOCK FALSE
