SPECIFICATION Spec
CONSTANTS
  f1 = f1
  h1 = h1
  p1 = p1
  Forwards = {f1}
  Tunnels = {t1, t2}
  Requests = {r1, r2}
  Hosts = {h1}
  Ports = {p1}
  TypeChoices <- AnyType
  SshHost <- OneHost
  PortChoices <- OnePort
  Envs <- AllEnvs
  StatusChoices = {"active"}
  MaxConns = 1
  MaxRestarts = 1
  NoTunnel = NoTunnel
  NoForward = NoForward
  NoPort = NoPort
  ThisHost = ThisHost
SYMMETRY Symmetric
INVARIANTS
  TypeOK
  MapHoldsLiveTunnels
  OneOwner
  NoOrphanListener
  LiveTunnelsAuthorized
PROPERTIES
  DeletedForever
  TunnelsKeepPromise
CHECK_DEADLOCK FALSE
