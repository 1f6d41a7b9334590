SPECIFICATION FairSpec
CONSTANTS
  f1 = f1
  h1 = h1
  p1 = p1
  Forwards = {f1}
  Tunnels = {t1}
  Requests = {r1, r2}
  Hosts = {h1}
  Ports = {p1}
  TypeChoices <- AnyType
  SshHost <- OneHost
  PortChoices <- OnePort
  Envs <- OneEnv
  StatusChoices = {}
  MaxConns = 2
  MaxRestarts = 0
  NoTunnel = NoTunnel
  NoForward = NoForward
  NoPort = NoPort
  ThisHost = ThisHost
PROPERTY
  RequestsReturn
CHECK_DEADLOCK FALSE
