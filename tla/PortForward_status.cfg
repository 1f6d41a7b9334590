SPECIFICATION Spec
CONSTANTS
  f1 = f1
  h1 = h1
  p1 = p1
  Forwards = {f1}
  Tunnels = {t1, t2}
  Requests = {r1}
  Hosts = {h1}
  Ports = {p1}
  TypeChoices <- OnlyLocal
  SshHost <- OneHost
  PortChoices <- OnePort
  Envs <- OneEnv
  StatusChoices = {}
  MaxConns = 1
  MaxRestarts = 0
  NoTunnel = NoTunnel
  NoForward = NoForward
  NoPort = NoPort
  ThisHost = ThisHost
INVARIANT
  SettledStatusIsReal
CHECK_DEADLOCK FALSE
