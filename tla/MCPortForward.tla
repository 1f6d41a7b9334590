--------------------------- MODULE MCPortForward ---------------------------
(* Instances of PortForward for TLC. *)
EXTENDS PortForward, TLC

CONSTANTS f1, h1, p1

\* One forward of any type; its clients always ask for the same port.
AnyType == (f1 :> ForwardTypes)
OnlyLocal == (f1 :> {"local"})
OneHost == (f1 :> h1)
OnePort == (f1 :> {p1})

\* The service is started with every high-risk type denied, or with remote
\* and dynamic forwards allowed for the hosts of the list, or to no host of
\* this model.
DenyAll == [remote |-> FALSE, dynamic |-> FALSE, hosts |-> {}]
AllowAny == [remote |-> TRUE, dynamic |-> TRUE, hosts |-> {}]
AllowH1 == [remote |-> TRUE, dynamic |-> FALSE, hosts |-> {h1}]
AllEnvs == {DenyAll, AllowAny, AllowH1}
OneEnv == {AllowAny}

Symmetric == Permutations(Tunnels) \cup Permutations(Requests)
============================================================================
