---------------------------- MODULE MCSshBridge ----------------------------
(* Instances of SshBridge for TLC. *)
EXTENDS SshBridge, TLC

CONSTANTS b1, b2, i1, i2

\* Session ids are made up by clients: two bridges may come with one id or two.
AnyIds == (b1 :> {i1, i2}) @@ (b2 :> {i1, i2})

\* The same up to the names of the ids.
SameIdOrNot == (b1 :> {i1}) @@ (b2 :> {i1, i2})

\* One bridge on its own.
AnyId == (b1 :> {i1, i2})

Symmetric == Permutations(Bridges) \cup Permutations(Ids)

\* A bound: b1 is sent window sizes and keystrokes while it is alone, and
\* keystrokes beside b2, which comes when no size of b1 is under way and through
\* which nothing goes either way.
Bounded ==
  pc[b2] # "idle" =>
    /\ input[b1] # "send" /\ sizes[b1] = 0
    /\ input[b2] \notin {"send", "write"} /\ output[b2] # "write"

\* Only the goroutines of b1 are promised to be scheduled: b2 owes it nothing.
FairToOne == Init /\ [][Next /\ Bounded']_vars /\ FairTo(b1)

\* A bridge comes to its end, alone or beside another one that was registered
\* before it or after, under its session id or under one of its own; see Ends.
\* Bridges are alike, so b1 stands for all.
BridgesEnd == Ends(b1)
============================================================================
