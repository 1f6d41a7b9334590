--------------------------- MODULE MCAuthSession ---------------------------
(* Instances of AuthSession for TLC. *)
EXTENDS AuthSession, TLC

CONSTANTS u1, u2, e1

\* Two registrations for one address, and an account on its own.
SameEmail == (u1 :> e1) @@ (u2 :> e1)
OneUser == (u1 :> e1)

Symmetric ==
  Permutations(Sessions) \cup Permutations(Challenges) \cup Permutations(Requests)
    \cup Permutations(Users)
============================================================================
