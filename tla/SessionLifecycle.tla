-------------------------- MODULE SessionLifecycle --------------------------
(***************************************************************************)
(* What auth-service promises of every session, with the requests, the     *)
(* accounts' locks and the second factor forgotten: a session belongs to   *)
(* whoever opened it, recognises a token minted for it, and once ended is  *)
(* neither revived nor rebound (repository.go, the comment on              *)
(* UpdateSessionAccessTokenHash).                                          *)
(***************************************************************************)
EXTENDS Naturals

CONSTANTS Sessions, Users, NoUser

VARIABLES
  owner,    \* whose session it is; NoUser: there is none yet
  ended,    \* logged out
  issued,   \* access tokens minted for it, numbered from 1
  bound,    \* the one it recognises
  given     \* the one its client received last; 0: none

vars == <<owner, ended, issued, bound, given>>

Init ==
  /\ owner = [s \in Sessions |-> NoUser]
  /\ ended = [s \in Sessions |-> FALSE]
  /\ issued = [s \in Sessions |-> 0]
  /\ bound = [s \in Sessions |-> 0]
  /\ given = [s \in Sessions |-> 0]

Exists(s) == owner[s] # NoUser

Open(s, u) ==
  /\ ~Exists(s)
  /\ owner' = [owner EXCEPT ![s] = u]
  /\ issued' = [issued EXCEPT ![s] = 1]
  /\ bound' = [bound EXCEPT ![s] = 1]
  /\ UNCHANGED <<ended, given>>

\* A refresh mints before it looks whether the session is still there.
Mint(s) ==
  /\ Exists(s)
  /\ issued' = [issued EXCEPT ![s] = @ + 1]
  /\ UNCHANGED <<owner, ended, bound, given>>

Bind(s, n) ==
  /\ Exists(s) /\ ~ended[s]
  /\ n \in 1 .. issued[s]
  /\ bound' = [bound EXCEPT ![s] = n]
  /\ UNCHANGED <<owner, ended, issued, given>>

\* Answers overtake each other: the client may receive an older token last.
Deliver(s, n) ==
  /\ Exists(s)
  /\ n \in 1 .. issued[s]
  /\ given' = [given EXCEPT ![s] = n]
  /\ UNCHANGED <<owner, ended, issued, bound>>

\* A logout ends one session, or every session its user has.
End(S) ==
  /\ \A s \in S : Exists(s)
  /\ \A s, t \in S : owner[s] = owner[t]
  /\ ended' = [s \in Sessions |-> ended[s] \/ s \in S]
  /\ UNCHANGED <<owner, issued, bound, given>>

Next ==
  \/ \E s \in Sessions, u \in Users : Open(s, u)
  \/ \E s \in Sessions : Mint(s)
  \/ \E s \in Sessions : \E n \in 1 .. issued[s] : Bind(s, n) \/ Deliver(s, n)
  \/ \E S \in SUBSET Sessions : End(S)

Spec == Init /\ [][Next]_vars
=============================================================================
