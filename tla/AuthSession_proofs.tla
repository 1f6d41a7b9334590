------------------------- MODULE AuthSession_proofs -------------------------
(***************************************************************************)
(* Proofs about AuthSession for any number of accounts, sessions,          *)
(* challenges, requests and tokens, and for any lock threshold.            *)
(***************************************************************************)
EXTENDS AuthSession, TLAPS

USE DEF userVars, sessVars, chalVars, rowVars, reqVars, tokenVars, vars

-----------------------------------------------------------------------------
(* The inductive invariant *)

\* A request past its first step has a user, or a session, to work on.
Shape ==
  \A r \in Requests :
    /\ pc[r] \in {"create", "count", "reset", "challenge", "session", "code",
                  "consume", "read", "save", "revokeall"} => rUser[r] \in Users
    /\ pc[r] \in {"rebind", "reply", "revoke"} => rSess[r] \in Sessions

\* Every challenge in the store belongs to somebody.
Issued == \A c \in live : chUser[c] \in Users

\* The two login columns a request has read agree with each other, as those of
\* every row do.
Snapshots ==
  \A r \in Requests : rFailed[r] >= MaxAttempts <=> rLock[r] # NotLocked

\* Only a session that exists is revoked.
Revocable == \A s \in Sessions : revoked[s] => sUser[s] # NoUser

IInv ==
  /\ TypeOK /\ Shape /\ Issued /\ Snapshots /\ Revocable
  /\ LockMatchesCount /\ OneAccountPerEmail

\* The initial state satisfies the invariant.
LEMMA Start == Init => IInv
  BY AuthAssumption
  DEF Init, IInv, TypeOK, PCs, Shape, Issued, Snapshots, Revocable,
      LockMatchesCount, OneAccountPerEmail, NotLocked, NoToken

\* The invariant is inductive: one step for each action.
LEMMA Step == IInv /\ [Next]_vars => IInv'
<1> SUFFICES ASSUME IInv, [Next]_vars PROVE IInv'
  OBVIOUS
<1> USE AuthAssumption
<1> USE DEF IInv, TypeOK, PCs, Shape, Issued, Snapshots, Revocable,
           LockMatchesCount, OneAccountPerEmail, NotLocked, NoToken
<1>1. ASSUME NEW r \in Requests, NEW u \in Users, Register(r, u)
      PROVE  IInv'
  BY <1>1 DEF Register, Goto
<1>2. ASSUME NEW r \in Requests, NEW u \in Users, Login(r, u)
      PROVE  IInv'
  BY <1>2 DEF Login, Goto, ReadRow
<1>3. ASSUME NEW r \in Requests, CreateUser(r)
      PROVE  IInv'
  BY <1>3 DEF CreateUser, Goto, EmailTaken
<1>4. ASSUME NEW r \in Requests, CountFailure(r)
      PROVE  IInv'
  BY <1>4 DEF CountFailure, Return
<1>5. ASSUME NEW r \in Requests, ResetFailures(r)
      PROVE  IInv'
  <2>1. PICK label \in {"challenge", "session"} : pc' = [pc EXCEPT ![r] = label]
    BY <1>5 DEF ResetFailures, Goto
  <2>2. CASE UNCHANGED <<failed, lockedUntil>>
    BY <1>5, <2>1, <2>2 DEF ResetFailures
  <2>3. CASE /\ failed' = [failed EXCEPT ![rUser[r]] = 0]
             /\ lockedUntil' = [lockedUntil EXCEPT ![rUser[r]] = NotLocked]
    BY <1>5, <2>1, <2>3 DEF ResetFailures
  <2> QED
    BY <1>5, <2>2, <2>3 DEF ResetFailures
<1>6. ASSUME NEW r \in Requests, NEW s \in Sessions, CreateSession(r, s)
      PROVE  IInv'
  BY <1>6 DEF CreateSession, Goto
<1>7. ASSUME NEW r \in Requests, NEW c \in Challenges, CreateChallenge(r, c)
      PROVE  IInv'
  BY <1>7 DEF CreateChallenge, Return
<1>8. ASSUME NEW r \in Requests, NEW c \in Challenges, VerifyMFA(r, c)
      PROVE  IInv'
  <2>1. CASE now > chExp[c]
    BY <1>8, <2>1 DEF VerifyMFA
  <2>2. CASE ~(now > chExp[c])
    BY <1>8, <2>2 DEF VerifyMFA, Goto
  <2> QED
    BY <2>1, <2>2
<1>9. ASSUME NEW r \in Requests, CheckCode(r)
      PROVE  IInv'
  BY <1>9 DEF CheckCode, Goto
<1>10. ASSUME NEW r \in Requests, Consume(r)
      PROVE  IInv'
  BY <1>10 DEF Consume, Goto
<1>11. ASSUME NEW r \in Requests, NEW s \in Sessions, SetupMFA(r, s)
      PROVE  IInv'
  BY <1>11 DEF SetupMFA, Recognised, Goto
<1>12. ASSUME NEW r \in Requests, NEW s \in Sessions, RefreshToken(r, s)
      PROVE  IInv'
  BY <1>12 DEF RefreshToken, Goto
<1>13. ASSUME NEW r \in Requests, ReadUser(r)
      PROVE  IInv'
  BY <1>13 DEF ReadUser, ReadRow, Goto
<1>14. ASSUME NEW r \in Requests, UpdateUser(r)
      PROVE  IInv'
  BY <1>14 DEF UpdateUser, Return
<1>15. ASSUME NEW r \in Requests, Rebind(r)
      PROVE  IInv'
  BY <1>15 DEF Rebind, Goto
<1>16. ASSUME NEW r \in Requests, Reply(r)
      PROVE  IInv'
  BY <1>16 DEF Reply, Return
<1>17. ASSUME NEW r \in Requests, NEW s \in Sessions, NEW t \in Sessions,
               Logout(r, s, t)
      PROVE  IInv'
  <2>1. CASE pc' = [pc EXCEPT ![r] = "revoke"]
    BY <1>17, <2>1 DEF Logout, Goto
  <2>2. CASE pc' = [pc EXCEPT ![r] = "revokeall"]
    BY <1>17, <2>2 DEF Logout, Recognised, Goto
  <2> QED
    BY <1>17, <2>1, <2>2 DEF Logout, Goto
<1>18. ASSUME NEW r \in Requests, RevokeSession(r)
      PROVE  IInv'
  BY <1>18 DEF RevokeSession, Return
<1>19. ASSUME NEW r \in Requests, RevokeAllUserSessions(r)
      PROVE  IInv'
  BY <1>19 DEF RevokeAllUserSessions, Return
<1>20. ASSUME NEW r \in Requests, GiveUp(r)
      PROVE  IInv'
  BY <1>20 DEF GiveUp, Return
<1>21. ASSUME Tick
      PROVE  IInv'
  BY <1>21 DEF Tick
<1>22. ASSUME Restart
      PROVE  IInv'
  BY <1>22 DEF Restart
<1>23. ASSUME NEW r \in Requests, LoseReply(r)
      PROVE  IInv'
  BY <1>23 DEF LoseReply, Return
<1>24. CASE UNCHANGED vars
  BY <1>24
<1> QED
  BY <1>1, <1>2, <1>3, <1>4, <1>5, <1>6, <1>7, <1>8, <1>9, <1>10, <1>11, <1>12,
     <1>13, <1>14, <1>15, <1>16, <1>17, <1>18, <1>19, <1>20, <1>21, <1>22, <1>23, <1>24
  DEF Next

-----------------------------------------------------------------------------
(* Theorems *)

\* The strengthened invariant holds in every reachable state.
LEMMA Invariance == Spec => []IInv
  BY Start, Step, PTL DEF Spec

\* Every variable of the auth service keeps its type.
THEOREM TypeCorrect == Spec => []TypeOK
  BY Invariance, PTL DEF IInv

\* failed_login_attempts and locked_until agree in every row, whatever logins and
\* MFA set-ups run at once; and however many registrations race for an address,
\* it has one account.
THEOREM AccountsSound == Spec => []AccountsAreSound
  BY Invariance, PTL DEF IInv, AccountsAreSound

\* No handler revives a revoked session or binds a new token to it.
THEOREM Logouts == Spec => LogoutIsFinal
<1>1. IInv /\ [Next]_vars =>
        [\A s \in Sessions : revoked[s] => revoked'[s] /\ access'[s] = access[s]]_vars
  <2> SUFFICES ASSUME IInv, Next, NEW s \in Sessions, revoked[s]
               PROVE  revoked'[s] /\ access'[s] = access[s]
    OBVIOUS
  <2> USE DEF IInv, TypeOK
  <2>1. CASE UNCHANGED <<revoked, access>>
    BY <2>1
  <2>2. ASSUME NEW r \in Requests, NEW t \in Sessions, CreateSession(r, t)
        PROVE  revoked'[s] /\ access'[s] = access[s]
    BY <2>2 DEF CreateSession, Revocable
  <2>3. ASSUME NEW r \in Requests, Rebind(r)
        PROVE  revoked'[s] /\ access'[s] = access[s]
    BY <2>3 DEF Rebind
  <2>4. ASSUME NEW r \in Requests, RevokeSession(r)
        PROVE  revoked'[s] /\ access'[s] = access[s]
    BY <2>4 DEF RevokeSession
  <2>5. ASSUME NEW r \in Requests, RevokeAllUserSessions(r)
        PROVE  revoked'[s] /\ access'[s] = access[s]
    BY <2>5 DEF RevokeAllUserSessions
  <2> QED
    BY <2>1, <2>2, <2>3, <2>4, <2>5
    DEF Next, Register, Login, CreateUser, CountFailure, ResetFailures, CreateChallenge,
        VerifyMFA, CheckCode, Consume, SetupMFA, RefreshToken, ReadUser, UpdateUser,
        Reply, LoseReply, Logout, GiveUp, Tick, Restart
<1> QED
  BY <1>1, Invariance, PTL DEF Spec, LogoutIsFinal
-----------------------------------------------------------------------------
(* What clients see of the sessions: SessionLifecycle *)

\* A request that binds or delivers a token works on a session that exists, with
\* a token minted for it; what was minted or received belongs to such a session.
Tokens ==
  /\ \A r \in Requests : pc[r] \in {"rebind", "reply"} =>
       sUser[rSess[r]] # NoUser /\ rTok[r] \in 1 .. minted[rSess[r]]
  /\ \A s \in Sessions : held[s] # NoToken => sUser[s] # NoUser

\* A step that only moves requests elsewhere, or leaves them alone, keeps it.
LEMMA TokensKept ==
  ASSUME Tokens, UNCHANGED <<sUser, minted, held>>,
         \A q \in Requests : pc'[q] \in {"rebind", "reply"} =>
           pc[q] \in {"rebind", "reply"} /\ rSess'[q] = rSess[q] /\ rTok'[q] = rTok[q]
  PROVE  Tokens'
  BY DEF Tokens

\* It is inductive on top of the invariant.
LEMMA TokensStep == IInv /\ Tokens /\ [Next]_vars => Tokens'
<1> SUFFICES ASSUME IInv, Tokens, [Next]_vars PROVE Tokens'
  OBVIOUS
<1> USE AuthAssumption
<1> USE DEF IInv, TypeOK, PCs, Shape, Goto, Return, ReadRow
<1>1. ASSUME NEW r \in Requests, NEW s \in Sessions, CreateSession(r, s)
      PROVE  Tokens'
  <2>1. \A q \in Requests : pc[q] \in {"rebind", "reply"} => rSess[q] # s
    BY <1>1 DEF CreateSession, Tokens
  <2>2. ASSUME NEW q \in Requests, pc'[q] \in {"rebind", "reply"}
        PROVE  (sUser[rSess[q]] # NoUser /\ rTok[q] \in 1 .. minted[rSess[q]])'
    <3>1. CASE q = r
      BY <1>1, <3>1 DEF CreateSession
    <3>2. CASE q # r
      BY <1>1, <2>1, <2>2, <3>2 DEF CreateSession, Tokens
    <3> QED
      BY <3>1, <3>2
  <2>3. ASSUME NEW t \in Sessions, held'[t] # NoToken
        PROVE  sUser'[t] # NoUser
    BY <1>1, <2>3 DEF CreateSession, Tokens
  <2> QED
    BY <2>2, <2>3 DEF Tokens
<1>2. ASSUME NEW r \in Requests, NEW s \in Sessions, RefreshToken(r, s)
      PROVE  Tokens'
  <2>1. ASSUME NEW q \in Requests, pc'[q] \in {"rebind", "reply"}
        PROVE  (sUser[rSess[q]] # NoUser /\ rTok[q] \in 1 .. minted[rSess[q]])'
    <3>1. CASE q = r
      BY <1>2, <3>1 DEF RefreshToken, Tokens
    <3>2. CASE q # r
      <4>1. /\ pc[q] \in {"rebind", "reply"} /\ rSess[q] \in Sessions
            /\ rTok[q] \in 1 .. minted[rSess[q]] /\ sUser[rSess[q]] # NoUser
        BY <1>2, <2>1, <3>2 DEF RefreshToken, Tokens
      <4>2. minted'[rSess[q]] >= minted[rSess[q]] /\ minted'[rSess[q]] \in Nat
        BY <1>2, <4>1 DEF RefreshToken
      <4>3. rSess'[q] = rSess[q] /\ rTok'[q] = rTok[q] /\ sUser' = sUser
        BY <1>2, <3>2 DEF RefreshToken
      <4> QED
        BY <4>1, <4>2, <4>3
    <3> QED
      BY <3>1, <3>2
  <2> QED
    BY <1>2, <2>1 DEF RefreshToken, Tokens
<1>3. ASSUME NEW r \in Requests, Reply(r)
      PROVE  Tokens'
  <2>1. sUser[rSess[r]] # NoUser
    BY <1>3 DEF Reply, Tokens
  <2>2. ASSUME NEW t \in Sessions, held'[t] # NoToken
        PROVE  sUser'[t] # NoUser
    BY <1>3, <2>1, <2>2 DEF Reply, Tokens
  <2> QED
    BY <1>3, <2>2 DEF Reply, Tokens
<1>4. ASSUME NEW r \in Requests, Rebind(r)
      PROVE  Tokens'
  BY <1>4, TokensKept DEF Rebind
<1>5. CASE Tick \/ Restart \/ UNCHANGED vars
  BY <1>5, TokensKept DEF Tick, Restart
<1>6. ASSUME NEW r \in Requests, NEW u \in Users, Register(r, u)
      PROVE  Tokens'
  BY <1>6, TokensKept DEF Register
<1>7. ASSUME NEW r \in Requests, NEW u \in Users, Login(r, u)
      PROVE  Tokens'
  BY <1>7, TokensKept DEF Login
<1>8. ASSUME NEW r \in Requests, CreateUser(r)
      PROVE  Tokens'
  BY <1>8, TokensKept DEF CreateUser
<1>9. ASSUME NEW r \in Requests, CountFailure(r)
      PROVE  Tokens'
  BY <1>9, TokensKept DEF CountFailure
<1>10. ASSUME NEW r \in Requests, ResetFailures(r)
      PROVE  Tokens'
  BY <1>10, TokensKept DEF ResetFailures
<1>11. ASSUME NEW r \in Requests, NEW c \in Challenges, CreateChallenge(r, c)
      PROVE  Tokens'
  BY <1>11, TokensKept DEF CreateChallenge
<1>12. ASSUME NEW r \in Requests, NEW c \in Challenges, VerifyMFA(r, c)
      PROVE  Tokens'
  BY <1>12, TokensKept DEF VerifyMFA
<1>13. ASSUME NEW r \in Requests, CheckCode(r)
      PROVE  Tokens'
  BY <1>13, TokensKept DEF CheckCode
<1>14. ASSUME NEW r \in Requests, Consume(r)
      PROVE  Tokens'
  BY <1>14, TokensKept DEF Consume
<1>15. ASSUME NEW r \in Requests, NEW s \in Sessions, SetupMFA(r, s)
      PROVE  Tokens'
  BY <1>15, TokensKept DEF SetupMFA
<1>16. ASSUME NEW r \in Requests, ReadUser(r)
      PROVE  Tokens'
  BY <1>16, TokensKept DEF ReadUser
<1>17. ASSUME NEW r \in Requests, UpdateUser(r)
      PROVE  Tokens'
  BY <1>17, TokensKept DEF UpdateUser
<1>18. ASSUME NEW r \in Requests, NEW s \in Sessions, NEW t \in Sessions, Logout(r, s, t)
      PROVE  Tokens'
  BY <1>18, TokensKept DEF Logout
<1>19. ASSUME NEW r \in Requests, RevokeSession(r)
      PROVE  Tokens'
  BY <1>19, TokensKept DEF RevokeSession
<1>20. ASSUME NEW r \in Requests, RevokeAllUserSessions(r)
      PROVE  Tokens'
  BY <1>20, TokensKept DEF RevokeAllUserSessions
<1>21. ASSUME NEW r \in Requests, GiveUp(r)
      PROVE  Tokens'
  BY <1>21, TokensKept DEF GiveUp
<1>22. ASSUME NEW r \in Requests, LoseReply(r)
      PROVE  Tokens'
  BY <1>22, TokensKept DEF LoseReply
<1> QED
  BY <1>1, <1>2, <1>3, <1>4, <1>5, <1>6, <1>7, <1>8, <1>9, <1>10, <1>11, <1>12, <1>13, <1>14, <1>15, <1>16, <1>17, <1>18, <1>19, <1>20, <1>21, <1>22
  DEF Next

\* A statement that changes nothing of what clients see.
LEMMA Unseen ==
  ASSUME UNCHANGED <<sUser, revoked, access, minted, held>>
  PROVE  UNCHANGED Lifecycle!vars
  BY DEF Lifecycle!vars

\* Each step of the service is a step of the abstract lifecycle, or none.
LEMMA PromiseStep == IInv /\ Tokens /\ [Next]_vars => [Lifecycle!Next]_(Lifecycle!vars)
<1> SUFFICES ASSUME IInv, Tokens, [Next]_vars PROVE [Lifecycle!Next]_(Lifecycle!vars)
  OBVIOUS
<1> USE AuthAssumption
<1> USE DEF IInv, TypeOK, Shape, NoToken
<1>1. CASE UNCHANGED <<sUser, revoked, access, minted, held>>
  BY <1>1, Unseen
<1>2. ASSUME NEW r \in Requests, NEW s \in Sessions, CreateSession(r, s)
      PROVE  Lifecycle!Next
  <2>1. rUser[r] \in Users /\ Lifecycle!Open(s, rUser[r])
    BY <1>2 DEF CreateSession, Lifecycle!Open, Lifecycle!Exists
  <2> QED
    BY <2>1 DEF Lifecycle!Next
<1>3. ASSUME NEW r \in Requests, NEW s \in Sessions, RefreshToken(r, s)
      PROVE  Lifecycle!Next
  <2>1. Lifecycle!Mint(s)
    BY <1>3 DEF RefreshToken, Tokens, Lifecycle!Mint, Lifecycle!Exists
  <2> QED
    BY <2>1 DEF Lifecycle!Next
<1>4. ASSUME NEW r \in Requests, Rebind(r)
      PROVE  Lifecycle!Next
  <2>1. /\ rSess[r] \in Sessions /\ rTok[r] \in 1 .. minted[rSess[r]]
        /\ sUser[rSess[r]] # NoUser
    BY <1>4 DEF Rebind, Tokens
  <2>2. Lifecycle!Bind(rSess[r], rTok[r])
    BY <1>4, <2>1 DEF Rebind, Lifecycle!Bind, Lifecycle!Exists
  <2> QED
    BY <2>1, <2>2 DEF Lifecycle!Next
<1>5. ASSUME NEW r \in Requests, Reply(r)
      PROVE  Lifecycle!Next
  <2>1. /\ rSess[r] \in Sessions /\ rTok[r] \in 1 .. minted[rSess[r]]
        /\ sUser[rSess[r]] # NoUser
    BY <1>5 DEF Reply, Tokens
  <2>2. Lifecycle!Deliver(rSess[r], rTok[r])
    BY <1>5, <2>1 DEF Reply, Lifecycle!Deliver, Lifecycle!Exists
  <2> QED
    BY <2>1, <2>2 DEF Lifecycle!Next
<1>6. ASSUME NEW r \in Requests, RevokeSession(r)
      PROVE  Lifecycle!Next
  <2> DEFINE S == {s \in Sessions : s = rSess[r] /\ sUser[s] # NoUser}
  <2>1. revoked' = [s \in Sessions |-> revoked[s] \/ s \in S]
    BY <1>6, Zenon DEF RevokeSession
  <2>2. Lifecycle!End(S)
    BY <1>6, <2>1 DEF RevokeSession, Lifecycle!End, Lifecycle!Exists
  <2> QED
    BY <2>2 DEF Lifecycle!Next
<1>7. ASSUME NEW r \in Requests, RevokeAllUserSessions(r)
      PROVE  Lifecycle!Next
  <2> DEFINE S == {s \in Sessions : sUser[s] = rUser[r]}
  <2>1. rUser[r] # NoUser
    BY <1>7 DEF RevokeAllUserSessions
  <2>2. revoked' = [s \in Sessions |-> revoked[s] \/ s \in S]
    BY <1>7 DEF RevokeAllUserSessions
  <2>3. Lifecycle!End(S)
    BY <1>7, <2>1, <2>2 DEF RevokeAllUserSessions, Lifecycle!End, Lifecycle!Exists
  <2> QED
    BY <2>3 DEF Lifecycle!Next
<1> QED
  BY <1>1, <1>2, <1>3, <1>4, <1>5, <1>6, <1>7
  DEF Next, Register, Login, CreateUser, CountFailure, ResetFailures, CreateChallenge,
      VerifyMFA, CheckCode, Consume, SetupMFA, ReadUser, UpdateUser, LoseReply, Logout,
      GiveUp, Tick, Restart

\* auth-service implements SessionLifecycle, for any number of accounts,
\* sessions, requests and tokens, with lost answers and restarts.
THEOREM Promise == Spec => SessionsKeepPromise
<1>1. Init => Lifecycle!Init
  BY DEF Init, Lifecycle!Init, NoToken
<1>2. Init => Tokens
  BY DEF Init, Tokens
<1>3. IInv /\ Tokens /\ [Next]_vars => Tokens'
  BY TokensStep
<1>4. IInv /\ Tokens /\ [Next]_vars => [Lifecycle!Next]_(Lifecycle!vars)
  BY PromiseStep
<1> QED
  BY <1>1, <1>2, <1>3, <1>4, Invariance, PTL DEF Spec, SessionsKeepPromise, Lifecycle!Spec
=============================================================================
