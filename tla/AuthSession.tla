---------------------------- MODULE AuthSession ----------------------------
(***************************************************************************)
(* services/auth-service: accounts, the failed-login lock, login with and  *)
(* without a second factor, sessions, token refresh and logout.            *)
(*                                                                         *)
(* A request is a process; its atomic steps are one SQL statement each, or *)
(* one critical section of the in-memory challenge store.  Passwords and   *)
(* codes are right or wrong, whichever the client likes.  The access       *)
(* tokens of a session are numbered in the order they are minted (every    *)
(* one has a fresh jti), so the session row's access_token_hash is a       *)
(* number; the refresh token is the session itself.                        *)
(***************************************************************************)
EXTENDS Naturals

CONSTANTS
  Users,         \* account ids, one for every registration attempted
  Email,         \* the email address each of them is registered with
  Sessions,      \* session ids
  Challenges,    \* MFA challenge ids
  Requests,      \* in-flight HTTP requests
  MaxAttempts,   \* wrong passwords that lock an account (5 in the code)
  LockSpan,      \* how long the lock lasts (15 minutes)
  ChallengeSpan, \* mfaChallengeTTL
  MaxFailures, MaxTokens, MaxTime, \* bounds on what counts up
  Faults,        \* whether the process is restarted and responses get lost
  NoUser, NoSession, NoChallenge

ASSUME AuthAssumption ==
  /\ MaxAttempts \in Nat \ {0} /\ LockSpan \in Nat \ {0} /\ ChallengeSpan \in Nat
  /\ Faults \in BOOLEAN
  /\ MaxFailures \in Nat /\ MaxTokens \in Nat /\ MaxTime \in Nat
  /\ NoUser \notin Users /\ NoSession \notin Sessions /\ NoChallenge \notin Challenges

NotLocked == 0 \* locked_until IS NULL

NoToken == 0

VARIABLES
  \* table users
  account, failed, lockedUntil, mfa,
  \* table user_sessions: user_id (NoUser: no such row), revoked_at IS NOT
  \* NULL, access_token_hash, and the challenge redeemed for the session
  sUser, revoked, access, sChal,
  \* mfaChallengeStore: the entries of the map, and what each was created with
  live, chUser, chExp,
  \* the requests: program counter and local variables, among them the columns
  \* of the users row that was read
  pc, rUser, rSess, rChal, rTok, rFailed, rLock, rMfa,
  \* tokens minted so far, and the one the client of a session received last
  minted, held,
  now

userVars == <<account, failed, lockedUntil, mfa>>
sessVars == <<sUser, revoked, access, sChal>>
chalVars == <<live, chUser, chExp>>
rowVars == <<rFailed, rLock, rMfa>>
reqVars == <<pc, rUser, rSess, rChal, rTok, rowVars>>
tokenVars == <<minted, held>>
vars == <<userVars, sessVars, chalVars, reqVars, tokenVars, now>>

PCs == {"idle", "create", "count", "reset", "challenge", "session", "code",
        "consume", "read", "save", "rebind", "revoke", "revokeall", "reply"}

TypeOK ==
  /\ account \subseteq Users
  /\ failed \in [Users -> Nat]
  /\ lockedUntil \in [Users -> Nat]
  /\ mfa \in [Users -> BOOLEAN]
  /\ sUser \in [Sessions -> Users \cup {NoUser}]
  /\ revoked \in [Sessions -> BOOLEAN]
  /\ access \in [Sessions -> Nat]
  /\ sChal \in [Sessions -> Challenges \cup {NoChallenge}]
  /\ live \subseteq Challenges
  /\ chUser \in [Challenges -> Users \cup {NoUser}]
  /\ chExp \in [Challenges -> Nat]
  /\ pc \in [Requests -> PCs]
  /\ rUser \in [Requests -> Users \cup {NoUser}]
  /\ rSess \in [Requests -> Sessions \cup {NoSession}]
  /\ rChal \in [Requests -> Challenges \cup {NoChallenge}]
  /\ rTok \in [Requests -> Nat]
  /\ rFailed \in [Requests -> Nat]
  /\ rLock \in [Requests -> Nat]
  /\ rMfa \in [Requests -> BOOLEAN]
  /\ minted \in [Sessions -> Nat]
  /\ held \in [Sessions -> Nat]
  /\ now \in Nat

Init ==
  /\ account = {}
  /\ failed = [u \in Users |-> 0]
  /\ lockedUntil = [u \in Users |-> NotLocked]
  /\ mfa = [u \in Users |-> FALSE]
  /\ sUser = [s \in Sessions |-> NoUser]
  /\ revoked = [s \in Sessions |-> FALSE]
  /\ access = [s \in Sessions |-> NoToken]
  /\ sChal = [s \in Sessions |-> NoChallenge]
  /\ live = {}
  /\ chUser = [c \in Challenges |-> NoUser]
  /\ chExp = [c \in Challenges |-> 0]
  /\ pc = [r \in Requests |-> "idle"]
  /\ rUser = [r \in Requests |-> NoUser]
  /\ rSess = [r \in Requests |-> NoSession]
  /\ rChal = [r \in Requests |-> NoChallenge]
  /\ rTok = [r \in Requests |-> NoToken]
  /\ rFailed = [r \in Requests |-> 0]
  /\ rLock = [r \in Requests |-> NotLocked]
  /\ rMfa = [r \in Requests |-> FALSE]
  /\ minted = [s \in Sessions |-> 0]
  /\ held = [s \in Sessions |-> NoToken]
  /\ now = 0

-----------------------------------------------------------------------------
(* Helpers *)

EmailTaken(u) == \E v \in account : Email[v] = Email[u]

Locked(u) == lockedUntil[u] # NotLocked /\ now < lockedUntil[u]

\* IsAccessTokenActive for the token the session's client holds.
Recognised(s) ==
  sUser[s] # NoUser /\ held[s] # NoToken /\ access[s] = held[s] /\ ~revoked[s]

Goto(r, label) == pc' = [pc EXCEPT ![r] = label]

\* The handler returns and its local variables are gone.
Return(r) ==
  /\ pc' = [pc EXCEPT ![r] = "idle"]
  /\ rUser' = [rUser EXCEPT ![r] = NoUser]
  /\ rSess' = [rSess EXCEPT ![r] = NoSession]
  /\ rChal' = [rChal EXCEPT ![r] = NoChallenge]
  /\ rTok' = [rTok EXCEPT ![r] = NoToken]
  /\ rFailed' = [rFailed EXCEPT ![r] = 0]
  /\ rLock' = [rLock EXCEPT ![r] = NotLocked]
  /\ rMfa' = [rMfa EXCEPT ![r] = FALSE]

\* The users row of u is read into a local variable.
ReadRow(r, u) ==
  /\ rUser' = [rUser EXCEPT ![r] = u]
  /\ rFailed' = [rFailed EXCEPT ![r] = failed[u]]
  /\ rLock' = [rLock EXCEPT ![r] = lockedUntil[u]]
  /\ rMfa' = [rMfa EXCEPT ![r] = mfa[u]]

-----------------------------------------------------------------------------
(* Registration *)

\* Handler.Register: EmailExists finds nothing.
Register(r, u) ==
  /\ pc[r] = "idle"
  /\ u \notin account /\ \A q \in Requests : pc[q] = "create" => rUser[q] # u
  /\ ~EmailTaken(u)
  /\ Goto(r, "create")
  /\ rUser' = [rUser EXCEPT ![r] = u]
  /\ UNCHANGED <<rSess, rChal, rTok, rowVars, userVars, sessVars, chalVars, tokenVars, now>>

\* Slip: users.email is not UNIQUE.
CreateUserUnchecked(r) ==
  /\ pc[r] = "create"
  /\ account' = account \cup {rUser[r]}
  /\ Goto(r, "session")
  /\ UNCHANGED <<failed, lockedUntil, mfa, rUser, rSess, rChal, rTok, rowVars,
                 sessVars, chalVars, tokenVars, now>>

\* The INSERT, held up against the UNIQUE constraint on email.
CreateUser(r) ==
  /\ pc[r] = "create"
  /\ ~EmailTaken(rUser[r])
  /\ account' = account \cup {rUser[r]}
  /\ Goto(r, "session")
  /\ UNCHANGED <<failed, lockedUntil, mfa, rUser, rSess, rChal, rTok, rowVars,
                 sessVars, chalVars, tokenVars, now>>

-----------------------------------------------------------------------------
(* Login *)

\* The row is read, it is not locked, and the password is right or wrong.
Login(r, u) ==
  /\ pc[r] = "idle"
  /\ u \in account
  /\ ~Locked(u)
  /\ Goto(r, "reset") \/ Goto(r, "count")
  /\ ReadRow(r, u)
  /\ UNCHANGED <<rSess, rChal, rTok, userVars, sessVars, chalVars, tokenVars, now>>

\* Repository.IncrementFailedLogins.
CountFailure(r) ==
  /\ pc[r] = "count"
  /\ failed[rUser[r]] < MaxFailures
  /\ failed' = [failed EXCEPT ![rUser[r]] = @ + 1]
  /\ lockedUntil' = IF failed[rUser[r]] >= MaxAttempts - 1
                    THEN [lockedUntil EXCEPT ![rUser[r]] = now + LockSpan]
                    ELSE lockedUntil
  /\ Return(r)
  /\ UNCHANGED <<account, mfa, sessVars, chalVars, tokenVars, now>>

\* Slip: a right password forgives one failure.
ForgiveOne(r) ==
  /\ pc[r] = "reset"
  /\ failed' = [failed EXCEPT ![rUser[r]] = @ - 1]
  /\ lockedUntil' = [lockedUntil EXCEPT ![rUser[r]] = NotLocked]
  /\ Goto(r, IF rMfa[r] THEN "challenge" ELSE "session")
  /\ UNCHANGED <<account, mfa, rUser, rSess, rChal, rTok, rowVars, sessVars,
                 chalVars, tokenVars, now>>

\* Repository.ResetFailedLogins, its failure ignored; the second factor is
\* asked for if the row that was read had one.
ResetFailures(r) ==
  /\ pc[r] = "reset"
  /\ \/ /\ failed' = [failed EXCEPT ![rUser[r]] = 0]
        /\ lockedUntil' = [lockedUntil EXCEPT ![rUser[r]] = NotLocked]
     \/ UNCHANGED <<failed, lockedUntil>>
  /\ Goto(r, IF rMfa[r] THEN "challenge" ELSE "session")
  /\ UNCHANGED <<account, mfa, rUser, rSess, rChal, rTok, rowVars, sessVars,
                 chalVars, tokenVars, now>>

\* mfaChallengeStore.create: no tokens yet, the handler returns the challenge.
CreateChallenge(r, c) ==
  /\ pc[r] = "challenge"
  /\ chUser[c] = NoUser
  /\ live' = live \cup {c}
  /\ chUser' = [chUser EXCEPT ![c] = rUser[r]]
  /\ chExp' = [chExp EXCEPT ![c] = now + ChallengeSpan]
  /\ Return(r)
  /\ UNCHANGED <<userVars, sessVars, tokenVars, now>>

\* Repository.CreateSession, with the first access token of the session.
CreateSession(r, s) ==
  /\ pc[r] = "session"
  /\ sUser[s] = NoUser
  /\ sUser' = [sUser EXCEPT ![s] = rUser[r]]
  /\ access' = [access EXCEPT ![s] = 1]
  /\ minted' = [minted EXCEPT ![s] = 1]
  /\ sChal' = [sChal EXCEPT ![s] = rChal[r]]
  /\ rSess' = [rSess EXCEPT ![r] = s]
  /\ rTok' = [rTok EXCEPT ![r] = 1]
  /\ Goto(r, "reply")
  /\ UNCHANGED <<revoked, held, rUser, rChal, rowVars, userVars, chalVars, now>>

-----------------------------------------------------------------------------
(* The second factor *)

\* mfaChallengeStore.lookup; an expired entry is reaped.
VerifyMFA(r, c) ==
  /\ pc[r] = "idle"
  /\ c \in live
  /\ IF now > chExp[c]
     THEN live' = live \ {c} /\ UNCHANGED <<pc, rUser, rChal>>
     ELSE /\ Goto(r, "code")
          /\ rUser' = [rUser EXCEPT ![r] = chUser[c]]
          /\ rChal' = [rChal EXCEPT ![r] = c]
          /\ UNCHANGED live
  /\ UNCHANGED <<chUser, chExp, rSess, rTok, rowVars, userVars, sessVars, tokenVars, now>>

\* GetUserByID and a right code.
CheckCode(r) ==
  /\ pc[r] = "code"
  /\ mfa[rUser[r]]
  /\ Goto(r, "consume")
  /\ UNCHANGED <<rUser, rSess, rChal, rTok, rowVars, userVars, sessVars, chalVars,
                 tokenVars, now>>

\* mfaChallengeStore.consume: delete, whether or not it is still there.
Consume(r) ==
  /\ pc[r] = "consume"
  /\ live' = live \ {rChal[r]}
  /\ Goto(r, "session")
  /\ UNCHANGED <<chUser, chExp, rUser, rSess, rChal, rTok, rowVars, userVars,
                 sessVars, tokenVars, now>>

\* Handler.SetupMFA: past the middleware, the users row is read ...
SetupMFA(r, s) ==
  /\ pc[r] = "idle"
  /\ Recognised(s)
  /\ Goto(r, "read")
  /\ rUser' = [rUser EXCEPT ![r] = sUser[s]]
  /\ UNCHANGED <<rSess, rChal, rTok, rowVars, userVars, sessVars, chalVars, tokenVars, now>>

ReadUser(r) ==
  /\ pc[r] = "read"
  /\ ReadRow(r, rUser[r])
  /\ Goto(r, "save")
  /\ UNCHANGED <<rSess, rChal, rTok, userVars, sessVars, chalVars, tokenVars, now>>

\* Slip: locked_until is left out of the UPDATE.
UpdateUserHalf(r) ==
  /\ pc[r] = "save"
  /\ mfa' = [mfa EXCEPT ![rUser[r]] = TRUE]
  /\ failed' = [failed EXCEPT ![rUser[r]] = rFailed[r]]
  /\ Return(r)
  /\ UNCHANGED <<account, lockedUntil, sessVars, chalVars, tokenVars, now>>

\* ... and written back whole, its login counters as they were read.
UpdateUser(r) ==
  /\ pc[r] = "save"
  /\ mfa' = [mfa EXCEPT ![rUser[r]] = TRUE]
  /\ failed' = [failed EXCEPT ![rUser[r]] = rFailed[r]]
  /\ lockedUntil' = [lockedUntil EXCEPT ![rUser[r]] = rLock[r]]
  /\ Return(r)
  /\ UNCHANGED <<account, sessVars, chalVars, tokenVars, now>>

-----------------------------------------------------------------------------
(* Refresh and logout *)

\* Handler.RefreshToken: a client that has the session's refresh token gets a
\* new access token minted.
RefreshToken(r, s) ==
  /\ pc[r] = "idle"
  /\ held[s] # NoToken
  /\ minted[s] < MaxTokens
  /\ minted' = [minted EXCEPT ![s] = @ + 1]
  /\ rSess' = [rSess EXCEPT ![r] = s]
  /\ rTok' = [rTok EXCEPT ![r] = minted[s] + 1]
  /\ Goto(r, "rebind")
  /\ UNCHANGED <<held, rUser, rChal, rowVars, userVars, sessVars, chalVars, now>>

\* Slip: the UPDATE has no revoked_at guard.
RebindUnchecked(r) ==
  /\ pc[r] = "rebind"
  /\ access' = [access EXCEPT ![rSess[r]] = rTok[r]]
  /\ Goto(r, "reply")
  /\ UNCHANGED <<sUser, revoked, sChal, rUser, rSess, rChal, rTok, rowVars, userVars,
                 chalVars, tokenVars, now>>

\* Repository.UpdateSessionAccessTokenHash: WHERE revoked_at IS NULL.
Rebind(r) ==
  /\ pc[r] = "rebind"
  /\ ~revoked[rSess[r]]
  /\ access' = [access EXCEPT ![rSess[r]] = rTok[r]]
  /\ Goto(r, "reply")
  /\ UNCHANGED <<sUser, revoked, sChal, rUser, rSess, rChal, rTok, rowVars, userVars,
                 chalVars, tokenVars, now>>

\* The response reaches the client, which presents this token from now on.
Reply(r) ==
  /\ pc[r] = "reply"
  /\ held' = [held EXCEPT ![rSess[r]] = rTok[r]]
  /\ Return(r)
  /\ UNCHANGED <<minted, userVars, sessVars, chalVars, now>>

\* The client hung up, or the database's answer was lost and the handler took
\* the statement for a failed one: the row is there and no token is received.
LoseReply(r) ==
  /\ Faults
  /\ pc[r] = "reply"
  /\ Return(r)
  /\ UNCHANGED <<userVars, sessVars, chalVars, tokenVars, now>>

\* Handler.Logout past the middleware: of one session, named by its id, or of
\* all the user's sessions.
Logout(r, s, t) ==
  /\ pc[r] = "idle"
  /\ Recognised(s)
  /\ \/ Goto(r, "revoke") /\ rSess' = [rSess EXCEPT ![r] = t] /\ UNCHANGED rUser
     \/ Goto(r, "revokeall") /\ rUser' = [rUser EXCEPT ![r] = sUser[s]] /\ UNCHANGED rSess
  /\ UNCHANGED <<rChal, rTok, rowVars, userVars, sessVars, chalVars, tokenVars, now>>

\* Repository.RevokeSession.
RevokeSession(r) ==
  /\ pc[r] = "revoke"
  /\ revoked' = [revoked EXCEPT ![rSess[r]] = @ \/ sUser[rSess[r]] # NoUser]
  /\ Return(r)
  /\ UNCHANGED <<sUser, access, sChal, userVars, chalVars, tokenVars, now>>

\* Repository.RevokeAllUserSessions.
RevokeAllUserSessions(r) ==
  /\ pc[r] = "revokeall"
  /\ revoked' = [s \in Sessions |-> revoked[s] \/ sUser[s] = rUser[r]]
  /\ Return(r)
  /\ UNCHANGED <<sUser, access, sChal, userVars, chalVars, tokenVars, now>>

-----------------------------------------------------------------------------
(* Failure, time and the process *)

\* A wrong code, a revoked session at /refresh, or a statement that fails: the
\* handler gives up and has written nothing (a failed IncrementFailedLogins is
\* ignored, with the same effect).  ResetFailures goes on instead.
GiveUp(r) ==
  /\ pc[r] \in {"create", "count", "session", "code", "read", "save", "rebind",
                "revoke", "revokeall"}
  /\ Return(r)
  /\ UNCHANGED <<userVars, sessVars, chalVars, tokenVars, now>>

Tick ==
  /\ now < MaxTime
  /\ now' = now + 1
  /\ UNCHANGED <<userVars, sessVars, chalVars, reqVars, tokenVars>>

\* The process is restarted: the challenge store and the requests are lost.
Restart ==
  /\ Faults
  /\ live' = {}
  /\ pc' = [r \in Requests |-> "idle"]
  /\ rUser' = [r \in Requests |-> NoUser]
  /\ rSess' = [r \in Requests |-> NoSession]
  /\ rChal' = [r \in Requests |-> NoChallenge]
  /\ rTok' = [r \in Requests |-> NoToken]
  /\ rFailed' = [r \in Requests |-> 0]
  /\ rLock' = [r \in Requests |-> NotLocked]
  /\ rMfa' = [r \in Requests |-> FALSE]
  /\ UNCHANGED <<chUser, chExp, userVars, sessVars, tokenVars, now>>

-----------------------------------------------------------------------------
Next ==
  \/ \E r \in Requests, u \in Users : Register(r, u) \/ Login(r, u)
  \/ \E r \in Requests : CreateUser(r) \/ CountFailure(r) \/ ResetFailures(r)
  \/ \E r \in Requests, s \in Sessions : CreateSession(r, s)
  \/ \E r \in Requests, c \in Challenges : CreateChallenge(r, c) \/ VerifyMFA(r, c)
  \/ \E r \in Requests : CheckCode(r) \/ Consume(r)
  \/ \E r \in Requests, s \in Sessions : SetupMFA(r, s) \/ RefreshToken(r, s)
  \/ \E r \in Requests : ReadUser(r) \/ UpdateUser(r) \/ Rebind(r)
  \/ \E r \in Requests : Reply(r) \/ LoseReply(r)
  \/ \E r \in Requests, s, t \in Sessions : Logout(r, s, t)
  \/ \E r \in Requests : RevokeSession(r) \/ RevokeAllUserSessions(r) \/ GiveUp(r)
  \/ Tick
  \/ Restart

Spec == Init /\ [][Next]_vars

-----------------------------------------------------------------------------
(* Properties *)

\* An account whose row counts five failures or more has a lock deadline, and
\* only such an account has one: increments, resets and the write-back of a
\* stale row by SetupMFA never tear the two columns apart.
LockMatchesCount ==
  \A u \in Users : failed[u] >= MaxAttempts <=> lockedUntil[u] # NotLocked

\* Two registrations that both found the address free make one account.
OneAccountPerEmail ==
  \A u, v \in account : Email[u] = Email[v] => u = v

\* What the rows of users promise whatever requests overlap: one account for an
\* address, and a lock where its count of failures says so.
AccountsAreSound == LockMatchesCount /\ OneAccountPerEmail

\* A revoked session stays revoked and no refresh in flight binds a new access
\* token to it ("cannot mint a session-bound access token after logout").
LogoutIsFinal ==
  [][\A s \in Sessions : revoked[s] => revoked'[s] /\ access'[s] = access[s]]_vars

\* What clients see of the sessions: the abstract lifecycle, with owners and
\* revocations in their columns and the tokens as they were minted, bound and
\* received.
Lifecycle == INSTANCE SessionLifecycle
  WITH owner <- sUser, ended <- revoked, issued <- minted, bound <- access, given <- held

\* However logins, refreshes, logouts, lost answers and restarts interleave, a
\* session keeps its owner, binds and delivers only tokens minted for it, binds
\* none once it is revoked, and is ended alone or with its user's others.
SessionsKeepPromise == Lifecycle!Spec

\* "so a single login challenge yields exactly one token pair"
OneSessionPerChallenge ==
  \A s, t \in Sessions : sChal[s] # NoChallenge /\ sChal[s] = sChal[t] => s = t

\* "keeps recognising the session by whichever access token the client is
\* currently presenting": once no request works on a session, its client's
\* token is recognised until the session is revoked.
PresentedTokenRecognised ==
  \A s \in Sessions :
    held[s] # NoToken /\ ~revoked[s] /\ (\A r \in Requests : rSess[r] # s)
      => Recognised(s)
=============================================================================
