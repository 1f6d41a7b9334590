SPECIFICATION Spec
CONSTANTS
  u1 = u1
  u2 = u2
  e1 = e1
  Users = {u1, u2}
  Email <- SameEmail
  Sessions = {s1, s2}
  Challenges = {c1}
  Requests = {r1, r2}
  MaxAttempts = 2
  LockSpan = 1
  ChallengeSpan = 0
  MaxFailures = 3
  MaxTokens = 2
  MaxTime = 1
  Faults = TRUE
  NoUser = NoUser
  NoSession = NoSession
  NoChallenge = NoChallenge
SYMMETRY Symmetric
INVARIANTS
  TypeOK
  AccountsAreSound
PROPERTIES
  SessionsKeepPromise
CHECK_DEADLOCK FALSE
