SPECIFICATION Spec
CONSTANTS
  u1 = u1
  u2 = u2
  e1 = e1
  Users = {u1}
  Email <- OneUser
  Sessions = {s1, s2, s3}
  Challenges = {c1}
  Requests = {r1, r2}
  MaxAttempts = 2
  LockSpan = 1
  ChallengeSpan = 1
  MaxFailures = 0
  MaxTokens = 1
  MaxTime = 0
  Faults = FALSE
  NoUser = NoUser
  NoSession = NoSession
  NoChallenge = NoChallenge
INVARIANT
  OneSessionPerChallenge
CHECK_DEADLOCK FALSE
