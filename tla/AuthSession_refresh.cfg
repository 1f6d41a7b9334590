SPECIFICATION Spec
CONSTANTS
  u1 = u1
  u2 = u2
  e1 = e1
  Users = {u1}
  Email <- OneUser
  Sessions = {s1}
  Challenges = {c1}
  Requests = {r1, r2}
  MaxAttempts = 2
  LockSpan = 1
  ChallengeSpan = 1
  MaxFailures = 3
  MaxTokens = 3
  MaxTime = 2
  Faults = FALSE
  NoUser = NoUser
  NoSession = NoSession
  NoChallenge = NoChallenge
INVARIANT
  PresentedTokenRecognised
CHECK_DEADLOCK FALSE
