SPECIFICATION MCSpec
CONSTANTS
  Calls = {k1, k2}
  RowIds = {r1, r2}
  Users = {u1, u2}
  Containers = {"c1"}
  BridgeNames = {"n1"}
  SubscriptionIds = {"s1"}
  BilledOrgs = {"o1"}
  RetryKeys = {"q1", "q2"}
  Customers = {"cus1", "cus2"}
  Externals = {"sub1", "sub2"}
  Slugs = {"acme"}
  Recipients = {"u1"}
  TokenLife = 2
  RefreshSkew = 1
  Passwords = {"p1", "p2"}
  MaxSerial = 2
  SessionIds = {"t1"}
  Takes = {1, 2}
  MaxChunks = 2
  LlmTimeouts = {1, 2}
  WriteTimeouts = {1, 3}
  MinMargin = 1
INVARIANTS
  TypeOK
  OrphansAreAccounted
  RetriesCreateOnce
  RowsMatchProcessor
  CountsFollowMemberships
  SuccessIsReal
  DeadlinesAreMet
  SerialsAreUnique
  PlaybackAgreesWithRows
PROPERTY
  RecordsStand
SYMMETRY Symmetric
CHECK_DEADLOCK FALSE
