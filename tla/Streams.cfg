\* See MCEventBus.tla and the README for what this instance is for.
CONSTANTS
  s1 = s1
  s2 = s2
  s3 = s3
  u1 = u1
  x1 = x1
  e1 = e1
  e2 = e2
  Streams = {s1, s2, s3}
  Users = {u1}
  Reports = {e1}
  Repos = {x1}
  OwnerOf <- OneAccount
  RepoOf <- OneRepo
  Stalled = {s3}
  Cap = 2
  QueueMax = 1
  PoolSize = 3
  MaxBlips = 1
SPECIFICATION FairSpec
INVARIANTS
  SentWasReachable
  SubscribersAreOpen
PROPERTIES
  StaleStreamsClose
\* Every request has been served.
CHECK_DEADLOCK FALSE
