\* See MCStack.tla and the README for what this instance is for.
CONSTANTS
  u1 = u1
  u2 = u2
  u3 = u3
  o1 = o1
  o2 = o2
  m1 = m1
  m2 = m2
  d1 = d1
  d2 = d2
  r1 = r1
  r2 = r2
  ada = ada
  bob = bob
  j1 = j1
  k1 = k1
  k2 = k2
  q1 = q1
  q2 = q2
  Users = {u1, u2, u3}
  Orgs = {o1, o2}
  Rows = {m1, m2}
  Docs = {d1, d2}
  EmailOf <- Addresses
  Seeded = {u1, u2}
  Home = o1
  Founder = u1
  FirstRow = m1
  Reqs = {r1, r2}
  Mixes <- Mixture
  Configured = {"local", "azure", "s3", "gcs"}
  Imports = {"azure", "s3", "gcs"}
  MaxFaults = 2
  MaxAborts = 1
  None = None
  Jwts = {j1}
  Keys = {k1, k2}
  First = k1
  Pins = {Null, k1}
  Calls = {q1, q2}
  Ttl = 2
  Timeout = 1
  Null = Null
SPECIFICATION StackSpec
INVARIANTS
  GaugeCounts
  RowsHaveFiles
  NothingLeftOver
  CacheIsRecent
PROPERTIES
  RemovalIsOwn
  AnswersAreTrue
  AdmittedWasVouched
  RefusedForCause
SYMMETRY Symmetry
\* Once the organization is gone nobody is admitted any more.
CHECK_DEADLOCK FALSE
