\* See MCDispatch.tla and the README for what this instance is for.
CONSTANTS
  c1 = c1
  c2 = c2
  h1 = h1
  h2 = h2
  p1 = p1
  r1 = r1
  r2 = r2
  Clients = {c1, c2}
  Heads = {h1}
  Pulls = {p1}
  Reqs = {r1, r2}
  Steady = {}
  Ops = {"lease_next", "lease_one", "report", "revoke", "enqueue", "abort"}
  PullOf <- OnePull
  CanTake <- AllEligible
  MaxJobs = 1
  MaxAttempts = 2
  None = None
  NoRow = NoRow
SPECIFICATION Spec
INVARIANTS
  RowsCohere
  OnlyRevokeDeadlocks
PROPERTIES
  FinishedWorkStands
  NothingReopens
  LeaseNotStolen
  RevokedIsOut
SYMMETRY Symmetry
\* Once every client is revoked and every row used, nothing is left to happen.
CHECK_DEADLOCK FALSE
