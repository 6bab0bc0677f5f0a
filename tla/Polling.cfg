\* See MCDispatch.tla and the README for what this instance is for.
CONSTANTS
  c1 = c1
  c2 = c2
  h1 = h1
  h2 = h2
  p1 = p1
  r1 = r1
  r2 = r2
  Clients = {c1, c2}
  Heads = {h1}
  Pulls = {p1}
  Reqs = {r1, r2}
  Steady = {c1}
  Ops = {"lease_next", "lease_one", "report", "revoke", "enqueue"}
  PullOf <- OnePull
  CanTake <- AllEligible
  MaxJobs = 1
  MaxAttempts = 2
  None = None
  NoRow = NoRow
SPECIFICATION FairSpec
PROPERTIES
  JobsSettle
  ReportsAnswered
