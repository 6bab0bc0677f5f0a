\* See MCAttestation.tla and the README for what this instance is for.
CONSTANTS
  u1 = u1
  u2 = u2
  m1 = m1
  m2 = m2
  r1 = r1
  r2 = r2
  Users = {u1}
  Repos = {1, 2}
  Home <- OneHome
  PageSize = 1
  Clients = {m1}
  Legacy = {}
  Ops = {"enrol", "check_in"}
  Reqs = {r1, r2}
  MaxChanges = 1
  None = None
SPECIFICATION FairSpec
INVARIANTS
  SnapshotWasTrue
  SnapshotIsWhole
PROPERTIES
  LossEnds
