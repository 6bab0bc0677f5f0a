\* See MCAttestation.tla and the README for what this instance is for.
CONSTANTS
  u1 = u1
  u2 = u2
  m1 = m1
  m2 = m2
  r1 = r1
  r2 = r2
  Users = {u1, u2}
  Repos = {1}
  Home <- OneHome
  PageSize = 2
  Clients = {m1, m2}
  Legacy = {m2}
  Ops = {"enrol", "check_in", "login"}
  Reqs = {r1, r2}
  MaxChanges = 0
  None = None
SPECIFICATION Spec
INVARIANTS
  AdmittedByGithub
SYMMETRY Symmetry
