\* See MCPolicyGates.tla and the README for what this instance is for.
CONSTANTS
  x1 = x1
  c1 = c1
  c2 = c2
  m1 = m1
  m2 = m2
  s1 = s1
  g1 = g1
  r1 = r1
  r2 = r2
  Repos = {x1}
  Clients = {c1, c2}
  Models = {m1, m2}
  Strategies = {s1}
  Groups = {g1}
  Tier <- Tiered
  Model <- Modelled
  Payloads <- Bodies
  Offers <- Offering
  Registries <- Deployments
  Snapshots <- Reported
  Reqs = {r1, r2}
  MaxJobs = 1
  MaxChanges = 3
  None = None
SPECIFICATION Spec
INVARIANTS
  GatesAgree
PROPERTIES
  LeaseClearsGates
  OmittedListStands
  RefusalIsARace
SYMMETRY Symmetry
