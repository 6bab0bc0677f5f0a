\* See MCLogin.tla and the README for what this instance is for.
CONSTANTS
  u1 = u1
  u2 = u2
  m1 = m1
  m2 = m2
  m3 = m3
  c1 = c1
  c2 = c2
  t1 = t1
  t2 = t2
  t3 = t3
  f1 = f1
  f2 = f2
  p1 = p1
  p2 = p2
  Users = {u1, u2}
  Machines = {m1, m2, m3}
  Codes = {c1, c2}
  PageCodes = {c1}
  Tokens = {t1, t2}
  Saved = t1
  Visitor = u1
  OwnerOf <- Owners
  Near <- Neighbours
  OldFile = None
  Flights = {f1, f2}
  Procs = {p1, p2}
  Intervals = {5}
  PollEvery = 2
  Sides = {"page"}
  MaxLost = 0
  None = None
SPECIFICATION FairSpec
PROPERTIES
  ThenPolls
