\* See the README for what this instance is for.
CONSTANTS
  Faults = {"stale", "lease_lost", "check_out", "revoked", "unauthorized", "refresh_lapsed", "hub_error", "hub_unreachable", "github_unreachable", "hub_cannot_read_github", "review_fails"}
  MaxFaults = 3
  Expires = TRUE
SPECIFICATION FairSpec
INVARIANTS
  StoredWasAccepted
  KeepsItsWord
PROPERTIES
  OptOutGainsNothing
  KeepsServing
\* LOGIN_AGAIN ends the process.
CHECK_DEADLOCK FALSE
