SPECIFICATION MCSpec
CONSTANTS
  Uids = {u1, u2}
  OldFailed = {1}
  Lease = 2
  TTL = 2
  Reuse = {1}
  Window = 1
  EvidenceLimit = 2
  MaxTries = 2
  Slots = 2
  Kinds = {"item", "disjoint"}
  Answers = {"zone", "other"}
  AttemptsFit = TRUE
  Grid <- Column
SYMMETRY Symmetric
CHECK_DEADLOCK FALSE
INVARIANTS PointsSafe PartySafe
PROPERTIES ClaimsStand SessionSafe
