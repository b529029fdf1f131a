SPECIFICATION Spec
CONSTANTS
  Key = {k1, k2}
  NoKey = NoKey
  Plan = {free}
  FreePlan = free
  MaxKeys <- OnePlan
  Admin = {a1}
  Client = {}
  AdminOps = {"create", "revoke"}
  Authorities = {TRUE}
  Outages = {}
  LostEvals = FALSE
  Crashes = FALSE
  Restarts = FALSE
  Dashboard = FALSE
SYMMETRY AdminSymmetry
INVARIANT RevokedKeysAreKept
CHECK_DEADLOCK FALSE
