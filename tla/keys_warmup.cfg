SPECIFICATION Spec
CONSTANTS
  Key = {k1, k2}
  NoKey = NoKey
  Plan = {free}
  FreePlan = free
  MaxKeys <- OnePlan
  Admin = {a1}
  Client = {}
  AdminOps = {"create", "revoke"}
  Authorities = {TRUE}
  Outages = {}
  LostEvals = FALSE
  Crashes = FALSE
  Restarts = TRUE
  Dashboard = FALSE
SYMMETRY AdminSymmetry
INVARIANT RevokedStaysOut
CHECK_DEADLOCK FALSE
