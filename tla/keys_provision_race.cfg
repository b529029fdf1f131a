SPECIFICATION Spec
CONSTANTS
  Key = {k1, k2}
  NoKey = NoKey
  Plan = {free}
  FreePlan = free
  MaxKeys <- OnePlan
  Admin = {a1, a2}
  Client = {}
  AdminOps = {"provision"}
  Authorities = {TRUE}
  Outages = {}
  LostEvals = FALSE
  Crashes = FALSE
  Restarts = FALSE
  Dashboard = FALSE
SYMMETRY AdminSymmetry
INVARIANT ProvisionOnce
CHECK_DEADLOCK FALSE
