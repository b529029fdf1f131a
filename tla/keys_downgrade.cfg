SPECIFICATION Spec
CONSTANTS
  Key = {k1, k2, k3}
  NoKey = NoKey
  Plan = {free, pro}
  FreePlan = free
  MaxKeys <- TwoPlans
  Admin = {a1, a2}
  Client = {}
  AdminOps = {"create", "plan"}
  Authorities = {TRUE}
  Outages = {}
  LostEvals = FALSE
  Crashes = FALSE
  Restarts = FALSE
  Dashboard = FALSE
SYMMETRY AdminSymmetry
INVARIANT KeyLimit
CHECK_DEADLOCK FALSE
