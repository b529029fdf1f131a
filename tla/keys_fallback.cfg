SPECIFICATION Spec
CONSTANTS
  Key = {k1, k2, k3}
  NoKey = NoKey
  Plan = {free}
  FreePlan = free
  MaxKeys <- OnePlan
  Admin = {a1, a2}
  Client = {}
  AdminOps = {"create"}
  Authorities = {TRUE, FALSE}
  Outages = {}
  LostEvals = TRUE
  Crashes = FALSE
  Restarts = FALSE
  Dashboard = FALSE
SYMMETRY AdminSymmetry
INVARIANT KeyLimit
CHECK_DEADLOCK FALSE
