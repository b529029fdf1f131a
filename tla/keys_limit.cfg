SPECIFICATION Spec
CONSTANTS
  Key = {k1, k2}
  NoKey = NoKey
  Plan = {free, pro}
  FreePlan = free
  MaxKeys <- TwoPlans
  Admin = {a1, a2}
  Client = {c1}
  AdminOps = {"create", "provision", "revoke", "plan"}
  Authorities = {TRUE, FALSE}
  Outages = {"writes"}
  LostEvals = FALSE
  Crashes = FALSE
  Restarts = FALSE
  Dashboard = FALSE
SYMMETRY AdminSymmetry
INVARIANT KeysFitPlan
INVARIANT NoGhostKeys
CHECK_DEADLOCK FALSE
