SPECIFICATION Spec
CONSTANTS
  Key = {k1, k2}
  NoKey = NoKey
  Plan = {free}
  FreePlan = free
  MaxKeys <- OnePlan
  Admin = {a1}
  Client = {c1}
  AdminOps = {"provision"}
  Authorities = {TRUE}
  Outages = {"reads"}
  LostEvals = FALSE
  Crashes = FALSE
  Restarts = FALSE
  Dashboard = FALSE
SYMMETRY AdminSymmetry
PROPERTY ProvisionKeepsExisting
CHECK_DEADLOCK FALSE
