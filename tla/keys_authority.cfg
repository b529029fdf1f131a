SPECIFICATION Spec
CONSTANTS
  Key = {k1, k2}
  NoKey = NoKey
  Plan = {free}
  FreePlan = free
  MaxKeys <- OnePlan
  Admin = {a1, a2}
  Client = {c1}
  AdminOps = {"create", "revoke"}
  Authorities = {TRUE, FALSE}
  Outages = {"reads", "writes"}
  LostEvals = TRUE
  Crashes = TRUE
  Restarts = TRUE
  Dashboard = TRUE
SYMMETRY AdminSymmetry
INVARIANT RevocationIsFinal
INVARIANT KeysInv
CHECK_DEADLOCK FALSE
