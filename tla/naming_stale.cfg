SPECIFICATION Spec
CONSTANTS
  v1 = v1
  h1 = h1
  d1 = d1
  t1 = t1
  Value = {v1, v2}
  None = None
  Type = {t1, t2}
  Hash = {h1, h2}
  Dek = {d1, d2}
  MaxAttempts = 2
  MaxTexts = 3
  Call = {c1}
  Request = {r1}
  Worlds <- Stale
SYMMETRY CallSymmetry
INVARIANT TokenMeansValue
CHECK_DEADLOCK FALSE
