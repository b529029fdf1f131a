SPECIFICATION Spec
CONSTANTS
  v1 = v1
  h1 = h1
  d1 = d1
  t1 = t1
  Value = {v1, v2}
  None = None
  Type = {t1, t2}
  Hash = {h1, h2}
  Dek = {d1, d2}
  MaxAttempts = 2
  MaxTexts = 2
  Call = {c1, c2}
  Request = {r1, r2}
  Worlds <- Both
SYMMETRY CallSymmetry
INVARIANT TokenMeansValue
INVARIANT OneNamePerValue
INVARIANT NamesApart
CHECK_DEADLOCK FALSE
