SPECIFICATION Spec
CONSTANTS
  Req = {r1}
  Hash = {h1}
  Dek = {1, 2, 3, 4, 5, 6, 7}
  NoDek = 0
  Rev = {1, 2, 3, 4}
  NoRev = 0
  Op = {op1}
  Tokenizer = {t1}
  Flusher = {}
  Rotator = {o1,o2}
  TTL = 1
  MaxTries = 2
  RotationTries = 1
  SequentialClients = FALSE
  Shutdowns = FALSE
SYMMETRY RotatorSymmetry
INVARIANTS
  AnswersAgree
  VaultInv


