SPECIFICATION Spec
CONSTANTS
  Req = {r1}
  Hash = {h1, h2}
  Dek = {1, 2, 3, 4, 5, 6, 7}
  NoDek = 0
  Rev = {1, 2, 3, 4}
  NoRev = 0
  Op = {op1}
  Tokenizer = {t1}
  Flusher = {f1}
  Rotator = {o1}
  TTL = 2
  MaxTries = 2
  RotationTries = 2
  SequentialClients = FALSE
  Shutdowns = FALSE
PROPERTIES
  FlushLeavesNothing
