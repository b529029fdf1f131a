CONSTANTS
  MaxSamples = 2
  PromBuckets <- MCPromBuckets
  MaxRequests = 3
  Operation = {"tokenize", "flush", "health", "rotate"}
  Unguarded = {"health", "metrics"}
  Latency = {5, 500}
  Key = {k1}
SPECIFICATION Spec
INVARIANTS
  DrainedBeforeClose
  SweptClean
  ActiveCounts
  RingsHoldLast
  PercentilesCover
  ExpositionConsistent
PROPERTY ShutdownEnds
CHECK_DEADLOCK FALSE
