\* A read whose answer is slow and a probe are enough when the pool is small.
SPECIFICATION FairSpec
CONSTANTS
  CreateCall = {}
  CommandCall = {c1}
  ReadCall = {r1}
  ProbeCall = {p1}
  Workers = 2
  PoolSize = 1
  MaxOverflow = 0
  MaxCrashes = 1
  NULL = NULL
CHECK_DEADLOCK FALSE
INVARIANT
  HealthTruthful
