\* A command, two reads and a probe, two workers, two connections: both reads can
\* wait for a worker with a connection in hand while both workers wait for one.
SPECIFICATION FairSpec
CONSTANTS
  CreateCall = {}
  CommandCall = {c1}
  ReadCall = {r1, r2}
  ProbeCall = {p1}
  Workers = 2
  PoolSize = 1
  MaxOverflow = 1
  MaxCrashes = 1
  NULL = NULL
CHECK_DEADLOCK FALSE
INVARIANTS
  PoolAccounted
  OnlyOutagesFail
  OnlyCrowdsTimeOut
PROPERTY
  EveryCallAnswered
