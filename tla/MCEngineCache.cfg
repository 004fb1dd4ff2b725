\* Three business calls and a probe, any of them the first call of the process,
\* over an .env that is edited between two databases and a wrong one.
SPECIFICATION Spec
CONSTANTS
  SessionCall = {s1, s2, s3}
  ProbeCall = {p1}
  Url = {db1, db2, other}
  PostgresUrl = {db1, db2}
  NULL = NULL
CHECK_DEADLOCK FALSE
INVARIANT
  OneDatabase
PROPERTIES
  LateCallsBuildNothing
  LateSessionsShareEngine
