\* One trace, created, read and commanded twice with the same key, while the
\* operator runs up to four alembic commands and one statement by hand.
SPECIFICATION FairSpec
CONSTANTS
  CreateCall = {n1}
  CommandCall = {c1, c2}
  ReadCall = {r1}
  Trace = {t1}
  Key = {k1}
  MaxCommands = 4
  MaxTampers = 1
  MaxCrashes = 1
  NULL = NULL
CHECK_DEADLOCK FALSE
INVARIANTS
  SchemaIsRevision
  MigrationsNeverRefused
  KeyActsAgainOnlyIfErased
PROPERTIES
  HistorySurvives
  EverythingEnds
