\* Three control calls race on one trace, every command, one shared key or none.
\* Both outcomes a command can act on.
SPECIFICATION Spec
CONSTANTS
  NULL = NULL
  Creator = {c1}
  Controller = {k1, k2, k3}
  Reader = {}
  CaseId = {case1}
  Key = {key1}
  Reason = {why}
  Outcomes = {"OUT_OF_POLICY", "MISSING_FACT"}
  Commands = {"pause", "resume", "record_demo_review", "undo"}
  Dispositions = {"DEMO_ALLOW", "DEMO_DECLINE"}
  Isolation = "READ COMMITTED"
SYMMETRY Symmetry
INVARIANTS
  TypeOK
  KeyActsOnce
  RefusedLeavesNothing
  LoadedIsCurrent
  ConstraintsNeverFire
PROPERTY
  IllegalRefusalsTrue
