\* Two creations of one case, two control calls with one key or none and a read.
SPECIFICATION Spec
CONSTANTS
  NULL = NULL
  Creator = {c1, c2}
  Controller = {k1, k2}
  Reader = {r1}
  CaseId = {case1}
  Key = {key1}
  Reason = {why}
  Outcomes = {"OUT_OF_POLICY"}
  Commands = {"pause", "undo"}
  Dispositions = {}
  Isolation = "READ COMMITTED"
SYMMETRY Symmetry
INVARIANTS
  TraceWhole
  RefusalsJustified
PROPERTY
  ImplementsLedger
