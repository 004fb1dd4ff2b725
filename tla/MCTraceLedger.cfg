\* Two creations, three control calls with one key or none, one read.
SPECIFICATION Spec
CONSTANTS
  NULL = NULL
  Creator = {c1, c2}
  Controller = {k1, k2, k3}
  Reader = {r1}
  CaseId = {case1}
  Key = {key1}
  Reason = {why}
  Outcomes = {"OUT_OF_POLICY"}
  Commands = {"pause", "undo"}
  Dispositions = {"DEMO_ALLOW"}
SYMMETRY Symmetry
CHECK_DEADLOCK FALSE
INVARIANTS
  ViewsStayTrue
PROPERTY
  HistoriesOnlyGrow
