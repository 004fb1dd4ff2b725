\* Every call answered, under weak fairness of the received calls, and reads that
\* see what was answered before them. No symmetry.
SPECIFICATION FairSpec
CONSTANTS
  NULL = NULL
  Creator = {c1, c2}
  Controller = {k1, k2}
  Reader = {r1}
  CaseId = {case1}
  Key = {}
  Reason = {why}
  Outcomes = {"OUT_OF_POLICY"}
  Commands = {"pause"}
  Dispositions = {"DEMO_ALLOW"}
  Isolation = "READ COMMITTED"
PROPERTIES
  EveryCallAnswered
  ReadsSeeAnsweredViews
