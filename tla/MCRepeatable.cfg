\* The same races on a server whose default isolation is REPEATABLE READ:
\* snapshots go stale while a call waits for the lock, so the constraints fire.
SPECIFICATION Spec
CONSTANTS
  NULL = NULL
  Creator = {c1}
  Controller = {k1, k2, k3}
  Reader = {}
  CaseId = {case1}
  Key = {key1}
  Reason = {why}
  Outcomes = {"OUT_OF_POLICY"}
  Commands = {"pause", "undo", "record_demo_review"}
  Dispositions = {"DEMO_ALLOW", "DEMO_DECLINE"}
  Isolation = "REPEATABLE READ"
SYMMETRY Symmetry
INVARIANTS
  StoredHistoriesLegal
  ViewsAreCommittedPrefixes
  ViewShowsOwnCommand
PROPERTIES
  EffectsAreAtomic
