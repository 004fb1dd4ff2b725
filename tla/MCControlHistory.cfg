\* One trace, histories of up to nine rows. The id supply ends a history, so
\* the last state of each behaviour has no successor.
SPECIFICATION Spec
CONSTANTS
  NULL = NULL
  EventId = {u1, u2, u3, u4, u5, u6, u7, u8, u9}
CHECK_DEADLOCK FALSE
INVARIANTS
  ChainIntact
  ReplayNeverFails
  RecordedPriorStateTrue
  ReversalRestores
  HeldCaseCanBeReleased
  IndInv
PROPERTIES
  ImplementsControlDeck
