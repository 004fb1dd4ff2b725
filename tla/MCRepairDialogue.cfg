\* Every submission over three texts, three categories, the amounts at and next to
\* the limit and at zero, and both evidence declarations.
SPECIFICATION Spec
CONSTANTS
  NULL = NULL
  Blank = Blank
  NotInteger = NotInteger
  Amounts = {0, 1000, 1001}
INVARIANTS
  DecisionFollowsContract
  NormalizationNeutral
PROPERTIES
  RepairEnds
