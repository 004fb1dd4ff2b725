\* The claim about first_missing_field alone, over the same submissions.
SPECIFICATION Spec
CONSTANTS
  NULL = NULL
  Blank = Blank
  NotInteger = NotInteger
  Amounts = {0, 1000, 1001}
INVARIANT
  FirstMissingFieldIsFirstFact
