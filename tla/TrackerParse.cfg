SPECIFICATION Spec
CONSTANTS
  Fields <- MCFields
  MaxFields = 4
  NumThreads = 2
INVARIANTS TypeOK MatchesSequential NoNullDeref
