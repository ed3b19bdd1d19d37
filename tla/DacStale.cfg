SPECIFICATION Spec
CONSTANTS
  Fields <- LongString
  Strays <- EmptyFunctions
  MaxFields = 2
  SuccSkipLim = 0
INVARIANT MergedIsReal
