SPECIFICATION Spec
CONSTANTS
  Fields <- TwoFields
  Strays <- NoStrays
  MaxFields = 2
  SuccSkipLim = 0
INVARIANT TrialIsLive
