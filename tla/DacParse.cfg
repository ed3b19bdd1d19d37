SPECIFICATION FairSpec
CONSTANTS
  Fields <- MCFields
  Strays <- MCStrays
  MaxFields = 4
  SuccSkipLim = 0
INVARIANTS TypeOK FirstIsComplete FirstStartWins TrialIsSuffix SuffixComesTwice
PROPERTY Termination
