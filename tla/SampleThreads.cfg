SPECIFICATION FairSpec
CONSTANTS
  NumThreads = 3
  MaxSamples = 5
  Sizes <- MCSizes
  Wild <- MCWild
INVARIANTS TypeOK ParsedOnce LoadBound UnparsedIsTail TailBound
PROPERTY Termination
