SPECIFICATION Spec
CONSTANTS
  NumThreads = 3
  MaxSamples = 2
  Sizes <- MCSizes
  Wild <- MCWild
INVARIANT RangesInBounds
