SPECIFICATION Spec
CONSTANTS
  NumThreads = 3
  MaxSamples = 4
  Sizes <- MCSizes
  Wild <- MCWild
INVARIANT AllSamplesParsed
