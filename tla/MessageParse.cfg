SPECIFICATION Spec
CONSTANT Inputs <- MCInputs
INVARIANTS
  TypeOK
  FramesNest
  NoWideShift
  ParsesToMerge
  CutSpoilsOneField
  SizesAreExact
  ConversionMatches
PROPERTIES
  ReturnsAtEnd
  StreamSpec
  Termination
