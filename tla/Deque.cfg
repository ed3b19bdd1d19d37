SPECIFICATION Spec
CONSTANTS
  t1 = t1
  t2 = t2
  Thieves <- MCThieves
  NumJobs = 4
  QSize = 4
SYMMETRY Symmetry
INVARIANTS TypeOK NoDoubleTake Conservation StealIsCurrent
PROPERTY ImplementsAtomicDeque
