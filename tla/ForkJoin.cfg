SPECIFICATION FairSpec
CONSTANTS
  NumThreads = 3
  Loops <- MCLoops
INVARIANTS TypeOK EachOnce PopsItsOwn JobIsAlive StartsFreshJob IdleDequeIsEmpty
PROPERTIES ImplementsParallelFor Termination
