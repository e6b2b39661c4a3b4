SPECIFICATION Spec
CONSTANTS
  NumberAtoms = 14
  Problems <- MCProblems
  DeadEndValue = 8
  MaxIndex = 8
  Algorithms = {"ida", "ida-tt", "dijkstra"}
  Bounds = {0, 2, 4}
  Guides = {"zero", "atom-min-1"}
INVARIANTS QueueSound AnswersExact
PROPERTY SearchEnds
CHECK_DEADLOCK FALSE
