SPECIFICATION Spec
CONSTANTS
  NumberAtoms = 10
  Problems <- MCProblems
  DeadEndValue = 30
  MaxDatabases = 100
  Ms = {1, 2}
INVARIANTS AtomMin1Admissible AtomMinMAdmissible FfTellsGoalsAndDeadEnds OrbitsCovered PatternsAdmissible
CHECK_DEADLOCK FALSE
