SPECIFICATION Spec
CONSTANTS
  States <- MCStates
  NumActions = 3
  Outcomes <- MCOutcomes
  Whole = 3
  CostUnit = 2
  GoalStates = {"g"}
  InitStates = {"i", "a", "t"}
  Heuristics <- MCAdmissible
  DeadEndValue = 9
  Epsilon = 0
  Horizon = 40
  VStar <- MCVStar
INVARIANT NeverOverestimates
PROPERTIES ConsistencyKept SolvedIsClosed AnswersAreOptimal Answered
