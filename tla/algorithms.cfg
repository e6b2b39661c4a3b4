SPECIFICATION Spec
CONSTANTS
  States <- MCStates
  NumActions = 3
  Outcomes <- MCOutcomes
  Whole = 4
  CostUnit = 1
  GoalStates = {"g"}
  InitStates = {"i", "b"}
  Heuristics <- MCAdmissible
  DeadEndValue = 6
  Epsilon = 0
  Horizon = 40
  VStar <- MCVStar
  Planners = {"vi", "asp", "hdp"}
  InitOrder <- MCInitOrder
  Simulations = 2
  Cutoff = 2
  J = 1
  MaxIndex = 3
  Noise = TRUE
INVARIANTS NeverOverestimates ViOptimal
PROPERTIES MarkedWhenClosed AnswersDefined Answered
CHECK_DEADLOCK FALSE
