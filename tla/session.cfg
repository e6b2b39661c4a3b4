SPECIFICATION Spec
CONSTANTS
  States <- MCStates
  InitStates <- MCInit
  GoalStates <- MCGoal
  Actions <- MCActions
  Enabled <- MCEnabled
  Succ <- MCSucc
  Decisions <- MCAny
  Done = "done"
  RoundLimit = 2
  TurnLimit = 2
  TimeLimit = 2
  NumProblems = 1
  MayCrash = TRUE
  MaxElapsed = 3
  Garbage <- MCGarbage
INVARIANTS TypeOK ActOnCurrentState TotalTimeWithinLimit KilledOnlyByDeserter
PROPERTIES SessionEnds KeepsPromise
