SPECIFICATION Spec
CONSTANTS
  Trees <- MCTrees
  Effects <- MCEffects
  Objects <- MCObjects
  Scenes <- MCScenes
  Size <- MCSize
  Goals <- MCGoals
  Rounds = 2
  Levels = 6
INVARIANTS TowerCounted OneTop PlansAreRounds ArmBuildsTower
CHECK_DEADLOCK FALSE
