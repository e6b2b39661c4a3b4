SPECIFICATION RulesSpec
CONSTANTS
  Trees <- MCTrees
  Effects <- MCEffects
INVARIANTS RulesFollowTree OddsAddUp
CHECK_DEADLOCK FALSE
