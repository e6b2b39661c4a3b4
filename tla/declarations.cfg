SPECIFICATION Spec
CONSTANTS
  VariableNames = {"?x", "?y"}
  Texts <- MCTexts
INVARIANTS HierarchyExact ReadAlike WellTyped BindersExact MetricDynamic
CHECK_DEADLOCK FALSE
