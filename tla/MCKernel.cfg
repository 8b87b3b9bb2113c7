SPECIFICATION Spec
CONSTANTS
  n1 = n1
  n2 = n2
  n3 = n3
  Names <- MCNames
  AppLists <- MCAppLists
  Graphs <- MCGraphs
  Flaws <- MCFlaws
INVARIANTS
  DependenciesFirst
  BootResult
PROPERTIES
  BootEnds
CHECK_DEADLOCK FALSE
