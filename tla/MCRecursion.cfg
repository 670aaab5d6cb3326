CONSTANTS
  Node <- MCNode
  Graphs <- MCGraphs
  TyMaps <- MCTyMaps
SPECIFICATION RecSpec
INVARIANTS RecTypeOK MarksAreRecursive UnmarkedCyclesAreEven
CHECK_DEADLOCK FALSE
