\* 512 graphs of three nodes and 4096 of four, neighbours in ascending order
CONSTANTS
  MCNodes = 4
  Node <- MCNode
  Graphs <- MCGraphs
SPECIFICATION SearchSpec
INVARIANTS SearchTypeOK CyclesAreReal EveryCyclicEdgeFound
PROPERTY SearchEnds
CHECK_DEADLOCK FALSE
