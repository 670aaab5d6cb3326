\* the default --generate-depth; --iterate-depth 2 for the default 5 keeps the run short
CONSTANTS
  WithUnit = TRUE
  Types <- MCTypes
  Kind <- MCKind
  Fields <- MCFields
  Phantom <- MCPhantom
  RegRoots <- MCRoots
  Node <- MCNode
  Graphs = {}
  TyMaps = {}
  GenerateMaps = {}
  Roots <- MCRoots
  GenerateDepth = 2
  IterateDepth = 2
  StackLimit = 16
  MaxRank = 4
SPECIFICATION VisitorSpec
INVARIANT EveryTypeIsKnown
CHECK_DEADLOCK FALSE
