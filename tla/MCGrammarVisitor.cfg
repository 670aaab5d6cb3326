\* all 140 grammars, two levels below the root, Vecs of at most two elements,
\* a stack of (2 + 1) * 5 calls, one per type of a grammar and level
CONSTANTS
  Grammars = 140
  Types <- MCTypes
  Kind <- MCKind
  Fields <- MCFields
  Phantom <- MCPhantom
  RegRoots <- MCRoots
  Node <- MCNode
  Graphs = {}
  TyMaps = {}
  GenerateMaps = {}
  Roots <- MCRoots
  GenerateDepth = 2
  IterateDepth = 2
  StackLimit = 15
  MaxRank = 3
SPECIFICATION VisitorSpec
INVARIANTS OverflowNeedsUnlimitedCycle PanicNeedsOpaqueType GenerationTypeOK
CHECK_DEADLOCK FALSE
