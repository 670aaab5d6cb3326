\* Two levels below the root, at most two elements per Vec, a stack of (2 + 1) * (3 + 1) calls
CONSTANTS
  Types <- MCTypes
  Kind <- MCKind
  Fields <- MCFields
  GenerateDepth = 2
  IterateDepth = 2
  MaxRank = 3
  StackLimit = 12
  Roots <- MCRoots
  GenerateMaps <- MCGenerateMaps
SPECIFICATION GenSpec
INVARIANTS TypeOK DepthBounded NoStackOverflow
CHECK_DEADLOCK FALSE
