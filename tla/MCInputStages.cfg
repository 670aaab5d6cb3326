\* one recursive step deep, generated lists of at most one element, imported
\* ones of up to four; two mutators in a row; 7 bytes, 2 of them compared
CONSTANTS
  Types <- MCTypes
  Kind <- MCKind
  Fields <- MCFields
  FieldsOf <- MCFieldsOf
  CmpsOf <- MCCmpsOf
  Mutate <- MCMutate
  Entries <- MCEntries
  ArrayLen <- MCArrayLen
  Recursive <- MCRecursive
  Registered <- MCRegistered
  GenerateDepth = 1
  IterateDepth = 1
  MutRoots <- MCRoots
  Imported <- MCImported
  MaxSubslice = 2
  MaxRounds = 2
  Byte = {0, 1}
  MaxSize = 6
  MaxWidth = 2
SPECIFICATION InputSpec
INVARIANTS InputTypeOK PathsLead PanicsAreKnown LengthsKept
INVARIANTS LocallyMinimal PopsInRange RecursiveTriesAll
INVARIANTS BytesTypeOK OverOnlyWithoutRepeat
PROPERTIES MinimizationEnds EndsWithoutRepeat
CHECK_DEADLOCK FALSE
