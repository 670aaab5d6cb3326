\* every 5-type grammar of the family, each from its types 1 and 2
CONSTANTS
  Grammars = 1568
  Types <- MCTypes
  Kind <- MCKind
  Fields <- MCFields
  Phantom = 100000
  RegRoots <- MCRoots
SPECIFICATION RegSpec
INVARIANTS RegTypeOK PopsMatch MapsTheGrammar
PROPERTIES WalkedOnce RegistrationEnds
CHECK_DEADLOCK FALSE
