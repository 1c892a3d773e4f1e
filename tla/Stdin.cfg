SPECIFICATION FairSpec
CONSTANTS
  LineLength = 2
  MaxTyped = 6
INVARIANTS
  WholeLinesInOrder
  CharactersKept
PROPERTIES
  LinesServed
  SigintServed
