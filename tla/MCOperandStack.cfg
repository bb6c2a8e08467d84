SPECIFICATION Spec
CONSTANTS
  MaxStacks = {4, 6}
  MaxLocals = 2
  BitsPerWord = 4
INVARIANTS TypeOK ReferencesAreRoots BitsAreReferences RefusedForHalf
CHECK_DEADLOCK FALSE
