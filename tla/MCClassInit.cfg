SPECIFICATION FairSpec
CONSTANTS
  Threads = {t1, t2}
  Object = Object
  Base = Base
  Left = Left
  Right = Right
  Classes <- MCClasses
  NULL = NULL
  Parent <- MCParent
  WithClinit <- MCWithClinit
  Uses <- MCUses
  MaxCalls = 3
INVARIANTS TypeOK SuperclassFirst ReturnsInitialized
PROPERTIES NeededClassesArrive CollectionsTakePlace
CHECK_DEADLOCK FALSE
