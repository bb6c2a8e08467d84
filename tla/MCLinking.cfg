SPECIFICATION Spec
CONSTANTS
  Worlds <- AllWorlds
  Main = "Main"
  MainDepth = 0
  Depths = {1}
INVARIANTS TypeOK OverridesAreReached InterfaceCallsArrive FieldsDoNotOverlap
  CastsAgreeWithFiles TableIsClosed AbortNeedsTwoCopies BrokenListNeedsReuse FreshInterfacesAreFound
 
CHECK_DEADLOCK FALSE
