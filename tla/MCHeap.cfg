SPECIFICATION FairSpec
CONSTANTS
  Threads = {t1}
  Slots = {s1, s2}
  Node = Node
  PairArray = PairArray
  Cell = Cell
  Kinds <- MCKinds
  Arrays = {PairArray}
  Words <- MCWords
  Refs <- MCRefs
  HeaderWords = 1
  Capacity = 6
  Idents = {i1, i2, i3}
  NULL = NULL
  Marked = Marked
INVARIANTS TypeOK ArenaIsObjects MarksReachable MoveSparesSurvivors
PROPERTIES ImplementsGraph CollectionEnds
CHECK_DEADLOCK FALSE
