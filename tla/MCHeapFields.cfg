SPECIFICATION Spec
CONSTANTS
  Threads = {t1, t2}
  Slots = {s1, s2}
  Node = Node
  PairArray = PairArray
  Cell = Cell
  Kinds <- MCFieldKinds
  Arrays = {}
  Words <- MCFieldWords
  Refs <- MCFieldRefs
  HeaderWords = 1
  Capacity = 8
  Idents = {i1, i2, i3, i4}
  NULL = NULL
  Marked = Marked
INVARIANT NoDangling
CHECK_DEADLOCK FALSE
