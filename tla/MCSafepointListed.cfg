SPECIFICATION Spec
CONSTANTS
  Threads = {t1, t2, t3}
  Head = Head
  MaxCollections = 2
INVARIANT ListedIsWaiting
SYMMETRY Symmetry
