SPECIFICATION FairSpec
CONSTANTS
  Threads = {t1, t2, t3}
  Head = Head
  MaxCollections = 2
INVARIANTS TypeOK ActiveIsCounted StopTheWorld
PROPERTY RequestersCollect
CHECK_DEADLOCK FALSE
