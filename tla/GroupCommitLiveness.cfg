CONSTANTS
  a = a
  b = b
  Keys = {a, b}
  Programs <- LivenessPrograms
  MaxLine = 4
  MaxOutstanding = 1
SPECIFICATION FairSpec
INVARIANTS
  FullInv
PROPERTIES
  EveryJobDelivered
  CloseEnds
CHECK_DEADLOCK FALSE
