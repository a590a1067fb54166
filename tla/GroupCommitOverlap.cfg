CONSTANTS
  a = a
  b = b
  Keys = {a, b}
  Programs <- OverlapPrograms
  MaxLine = 4
  MaxOutstanding = 2
SPECIFICATION Spec
INVARIANTS
  TypeOK
  ResolvedIsDurable
  PublishedInOrder
  FailureBoundary
  DerivedIsDurable
  CleanCloseStoresAll
PROPERTIES
  DeliveredInOrder
  ImplementsSerial
