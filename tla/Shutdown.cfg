SPECIFICATION Spec
CONSTANTS
  Values <- CarelessValues
  ShutdownWait = 1
  Flushers = {f1, f2}
  ApiCallers = {c1}
  Poller = poller
  Closer = closer
  RequestTime = 3
  MaxOvertaken = 1
SYMMETRY FlusherSymmetry
INVARIANTS
  TypeOK
  CloseIsBounded
  ReadersAreReleased
