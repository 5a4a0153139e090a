SPECIFICATION Spec
CONSTANTS
  Values <- CarelessValues
  ShutdownWait = 1
  Flushers = {f1}
  ApiCallers = {c1}
  Poller = poller
  Closer = closer
  RequestTime = 3
  MaxOvertaken = 0
INVARIANTS
  CloseKeepsItsTimeout
