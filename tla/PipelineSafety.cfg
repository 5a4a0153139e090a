SPECIFICATION SafeSpec
CONSTANTS
  Callers = {c1, c2}
  Worker = w
  NoOne = none
  Capacity = 3
  BatchSize = 2
  DrainFactor = 1
  MaxEvents = 4
SYMMETRY CallerSymmetry
INVARIANTS
  TypeOK
  Custody
  ClosedMeansQuiet
  NoDoubleClose
  StopLeavesNothingBehind
  FlushedMeansHanded
PROPERTIES
  DeliveredInOrder
  ImplementsBufferSafely
