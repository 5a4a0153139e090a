SPECIFICATION SafeSpec
CONSTANTS
  Callers = {c1}
  Worker = w
  NoOne = none
  Capacity = 12
  BatchSize = 1
  DrainFactor = 10
  MaxEvents = 12
INVARIANT
  CloseSendsAllEvents
