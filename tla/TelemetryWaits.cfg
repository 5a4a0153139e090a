SPECIFICATION SafeSpec
CONSTANTS
  Callers = {c1, c2, c3}
  Worker = w
  NoOne = none
  Capacity = 2
  BatchSize = 2
  DrainFactor = 10
  MaxEvents = 2
INVARIANT
  TelemetryNeverWaitsForNetwork
