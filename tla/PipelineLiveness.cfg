SPECIFICATION Spec
CONSTANTS
  Callers = {c1, c2}
  Worker = w
  NoOne = none
  Capacity = 1
  BatchSize = 2
  DrainFactor = 1
  MaxEvents = 2
PROPERTIES
  EventsReachTransport
  CallsReturn
  WorkerStops
  ImplementsBuffer
