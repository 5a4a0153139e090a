SPECIFICATION Spec
CONSTANTS
  Agents = {a1, a2}
  NoAgent = noAgent
  Callers = {c1}
  MaxChanges = 3
  MaxFailures = 1
INVARIANTS
  TypeOK
  UpToDateIsRight
  StopIsQuiet
PROPERTY
  Converges
