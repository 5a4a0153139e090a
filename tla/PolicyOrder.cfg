SPECIFICATION Spec
CONSTANTS
  Agents = {a1}
  NoAgent = noAgent
  Payloads <- PartialPayloads
  Sessions = {}
  NoSession = noSession
  RecordTTLs = {}
  Checkers = {}
  Second = 1
  MaxDelivered = 2
  MaxTime = 0
INVARIANT
  PolicyIsOrderTolerant
