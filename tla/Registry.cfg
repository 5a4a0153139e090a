SPECIFICATION Spec
CONSTANTS
  Agents = {a1, a2}
  NoAgent = noAgent
  Payloads <- RegistryPayloads
  Sessions = {s1, s2}
  NoSession = noSession
  RecordTTLs <- TTLsToRecord
  Checkers = {c1}
  Second = 2
  MaxDelivered = 3
  MaxTime = 3
CONSTRAINT OrderOrSessions
SYMMETRY RegistrySymmetry
INVARIANTS
  TypeOK
  HaltsFollowNewest
  PolicyFollowsNewest
  SessionIsLastRecorded
PROPERTY
  AttachedWithinTTL
