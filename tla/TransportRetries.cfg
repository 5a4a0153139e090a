SPECIFICATION Spec
CONSTANTS
  MaxRetries = 3
  Deadline = 30
INVARIANTS
  TypeOK
  SentMeansProcessed
  ControlComesWithAcceptance
  GivenUpForAReason
  RetriesArePaced
PROPERTIES
  SettledIsFinal
  ImplementsDelivery
