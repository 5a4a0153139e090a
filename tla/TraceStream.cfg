SPECIFICATION Spec
CONSTANTS
  Traces = {t1}
  Spans = {s1, s2}
  NoId = none
  Used = {"output"}
  OtherStatuses = {"", "other"}
  EndOptions <- PlainEnd
  MaxPoints = 1
SYMMETRY IdSymmetry
CONSTRAINT OneDetail
INVARIANTS
  TypeOK
  EndedIsReportedOnce
  StartComesFirst
  HaltIsObserved
  StatusIsDefinite
