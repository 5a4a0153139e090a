SPECIFICATION SessionSpec
CONSTANTS
  Traces = {t1}
  Session = t1
  Spans = {s1, s2, s3}
  NoId = none
  ToolIds = {id1, id2}
  Used = {"input", "output"}
  OtherStatuses = {"", "other"}
  EndOptions <- SessionEnds
  MaxPoints = 0
SYMMETRY SessionSymmetry
INVARIANTS
  SessionTypeOK
  NoSpanIsLost
  EndComesLast
