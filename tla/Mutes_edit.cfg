SPECIFICATION Spec
CONSTANTS
  Channel = {c1, c2}
  First = {c1}
  Own = {NoOwn, Muted, partial}
  NoOwn = NoOwn
  Muted = Muted
  Other = {NoBits, pinned}
  NoBits = NoBits
  Absent = Absent
  Threshold = 2
  MaxQueue = 2
  MaxEdits = 1
  MaxFaults = 0
INVARIANTS UnrelatedChangesSurvive
