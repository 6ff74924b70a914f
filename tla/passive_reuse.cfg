SPECIFICATION PassiveSpec
CONSTANTS
  s1 = s1  s2 = s2  s3 = s3
  NoSession = NoSession
  Sessions = {s1, s2, s3}
  N = 2
  Faults = {}
SYMMETRY Symm
INVARIANTS MappedWhileWaiting
CHECK_DEADLOCK FALSE
