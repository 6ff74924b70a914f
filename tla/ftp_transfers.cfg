SPECIFICATION Spec
CONSTANTS
  s1 = s1  s2 = s2
  Hole = Hole
  Absent = Absent
  Sessions = {s1, s2}
  MaxLen = 2
SYMMETRY Symm
INVARIANTS ResumedDownload HolesNeedRace
