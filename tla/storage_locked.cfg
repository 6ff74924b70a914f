SPECIFICATION Spec
CONSTANTS
  p1 = p1  p2 = p2  p3 = p3  q1 = q1  q2 = q2
  d1 = d1  d2 = d2  d3 = d3  i1 = i1  i2 = i2  i3 = i3
  Nil = Nil
  Procs = {p1, p2, p3}
  Paths = {q1}
  Data = {d1, d2, d3}
  Ids = {i1, i2}
  Handlers = {"upload", "install", "trash", "mkdir"}
  Faults = {"stat", "copy", "unlink", "stalled", "crash"}
  Monitor = {}
SYMMETRY Symm
INVARIANTS TypeOK NothingLost EverythingRecoverable
PROPERTIES OverwriteKeepsVersion ImplementsVersionedFiles
CHECK_DEADLOCK FALSE
