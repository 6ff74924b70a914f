SPECIFICATION Spec
CONSTANTS
  p1 = p1  p2 = p2  p3 = p3  q1 = q1  q2 = q2
  d1 = d1  d2 = d2  d3 = d3  i1 = i1  i2 = i2  i3 = i3
  Nil = Nil
  Procs = {p1, p2}
  Paths = {q1, q2}
  Data = {d1, d2}
  Ids = {i1, i2}
  Handlers = {"upload", "trash", "rename", "move", "copy", "restore"}
  Faults = {"copy", "meta", "write", "remove", "stalled"}
  Monitor = {q1}
SYMMETRY Symm
INVARIANTS MutationExclusive ListedHasPayload
CHECK_DEADLOCK FALSE
