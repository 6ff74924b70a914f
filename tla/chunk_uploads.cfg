SPECIFICATION FairSpec
CONSTANTS
  p1 = p1  p2 = p2  k1 = k1  l1 = l1  l2 = l2
  Nil = Nil
  Missing = Missing
  Procs = {p1, p2}
  Uploads = {k1}
  Locks = {l1, l2}
  Total <- Two
  MaxChunk = 2
  Faults = {"io", "commit", "crash"}
INVARIANTS TypeOK Assembled PartIsPrefix UploadExclusive LocksReclaimed
PROPERTIES ChunksAnswered
