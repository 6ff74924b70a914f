SPECIFICATION Spec
CONSTANTS
  r = r  d = d  f = f
  p1 = p1  p2 = p2  v1 = v1
  Procs = {p1, p2}
  Visitors = {v1}
  Files = {f}
  Listings = {r, d}
  Parent <- MCParent
  Below <- MCBelow
INVARIANTS FilesFresh
