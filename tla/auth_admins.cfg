SPECIFICATION Spec
CONSTANTS
  u1 = u1  u2 = u2  p1 = p1  p2 = p2
  Nobody = Nobody
  Users = {u1, u2}
  Groups = {"admins"}
  Boot = u1
  Admins = "admins"
  Procs = {p1, p2}
  Handlers = {"user", "delete", "grant"}
  Faults = {"save", "crash"}
SYMMETRY Symm
INVARIANTS TypeOK AdminRemains RestartKeepsAdmin
