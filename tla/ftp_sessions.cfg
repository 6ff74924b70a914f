SPECIFICATION Spec
CONSTANTS
  s1 = s1  s2 = s2  alice = alice  bob = bob
  Nil = Nil
  Clients = {s1, s2}
  Users = {alice, bob}
  Keys = {alice, bob}
  Normal <- MCNormal
  Perms = {"upload"}
  RequireTLS = TRUE
  Limit = 1
  Window = 2
  Lockout = 1
  TrimEvery = 1
SYMMETRY Symm
INVARIANTS SessionTypeOK FailuresBounded LoginProven
PROPERTIES LockExact RevokedStops
