SPECIFICATION Spec
CONSTANTS
  k1 = k1  k2 = k2  c1 = c1  c2 = c2  c3 = c3
  NoLink = NoLink
  Links = {k1, k2}
  Clients = {c1, c2}
  MaxLimit = 2
  MaxServed = 3
  Faults = {"save", "crash"}
SYMMETRY Symm
INVARIANTS TypeOK LimitHeld ReservationsExact DeliveriesWithinLimit CreatedSurvives
PROPERTIES DeletedStaysDeleted
