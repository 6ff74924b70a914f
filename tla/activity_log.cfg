SPECIFICATION Spec
CONSTANTS
  Junk = Junk
  Limit = 3
  ScanLimit = 3
  PageLimit = 2
  MaxEvents = 5
INVARIANTS TypeOK IdsIncrease TornCostsOne PollComplete
