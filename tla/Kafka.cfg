SPECIFICATION MCSpec
CONSTANTS
  Clients = {c1, c2}
  Partitions = {p1}
  MaxCalls = 2
  DeliveryCap = 1
  MaxRestarts = 1
  MaxLog = 2
  ErrCap = 1
  Brokers = {b1, b2}
  MaxEvents = 2
  ErrorRoom = 1
INVARIANTS EventsSound PanicOnlyIfClosedEarly CommitSound HealthTold
CHECK_DEADLOCK FALSE
