SPECIFICATION FairSpec
CONSTANTS
  Clients = {c1, c2, c3}
  Ttl = 3
  MaxRetries = 2
INVARIANTS TypeOK MutexUnlessOverrun
PROPERTIES DeletesOwnKey WaiterLeaves
