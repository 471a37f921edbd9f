SPECIFICATION Spec
CONSTANTS
  i1 = i1
  i2 = i2
  t1 = t1
  t2 = t2
  alice = alice
  bob = bob
  w1 = w1
  w2 = w2
  Items = {i1}
  Transports = {t1}
  Actors = {alice}
  Recipient = alice
  Workers = {w1, w2}
  NoWorker = NoWorker
  MaxEvents = 2
  Events = {"settings", "prune", "reading"}
  MaxAttempts = 2
  MaxFaults = 1
INVARIANTS OneQueuedAlert TypeOK AttemptsMatchCalls

SYMMETRY Alike
PROPERTIES SettlementIsFinal
