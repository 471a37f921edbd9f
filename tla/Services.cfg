SPECIFICATION ServicesSpec
CONSTANTS
  Spaces = {sp1}  Purchases = {o1}  Workers = {w1, w2}  NoWorker = nobody
  Grant = 1  Quantity = 2  Charges = {1}  Threshold = 1  Grace = 1
  MaxClock = 2  MaxCrashes = 1
  Customers = {cust}  Workspaces = {ws}  Orders = {ord}  GrantKeys = {gk1}
  Clients = {k1, k2}  Towers = {t1}  Nobody = nobody
  Welcome = 2  PromoLife = 2  Amounts = {1}  Price = 2  Readings = {3}
  Batch = 1  MaxTime = 2  MaxAsked = 1  MaxFaults = 1
  Recipients = {1, 2}  Readers = {1}  Page = 1  Limit = 1
  Projectors = {m1, m2}  MaxAttempts = 2
  Ops = {"rule", "publish", "resolve", "withdraw"}  MaxEvents = 2  MaxMoves = 2
  nobody = nobody  sp1 = sp1  o1 = o1  w1 = w1  w2 = w2
  cust = cust  ws = ws  ord = ord  gk1 = gk1  k1 = k1  k2 = k2  t1 = t1
  m1 = m1  m2 = m2
INVARIANTS
  ServicesTypeOK
  CreditsAndChargesHappenOnce BlockFollowsTheBalance
  EvidenceMatchesLedger HoursHaveNoGap FundsRestoreWrites
  EachEventCountsOnce DoneMeansEveryRecipient ViewedItemsAreRead
  CopyFollowsTheInbox
PROPERTIES BalanceIsPrepaid BulkReadsOnlyTheSeen
SYMMETRY Alike
CHECK_DEADLOCK FALSE
