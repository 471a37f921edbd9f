SPECIFICATION CreditSpec
CONSTANTS
  Spaces = {sp1}  Purchases = {o1}  Workers = {w1, w2}  NoWorker = nobody
  Grant = 1  Quantity = 2  Charges = {1}  Threshold = 1  Grace = 1
  MaxClock = 2  MaxCrashes = 0
INVARIANT BalanceIsTheTotal
CHECK_DEADLOCK FALSE
