SPECIFICATION Spec
CONSTANTS
  a = a
  b = b
  d1 = d1
  d2 = d2
  Rows = {1}
  Parts = {a}
  MaxPosition = 2
  MaxAccessRev = 1
  MaxEpoch = 1
  Limit = 2
  Extensions = {TRUE, FALSE}
  MaxTokens = 1
  MaxIssued = 2
  Events = {"membership", "rebind", "prune", "restart", "retire", "idle", "reclaim", "expire"}
  MaxReplies = 1
  Devices = {d1, d2}
INVARIANTS TypeOK CursorsCoverTheLog

ACTION_CONSTRAINT FewRareEvents
CHECK_DEADLOCK FALSE
