SPECIFICATION LiveSpec
CONSTANTS
  a = a
  b = b
  d1 = d1
  d2 = d2
  Rows = {1}
  Parts = {a}
  MaxPosition = 2
  MaxAccessRev = 1
  MaxEpoch = 0
  Limit = 1
  Extensions = {FALSE}
  MaxTokens = 8
  MaxIssued = 8
  Events = {"prune", "restart"}
  MaxReplies = 1
  Devices = {d1}

PROPERTIES PullConverges
CHECK_DEADLOCK FALSE
