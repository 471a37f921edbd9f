SPECIFICATION Spec
CONSTANTS
  a = a
  b = b
  d1 = d1
  d2 = d2
  Rows = {1}
  Parts = {a, b}
  MaxPosition = 3
  MaxAccessRev = 1
  MaxEpoch = 0
  Limit = 1
  Extensions = {TRUE, FALSE}
  MaxTokens = 4
  MaxIssued = 3
  Events = {}
  MaxReplies = 1
  Devices = {d1}
INVARIANTS LabelsAreSound RemovalsReachTheDevice

ACTION_CONSTRAINT ThirdPageBeforeChange
CHECK_DEADLOCK FALSE
