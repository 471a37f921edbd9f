SPECIFICATION CopiesSpec
CONSTANTS
  a = a
  d1 = d1
  d2 = d2
  Rows = {1, 2}
  Parts = {a}
  MaxPosition = 2
  MaxAccessRev = 1
  MaxEpoch = 0
  Limit = 2
  Extensions = {TRUE, FALSE}
  MaxTokens = 2
  MaxIssued = 4
  Events = {}
  MaxReplies = 2
  Devices = {d1, d2}
INVARIANTS CursorsCoverTheLog CertificatesAreComplete
PROPERTIES CheckpointKeepsItsPlace
SYMMETRY Alike
CHECK_DEADLOCK FALSE
