SPECIFICATION Spec
CONSTANTS
  a = a
  b = b
  d1 = d1
  d2 = d2
  Rows = {1}
  Parts = {a}
  MaxPosition = 3
  MaxAccessRev = 1
  MaxEpoch = 0
  Limit = 1
  Extensions = {TRUE}
  MaxTokens = 6
  MaxIssued = 5
  Events = {}
  MaxReplies = 1
  Devices = {d1}
INVARIANTS CertificatesCoverThePrefix

CHECK_DEADLOCK FALSE
