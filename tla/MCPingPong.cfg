SPECIFICATION Spec
CONSTANTS
  AllowedDelta = 2
  Ttl = 2
  Day = 4
  MaxNow = 4
  MaxJumps = 1
INVARIANTS TypeOK MismatchIsReported
CHECK_DEADLOCK FALSE
