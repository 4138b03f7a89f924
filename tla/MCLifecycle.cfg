SPECIFICATION FairSpec
CONSTANTS
  hmip = hmip
  virt = virt
  Interfaces = {hmip, virt}
  Candidates = {hmip}
  Listings <- AnyListing
  MaxStarts = 2
  MaxFaults = 1
INVARIANTS TypeOK NoClientLost NoCallCutOff
PROPERTIES ClientsRestored StopEnds CleanStop
CHECK_DEADLOCK FALSE
