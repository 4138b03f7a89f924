SPECIFICATION Spec
CONSTANTS
  Devices = {d1, d2}
  MaxPairs = 2
  Troubles = {"unpair", "crash", "restart", "stop", "fault", "clear"}
  MaxTroubles = 1
INVARIANTS
  TypeOK
  OneObjectPerDevice
  CreatedIsStored
  UnchangedMeansStored
  IndexAgrees
  DescribedAgain
PROPERTIES
  PairedAppears
  Settles
CHECK_DEADLOCK FALSE
