SPECIFICATION FairSpec
CONSTANTS
  hmip = hmip
  cuxd = cuxd
  Clients = {hmip}
  Kind <- OnlyCCU
  Push = {hmip}
  MaxFailedChecks = 3
  WarnTicks = 2
  ReconnectTicks = 1
  Slow = {}
  Slots = {1}
  Outages <- AllOutages
  Flaky = {}
  MaxFaults = 3
INVARIANTS
  TypeOK
  NoStuckDevice
  FailingIsUnavailable
  ChecksAndReconnectsAlternate
PROPERTIES
  RegistrationRestored
  AvailabilityRestored
  ValuesReloaded
  CallbackRestored
