SPECIFICATION FairSpec
CONSTANTS
  hmip = hmip
  cuxd = cuxd
  Clients = {hmip, cuxd}
  Kind <- CCUAndJson
  Push = {hmip}
  MaxFailedChecks = 0
  WarnTicks = 1
  ReconnectTicks = 1
  Slow = {hmip}
  Slots = {1, 2}
  Outages <- JsonOutages
  Flaky = {hmip}
  MaxFaults = 2
PROPERTIES
  RegistrationRestored
