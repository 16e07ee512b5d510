SPECIFICATION FairSpec
CONSTANTS
  ManualRequests = {1}
  Powers <- NoPowers
  Roundings = {"up"}
  RoundingWrites = {}
  Choice <- NoChoice
  ExternalCurrents = {32}
  OtherCurrents = {16}
  FirmwareUpdates = {}
  OtherClears = FALSE
  GdReports = {"available", "preparing", "charging", "suspended", "fault"}
  LoadReports = {0, 1}
  Faults = {"lateReports", "gdRestart", "simulator", "unplug"}
  MaxWire = 2
PROPERTY SwitchEnds
