SPECIFICATION SystemSpec
CONSTANTS
  ManualRequests = {1, 3}
  Powers <- NoPowers
  Roundings = {"up"}
  RoundingWrites = {}
  Choice <- NoChoice
  ExternalCurrents = {32}
  OtherCurrents = {16}
  FirmwareUpdates = {TRUE, FALSE}
  OtherClears = FALSE
  GdReports = {"available", "preparing", "charging", "suspended", "fault"}
  LoadReports = {0, 1, 3}
  Faults = {"espRestart", "unplug", "simulator"}
  MaxWire = 2
INVARIANT SystemTypeOK
PROPERTY ImplementsPhaseRelay
