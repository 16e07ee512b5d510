SPECIFICATION SystemSpec
CONSTANTS
  ManualRequests = {1, 3}
  Powers <- NoPowers
  Roundings = {"up"}
  RoundingWrites = {}
  Choice <- NoChoice
  ExternalCurrents = {32}
  OtherCurrents = {16}
  FirmwareUpdates = {}
  OtherClears = FALSE
  GdReports = {"available", "preparing", "charging", "suspended", "fault"}
  LoadReports = {}
  Faults = {"loss", "gdFault"}
  MaxWire = 2
INVARIANT CloseMarkerIsFresh
PROPERTY ImplementsPhaseRelay
