SPECIFICATION FairSpec
CONSTANTS
  ManualRequests = {}
  Powers <- OnePower
  Roundings = {"up"}
  RoundingWrites = {"up"}
  Choice <- OneChoice
  ExternalCurrents = {}
  OtherCurrents = {32}
  FirmwareUpdates = {}
  OtherClears = FALSE
  GdReports = {"available", "preparing", "charging", "suspended", "fault"}
  LoadReports = {}
  Faults = {"lateReports", "replug"}
  MaxWire = 2
PROPERTY TargetSettles
