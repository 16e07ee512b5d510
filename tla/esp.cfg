SPECIFICATION Spec
CONSTANTS
  ManualRequests = {1, 2}
  Powers <- BetweenPowers
  Roundings = {"up", "down"}
  RoundingWrites = {"up", "down"}
  Choice <- BetweenChoice
  ExternalCurrents = {}
  OtherCurrents = {0, 32}
  FirmwareUpdates = {}
  OtherClears = TRUE
  GdReports = {"preparing", "charging", "fault"}
  LoadReports = {}
INVARIANTS SwitchFollowsRequest RestartsAcknowledgedMode TypeOK SettledOnTarget
