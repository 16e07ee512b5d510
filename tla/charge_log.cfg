SPECIFICATION Spec
CONSTANTS
  MaxId = 2
  Persons = {p, q}
  Anonymous = anonymous
  NoFile = nofile
  RecordsPerFile = 1
  MaxFiles = 3
  MaxActive = 3
  Statuses = {"waiting", "charging"}
  MaxCuts = 1
  Sturdy = {"name"}
  Unhurried = TRUE
INVARIANTS LogBoots ChargesKeepTheirName OwnerMayStop TypeOK
PROPERTIES GoneVehicleIsLogged
