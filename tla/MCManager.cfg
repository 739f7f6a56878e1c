CONSTANTS
  DrivingTypes = {"trunk", "primary", "residential"}
  OnewayTypes = {"trunk"}
  Infinite = 10000
  StopReach = 10
  Extracts <- MCExtracts
  Configs <- MCConfigs
  Preparations = {2, 3}
  MaxTransferRange = 50
  Known = {"car", "foot", "bike"}
  Nothing = Nothing
  Torn = Torn
  MaxBuilds = 2
SPECIFICATION Spec
INVARIANTS
  DistancesAreOfTheMap
  MainPartIsServed
  PreparationFits
  CompleteBuildsLoad
CHECK_DEADLOCK FALSE
