SPECIFICATION Spec
CONSTANTS
  DayStart = 1
  Interval = 2
  WindowEnd = 2
  LastHour = 2
  MaxDay = 2
  MaxMints = 2
  MaxFaults = 0
  HatchBudget = 1
  desk = desk
  sink = sink
  FreeDays <- MCFreeDays
  Zones <- MCZones
  Rotation <- MCRotation
  PhotoKinds = {"good"}
  AppGuards = TRUE
  KeyAtStart = TRUE
  NoValue = NoValue
PROPERTY
  HatchSatisfiesItsSlot
