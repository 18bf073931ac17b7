SPECIFICATION FairSpec
CONSTANTS
  DayStart = 1
  Interval = 2
  WindowEnd = 2
  LastHour = 2
  MaxDay = 1
  MaxMints = 1
  MaxFaults = 1
  HatchBudget = 1
  desk = desk
  sink = sink
  FreeDays <- MCFreeDays
  Zones <- MCZones
  Rotation <- MCRotation
  PhotoKinds = {"good"}
  AppGuards = TRUE
  KeyAtStart = TRUE
  NoValue = NoValue
PROPERTY
  FailedPublishIsRetried
