SPECIFICATION FairSpec
CONSTANTS
  DayStart = 1
  Interval = 1
  WindowEnd = 3
  LastHour = 2
  MaxDay = 2
  MaxMints = 1
  MaxFaults = 1
  HatchBudget = 1
  desk = desk
  sink = sink
  FreeDays <- MCFreeDays
  Zones <- MCZones
  Rotation <- MCOneZoneRotation
  PhotoKinds = {"good"}
  AppGuards = TRUE
  KeyAtStart = TRUE
  NoValue = NoValue
INVARIANTS
  CreditsOwnDay
  OpenLockIsAnswerable
PROPERTIES
  NoDeafLock
  DueSlotIsEnforced
