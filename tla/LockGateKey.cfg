SPECIFICATION Spec
CONSTANTS
  DayStart = 1
  Interval = 1
  WindowEnd = 2
  LastHour = 1
  MaxDay = 2
  MaxMints = 2
  MaxFaults = 1
  HatchBudget = 1
  desk = desk
  sink = sink
  FreeDays <- MCFreeDays
  Zones <- MCOneZone
  Rotation <- MCOneZoneRotation
  PhotoKinds = {"good"}
  AppGuards = FALSE
  KeyAtStart = FALSE
  NoValue = NoValue
INVARIANTS
  NodeConsumedIsBacked
PROPERTIES
  TokenOnlyForDueSlot
  ImplementsLedger
