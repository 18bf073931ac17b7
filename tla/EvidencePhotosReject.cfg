SPECIFICATION Spec
CONSTANTS
  monday = monday
  tuesday = tuesday
  Keys <- MCKeys
  Zones <- MCZones
  Slug <- MCSlug
  MaxShots = 2
  MaxSent = 1
  Room = 3
  Reserve = 1
  MaxFaults = 1
  NoValue = NoValue
CHECK_DEADLOCK FALSE
PROPERTY
  RejectedLeavesNothing
