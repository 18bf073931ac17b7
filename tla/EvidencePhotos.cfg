SPECIFICATION Spec
CONSTANTS
  monday = monday
  tuesday = tuesday
  Keys <- MCKeys
  Zones <- MCZones
  Slug <- MCSlug
  MaxShots = 2
  MaxSent = 3
  Room = 3
  Reserve = 1
  MaxFaults = 2
  NoValue = NoValue
CHECK_DEADLOCK FALSE
INVARIANTS
  AcceptedPhotosStand
  NoOrphans
