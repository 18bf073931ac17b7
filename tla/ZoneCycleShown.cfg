SPECIFICATION Spec
CONSTANTS
  MaxDay = 2
  MaxEdits = 1
  MaxFaults = 1
  desk = desk
  sink = sink
  tub = tub
  Zones <- MCZones
  Lists <- MCLists
  NoValue = NoValue
INVARIANT
  OneZoneAtATime
