SPECIFICATION Spec
CONSTANTS
  MaxDay = 3
  MaxEdits = 0
  MaxFaults = 0
  desk = desk
  sink = sink
  tub = tub
  Zones <- MCZones
  Lists <- MCRepeating
  NoValue = NoValue
INVARIANT
  SameListKeepsCycling
