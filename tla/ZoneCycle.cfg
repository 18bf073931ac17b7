SPECIFICATION Spec
CONSTANTS
  MaxDay = 3
  MaxEdits = 1
  MaxFaults = 1
  desk = desk
  sink = sink
  tub = tub
  Zones <- MCTwoZones
  Lists <- MCUnevenLists
  NoValue = NoValue
INVARIANTS
  TypeOK
  MovesOncePerToken
PROPERTY
  RotationFollowsCleans
