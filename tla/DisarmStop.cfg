SPECIFICATION Spec
CONSTANTS
  MaxDisarms = 2
  MaxKills = 1
PROPERTY
  DisarmStopsTimer
