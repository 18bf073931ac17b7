SPECIFICATION FairSpec
CONSTANTS
  MaxDisarms = 3
  MaxKills = 3
INVARIANTS
  MarkerMeansMasked
PROPERTIES
  UnitsAreNotLost
  RearmArms
