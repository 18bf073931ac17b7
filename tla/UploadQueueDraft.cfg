CONSTANTS
  MaxDay = 1
  MaxCleans = 1
  MaxKills = 1
  MaxWaits = 1
  Drains = {d1}
  Nothing = Nothing
SPECIFICATION Spec
INVARIANT
  DraftIsBeingPhotographed
