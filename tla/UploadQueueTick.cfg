CONSTANTS
  MaxDay = 2
  MaxCleans = 2
  MaxKills = 0
  MaxWaits = 1
  Drains = {d1}
  Nothing = Nothing
SPECIFICATION Spec
INVARIANT
  AcceptedWasCredited
