CONSTANTS
  MaxDay = 2
  MaxCleans = 1
  MaxKills = 1
  MaxWaits = 2
  Drains = {d1}
  Nothing = Nothing
SPECIFICATION FairSpec
INVARIANT
  TypeOK
PROPERTY
  PastCleansSettle
