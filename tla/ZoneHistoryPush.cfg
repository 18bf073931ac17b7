SPECIFICATION FairSpec
CONSTANTS
  MaxDay = 1
  MaxEdits = 1
  MaxStamp = 1
  Loads = {l1}
  Saves = {s1}
  Nothing = Nothing
PROPERTY
  CachedEditIsPushed
