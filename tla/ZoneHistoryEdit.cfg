SPECIFICATION Spec
CONSTANTS
  MaxDay = 2
  MaxEdits = 3
  MaxStamp = 3
  Loads = {l1}
  Saves = {s1}
  Nothing = Nothing
PROPERTY
  CachedEditSurvives
