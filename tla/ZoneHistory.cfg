SPECIFICATION FairSpec
CONSTANTS
  MaxDay = 2
  MaxEdits = 2
  MaxStamp = 2
  Loads = {l1}
  Saves = {s1}
  Nothing = Nothing
INVARIANTS
  TypeOK
  MergesAgree
PROPERTIES
  PcKeepsItsPast
  PcMovesForward
  PhoneCatchesUp
  PcCatchesUp
