SPECIFICATION Spec
CONSTANTS
  MaxDay = 9
  MaxUses = 6
  Windows <- MCWindows
  Nothing = Nothing
INVARIANTS
  RollingBudget
  EscapesArePaid
PROPERTY
  HistoryGrows
