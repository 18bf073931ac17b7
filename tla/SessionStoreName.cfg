SPECIFICATION Spec
CONSTANTS
  MaxCleans = 2
  Photos <- MCPhotos
  MaxCalls = 2
  MaxWaits = 1
  Budget = 1
  Nothing = Nothing
INVARIANTS
  NoPhotoIsOverwritten
