SPECIFICATION StoreSpec
CONSTANTS
  Body = {p, q}
  BadBody = BadBody
  NoId = NoId
  WordId = {word}
  MaxImportId = 2
  MaxImport = 2
  MaxProfiles = 3
INVARIANTS UniqueIds ChangesSurvive
PROPERTIES FailedUpdateUndone
CHECK_DEADLOCK FALSE
