SPECIFICATION WebNotesSpec
CONSTANTS
  MaxClicks = 2
  MaxFaults = 2
  MaxRecordings = 2
  MaxNotes = 2
  MaxChanges = 1
  Picks <- MCPicks
  MaxBatch = 2
  MaxBatches = 1
  MaxTouches = 2
  MaxUploadFails = 1
  Streets <- MCStreets
  MaxChoices = 4
  MaxVisits = 2
  Memos = {"own", "a", "b"}
  Own = "own"
  NewMemo = "none"
  Hits <- MCHits
  MaxSearches = 2
  MaxTouched = 4
  MaxSaved = 2
  Catalog <- MCCatalog
  MonthOf <- MCMonthOf
  PageSize = 2
  BatchSize = 1
  Stored = 3
  MaxElsewhere = 2
  MaxLibraryFaults = 1
  MaxAsked = 2
INVARIANTS  RecordingsEndInNote ListIsWhatItShows NameOfPlace 
PROPERTIES SavesChosenLinks
CHECK_DEADLOCK FALSE
