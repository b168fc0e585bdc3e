SPECIFICATION BrowseListSpec
CONSTANTS
  Ids = {1, 2, 3, 4}
  RowOf <- MCRowOf
  Tags <- MCTags
  Words = {"note"}
  Visibilities = {"PUBLIC", "PRIVATE"}
  Creators = {"ana"}
  Times = {1, 2}
  Dialects = {"sqlite", "mysql", "postgres"}
  MaxLeaves = 3
  Limits = {2}
  ListLeaves = 1
  MaxChanges = 2
  FilterTags = {"book"}
  Days = {"mon"}
  SearchWords = {"w"}
  Shortcuts = {"s"}
  MaxClicks = 4
INVARIANTS  PagesFaithful FiltersFollowClicks
CHECK_DEADLOCK FALSE
