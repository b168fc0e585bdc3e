CONSTANTS
  Targets = {3, 5}
  Existing = {1, 2, 3}
  Minimum = 2
  Rerunnable = {}
  MaxStarts = 3
SPECIFICATION Spec
CHECK_DEADLOCK FALSE
INVARIANT EmptyVersionMeansLegacy
