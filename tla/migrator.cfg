CONSTANTS
  Targets = {3, 5}
  Existing = {1, 2, 3}
  Minimum = 2
  Rerunnable = {4, 5}
  MaxStarts = 4
SPECIFICATION Spec
INVARIANTS RecordedNotAhead ServesCompleteSchema NoPartialUpgrade BackupOfPendingUpgrade
PROPERTIES MigratesAfterBackup VerifiedBackupKept
CHECK_DEADLOCK FALSE
