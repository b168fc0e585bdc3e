SPECIFICATION SettingSpec
CONSTANTS
  Procs = {p1, p2}
  Items = {i1, i2}
  MaxErrors = 1
  None = None
  Programs <- SettingPrograms
INVARIANTS SettingsConsistent
SYMMETRY SettingSymmetry
