SPECIFICATION WebSettingsSpec
CONSTANTS
  Users = {ana, ben}
  Externals = {"x"}
  Tabs = {t1, t2}
  Nobody = Nobody
  MaxFlows = 2
  MaxSignIns = 2
  ListKinds = {"webhooks", "tokens", "members", "providers", "shortcuts"}
  MaxOpens = 2
  MaxWrites = 2
  MaxMishaps = 1
  Settings = {"GENERAL", "MEMO_RELATED", "TAGS", "STORAGE", "NOTIFICATION", "AI"}
  MaxSaves = 2
  MaxEvents = 2
  ExportFiles = {"a", "b"}
  BadFiles = {"bad"}
  OtherFiles = {"jpg"}
  MaxChoices = 5
  MaxTroubles = 2
  Messages = {"m"}
  Pages = {"p1", "p2"}
  MaxRequests = 4
  MaxTurns = 3
  Notes = {1, 2, 3}
  Seconds = {1, 2}
  PublicNotes = {1}
  ExportPage = 1
  MaxExports = 1
  MaxShifts = 2
INVARIANTS TabsActForTheirUser ListsSettle FormsSaveTheirEdits ExportFaithful ImportAsShown NoUnreadLost
SYMMETRY TabSymmetry
CHECK_DEADLOCK FALSE
