CONSTANTS
  RequestIds = {r1, r2, r3}
  Texts = {c1, c2}
  Blank = Blank
  NoId = NoId
  MaxNotes = 2
  Editors = {e1}
  Kinds = {"memo", "comment"}
  StorageMayFail = FALSE
  MaxLate = 0
SPECIFICATION FairSpec
INVARIANTS DraftFollowsEditor ConfirmedNoteComplete
PROPERTIES ConfirmedTextStored RetryDelivers
