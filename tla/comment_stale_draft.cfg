CONSTANTS
  RequestIds = {r1, r2}
  Texts = {c1}
  Blank = Blank
  NoId = NoId
  MaxNotes = 2
  Editors = {e1}
  Kinds = {"comment"}
  StorageMayFail = FALSE
  MaxLate = 0
SPECIFICATION Spec
INVARIANT ConfirmedNotReoffered
