CONSTANTS
  RequestIds = {r1, r2}
  Texts = {c1}
  Blank = Blank
  NoId = NoId
  MaxNotes = 2
  Editors = {e1, e2}
  Kinds = {"memo"}
  StorageMayFail = TRUE
  MaxLate = 1
SPECIFICATION Spec
SYMMETRY Symmetry
INVARIANTS AtMostOneMemo OwnMemoOnly
