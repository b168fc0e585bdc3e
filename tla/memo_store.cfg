SPECIFICATION StoreSpec
CONSTANTS
  Users = {u1, u2}
  Memos = {m1, m2, m3}
  Atts = {a1}
  Admins = {u1}
  Procs = {p1, p2}
  MaxInitial = 2
  MaxRequests = 2
  MaxRefs = 1
  MaxErrors = 1
  None = None
  Kinds <- AllKinds
INVARIANTS  CommentStaysComment RowsMatchContent
PROPERTIES ImportIntoEmpty
SYMMETRY StoreSymmetry
CHECK_DEADLOCK FALSE
