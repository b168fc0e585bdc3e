SPECIFICATION LiveSpec
CONSTANTS
  Conns = {c1, c2}
  Senders = {s1}
  Effects = {e1}
  None = None
  Viewer = "reader"
  ViewerIsAdmin = FALSE
  BufferCap = 1
  WireCap = 1
  MaxChanges = 2
  MaxFaults = 1
  Changes <- CommentChanges
  Events <- MCEvents
  Active <- CommentQuery
INVARIANTS NoStrayChannel StaleIsAccounted
PROPERTIES ReconnectHeals HandlersReturn HubIsLossyStreams
CHECK_DEADLOCK FALSE
