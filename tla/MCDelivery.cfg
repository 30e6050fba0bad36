SPECIFICATION Spec
CONSTANTS
  None = None
  w1 = w1
  w2 = w2
  p1 = p1
  p2 = p2
  item = item
  c1 = c1
  c2 = c2
  Worker = {w1, w2}
  Pdf = {p1, p2}
  Gone = {p2}
  Content = {c1, c2}
  Parent <- OneItem
  Source0 <- OneSource
  Modes = {"convert", "pages", "forced", "upload", "verify"}
  RunBound = 2
  ChildBound = 2
  FaultBound = 1
  Users = {"replace", "delete"}
  MayOutlive = FALSE
SYMMETRY WorkerSymmetry
CHECK_DEADLOCK FALSE
INVARIANTS DeliveryIsOrderly CompletedIsDelivered 
PROPERTIES LeaseIsRespected
