\* The readers and writers of a library, each on an instance of its own.
SPECIFICATION LibrarySpec
CONSTANTS
  Desks = {"index", "snapshot", "search", "write", "delivery"}
  Items = {i1, i2}
  Texts = {t1}
  Models = {"jina", "gemini"}
  Width <- MCWidth
  Pads = {"gemini"}
  Client = {k1, k2}
  StartBound = 2
  EditBound = 1
  FaultBound = 1
  None = None
  p1 = p1
  p2 = p2
  w1 = w1
INVARIANTS IndexIsCurrent LibraryIsServed
PROPERTIES  DeliveryEnds
CHECK_DEADLOCK FALSE
