SPECIFICATION Spec
CONSTANTS
  o1 = o1  o2 = o2  o3 = o3  v1 = v1  v2 = v2  v3 = v3
  Ops = {o1}
  Volumes = {v1}
  VolumesOf <- OneVolume
  KindOf <- AllMoves
  ItemCount = 2
  Occupied = {}
  InPlace = {}
  Folders = {}
  SlotCap = 2
  MaxRetries = 1
  MaxNotices = 1
  MaxRequest = 2
  Inputs = {"fail", "retry", "resolve"}
INVARIANTS MoveKeepsACopy
CHECK_DEADLOCK FALSE
