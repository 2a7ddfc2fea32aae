SPECIFICATION FairSpec
CONSTANTS
  o1 = o1  o2 = o2  o3 = o3  v1 = v1  v2 = v2  v3 = v3
  Ops = {o1}
  Volumes = {v1}
  VolumesOf <- OneVolume
  KindOf <- AllMoves
  ItemCount = 2
  Occupied = {o1}
  InPlace = {}
  Folders = {o1}
  SlotCap = 2
  MaxRetries = 0
  MaxNotices = 1
  MaxRequest = 2
  Inputs = {"pause", "resume", "cancel", "skip", "resolve", "fail"}
INVARIANTS TypeOK NoLostWakeup CompletedIsComplete MoveKeepsACopy
PROPERTIES CancelIsFinal CancelUnwinds
CHECK_DEADLOCK FALSE
