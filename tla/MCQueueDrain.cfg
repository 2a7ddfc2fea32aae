SPECIFICATION FairSpec
CONSTANTS
  o1 = o1  o2 = o2  o3 = o3  v1 = v1  v2 = v2  v3 = v3
  Ops = {o1, o2}
  Volumes = {v1}
  VolumesOf <- OneVolume
  KindOf <- CopyAndMove
  ItemCount = 1
  Occupied = {o1}
  InPlace = {o1}
  Folders = {o2}
  SlotCap = 2
  MaxRetries = 0
  MaxNotices = 1
  MaxRequest = 2
  Inputs = {"pause", "resume", "cancel", "resolve"}
PROPERTIES QueueDrains
CHECK_DEADLOCK FALSE
