SPECIFICATION Spec
CONSTANTS
  o1 = o1  o2 = o2  o3 = o3  v1 = v1  v2 = v2  v3 = v3
  Ops = {o1}
  Volumes = {v1}
  VolumesOf <- OneVolume
  KindOf <- AllCopies
  ItemCount = 1
  Occupied = {}
  InPlace = {}
  Folders = {}
  SlotCap = 2
  MaxRetries = 0
  MaxNotices = 1
  MaxRequest = 2
  Inputs = {"cancel_pending"}
PROPERTIES CancelledStaysCancelled
CHECK_DEADLOCK FALSE
