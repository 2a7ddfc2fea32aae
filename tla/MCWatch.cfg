SPECIFICATION MCSpec
CONSTANTS
  a = a  b = b
  Names = {a, b}
  MaxMutations = 3
  RawCap = 1
  MaxPending = 1
  MaxWatches = 2
  MaxFocus = 1
  Refuses = TRUE
  Inputs = {"drop", "unresolved", "fail", "relist", "focus"}
  WatchPanes = {"left", "right"}
  WatchTabIds = {"l1", "l2", "r"}
  PaneOf <- PaneOfTab
  WatchedDirs = {"d", "e"}
  MaxRefusals = 1
  Menus = {"m1", "m2", "w1", "w2"}
  MenuType <- TypeOfMenu
  Warming = {"w1", "w2"}
  WarmSlots = 2
  MenuCap = 4
INVARIANTS WatchInv ShownIsSnapshot RefInv MenuInv
SYMMETRY NameSymmetry
CHECK_DEADLOCK FALSE
