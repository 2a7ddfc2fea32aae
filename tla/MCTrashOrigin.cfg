SPECIFICATION TrashSpec
CONSTANTS
  Items = {"one", "two"}
  HomePaths = {"home/f"}
  FarPaths = {"far/f"}
  TrashNames = {"f", "f 2"}
  FileName <- OneName
  Look <- AllAlike
  Placements <- HomeAndFar
  TrashCalls = {"c1"}
  DeleteBatches <- FarFirst
  Selections = {}
  MaxStays = 1
INVARIANTS NeverGuesses
CHECK_DEADLOCK FALSE
