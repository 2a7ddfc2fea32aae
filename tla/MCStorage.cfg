SPECIFICATION StorageSpec
CONSTANTS
  Dirs = {"home", "downloads"}
  RootDir = "home"
  Above <- RootAndOne
  Shown = {"downloads"}
  Protected = {"downloads"}
  Grants = {FALSE}
  MaxLog = 1
  MaxInbox = 1
  MaxBoosts = 1
  MaxBoots = 2
  Refreshers = {"native", "focus"}
  Inventories = {"one", "two"}
  FirstInventory = "one"
  MaxRefresh = 2
  Walks = {1, 2}
  WalkDirs = {"top", "left", "right"}
  RootOf <- TwoWalks
  Inside <- SmallTree
  Strict = {1}
  JobHelpers = 2
  HelperCap = 1
  ArcItems = 2
  MembersOf <- MembersDef
  Names = {"PKG", "pkg", "a", "b"}
  EntriesOf <- EntriesDef
  StemOf <- StemDef
  Lower <- LowerDef
  UserFolders <- UserFoldersDef
  MaxArcRetries = 1
INVARIANTS IndexInv  RegistryInv WalkInv ArchiveInv
CHECK_DEADLOCK FALSE
