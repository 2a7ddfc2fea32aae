SPECIFICATION ServicesSpec
CONSTANTS
  list1 = list1
  list2 = list2
  move = move
  zip = zip
  r1 = r1
  r2 = r2
  r3 = r3
  NoJob = NoJob
  NoKey = "none"
  Jobs <- FourJobs
  Classes <- ClassSet
  KeyedClasses <- KeyedSet
  ClassesOf <- ClassesDef
  KeysOf <- KeysDef
  CoalesceOf <- CoalesceDef
  Cap <- CapDef
  QueueCap = 1
  Cancellable = {zip}
  Shuts = TRUE
  Refuses = TRUE
  Requests = {"r1", "r2"}
  ExecWorkers = {"w1", "w2"}
  ExecQueueCap = 1
  MaxSettings = 3
  MaxExits = 1
INVARIANTS OccupancyExact CoordinatorInv ExecInv SettingsInv
PROPERTIES ImplementsAdmission Resolved RequestAnswered SettingsSaved
CHECK_DEADLOCK FALSE
