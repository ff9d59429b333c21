SPECIFICATION ForwardSpec
CONSTANTS
  v1 = v1
  v2 = v2
  main = main
  f1 = f1
  f2 = f2
  Storage = {v1, v2}
  Deferred = {}
  Tasks = {1, 2, 3, 4, 5}
  VoidTasks = {5}
  Clients = {main, f1, f2}
  ArgLists <- AllArgs
  Waitable = {1, 2}
  Scope <- Scopes
  MaxPort = 2
  SyncSpawn = FALSE
  Race = FALSE
  Functor <- RunsIn
  Programs <- Apps
INVARIANTS ForwardTypeOK ResultThere NothingDangling ReferencesExact NothingLeft AllDone ResumedOnce Exclusive
