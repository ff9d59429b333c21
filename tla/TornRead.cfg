SPECIFICATION TornSpec
CONSTANTS
  shared = shared
  c1 = c1
  c2 = c2
  Storage = {shared}
  Deferred = {shared}
  Tasks = {1, 2, 3}
  VoidTasks = {1, 2, 3}
  Clients = {c1, c2}
  ArgLists <- FirstWrites
  Waitable = {}
  Scope <- OnlyShared
  MaxPort = 2
  SyncSpawn = FALSE
  Race = TRUE
INVARIANTS SerialReads
