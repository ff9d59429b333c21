SPECIFICATION OmpSpec
CONSTANTS
  shared = shared
  c1 = c1
  Storage = {shared}
  Deferred = {}
  Tasks = {1, 2}
  VoidTasks = {}
  Clients = {c1}
  ArgLists <- Chain
  Waitable = {2}
  Scope <- Anytime
  MaxPort = 1
  SyncSpawn = FALSE
  Race = FALSE
INVARIANTS WaitedForDone
