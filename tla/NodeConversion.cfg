SPECIFICATION ConvSpec
CONSTANTS
  c1 = c1
  Storage = {}
  Deferred = {}
  Tasks = {1}
  VoidTasks = {}
  Clients = {c1}
  ArgLists <- OneTask
  Waitable = {1}
  Scope <- Anytime
  MaxPort = 1
  SyncSpawn = FALSE
  Race = FALSE
INVARIANTS LifeCountValid
