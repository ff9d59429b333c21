SPECIFICATION FairSpec
CONSTANTS
  shared = shared
  c1 = c1
  c2 = c2
  Storage = {shared}
  Deferred = {}
  Tasks = {1, 2}
  VoidTasks = {2}
  Clients = {c1}
  ArgLists <- Pairs
  Waitable = {1, 2, shared}
  Scope <- Anytime
  MaxPort = 2
  SyncSpawn = FALSE
  Race = FALSE
INVARIANTS TypeOK StartCountExact CountdownExact LifeExact NoUseAfterFree WaitSound NoLeak
PROPERTIES CallsReturn TasksComplete
