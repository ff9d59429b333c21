SPECIFICATION Spec
CONSTANTS
  shared = shared
  c1 = c1
  c2 = c2
  Storage = {shared}
  Deferred = {}
  Tasks = {1, 2, 3}
  VoidTasks = {3}
  Clients = {c1}
  ArgLists <- Programs
  Waitable = {}
  Scope <- Nested
  MaxPort = 2
  SyncSpawn = FALSE
  Race = FALSE
INVARIANTS AssertionsHold SerialReads
PROPERTIES ImplementsDataflow
