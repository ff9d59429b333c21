SPECIFICATION StdFairSpec
CONSTANTS
  shared = shared
  c1 = c1
  c2 = c2
  c3 = c3
  Storage = {shared}
  Deferred = {shared}
  Tasks = {1, 2, 3}
  VoidTasks = {3}
  Clients = {c1, c2, c3}
  ArgLists <- FirstWrites
  Waitable = {1, 2}
  Scope <- Nested
  MaxPort = 2
  SyncSpawn = TRUE
  Race = FALSE
  Waiters = {c3}
  Spent = Spent
INVARIANTS NoUseAfterFree WaitAgain
PROPERTIES CallsReturn
