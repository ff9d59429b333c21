SPECIFICATION FairSpec
CONSTANTS
  u1 = u1
  u2 = u2
  Tasks = {1, 2, 3}
  Users = {u1, u2}
  Launcher = u1
  Programs <- Ends
PROPERTIES TasksComplete CallsReturn
