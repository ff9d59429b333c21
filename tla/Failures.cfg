SPECIFICATION Spec
CONSTANTS
  u1 = u1
  u2 = u2
  Tasks = {1, 2, 3}
  Users = {u1, u2}
  Launcher = u1
  Programs <- Graphs
INVARIANTS TypeOK InputsThere RefsExact SignalsInPlace RealExceptionWins StatusSound
PROPERTIES OutcomeStays CancelHeeded
