SPECIFICATION Spec
CONSTANTS
  a = a
  d = d
  Tasks = {1, 2, 3}
  Vars = {1, 2, 3, a, d}
  Deferred = {d}
INVARIANTS TypeOK Consistent
PROPERTIES NoLostVersion
CHECK_DEADLOCK FALSE
