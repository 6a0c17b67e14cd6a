SPECIFICATION Spec
CONSTANTS
  Record = {r1, r2}
  Setting <- ShortWrites
  MaxOpen = 1
  MaxLog = 2
INVARIANTS ClosedLogIsComplete
CHECK_DEADLOCK FALSE
