SPECIFICATION DispSpec
CONSTANTS
  Msg = {m1, m2}
  Callback = {f1, f2, f3}
  MaxAdded = 5
  MaxDepth = 2
SYMMETRY Symmetric
INVARIANTS DispTypeOK AllCalledInOrder UndefinedOnlyByGrowth
CHECK_DEADLOCK FALSE
