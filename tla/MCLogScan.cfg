SPECIFICATION ScanSpec
CONSTANTS
  S = S
  a = a
  x = x
  MaxFile = 7
  Char = {S, a, x}
  Delim <- MCDelim
  Chunk = 2
  File <- Files
INVARIANTS ScanTypeOK FoundIsFirst NotFoundIsAbsent LogIsSplit
PROPERTY Terminates
CHECK_DEADLOCK FALSE
