SPECIFICATION Spec
CONSTANTS
  Record = {r1, r2}
  Setting <- Settings
  MaxOpen = 2
  MaxLog = 2
SYMMETRY RecordSymmetry
INVARIANTS TypeOK TornOnlyAtEnd WithBlockLogIsComplete SoundUnlessFaulty DeadHandleAfterFailedClose
CHECK_DEADLOCK FALSE
