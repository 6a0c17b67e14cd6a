SPECIFICATION Spec
CONSTANTS
  cc1 = cc1
  py1 = py1
  dyn1 = dyn1
  A1 = A1
  A2 = A2
  B = B
  v1 = v1
  v2 = v2
  Peer <- Peers
  Lang <- LangOf
  Def <- Defs
  Value = {v1, v2}
  Garbled = Garbled
  Uid <- Uids
  Size <- Sizes
  UidVal <- UidVals
  JunkUid = 1
  LenMod = 65536
  Library <- Versions
  WireSize = {3}
  NetLimit = 1
INVARIANTS TypeOK DeliveredAsSent AcceptExactlyIntact
PROPERTY AbstractSpec
SYMMETRY ValueSymmetry
