SPECIFICATION Spec
CONSTANTS
  Primitive <- Primitives
  PrimSize <- PrimSizes
  Hash <- InjectiveHash
  SpecFile <- Specs
  Langs <- Pairs
  Value = {1, 2}
INVARIANTS TypeOK WholeBufferWritten DeliveredOrKept HeadersPopulated
PROPERTY RelayIsExact
