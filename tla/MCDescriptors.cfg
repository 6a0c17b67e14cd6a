SPECIFICATION Spec
CONSTANTS
  Primitive <- Primitives
  PrimSize <- PrimSizes
  Hash <- InjectiveHash
  SpecFile <- Accepted
  Rank <- AlphabeticalRank
  NoUid = NoUid
INVARIANTS TypeOK FieldsLieEndToEnd AgreesWithGenerators OnlyForwardUseThrows
CHECK_DEADLOCK FALSE
