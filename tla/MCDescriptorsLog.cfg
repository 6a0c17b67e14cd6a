SPECIFICATION Spec
CONSTANTS
  Primitive <- Primitives
  PrimSize <- PrimSizes
  Hash <- InjectiveHash
  SpecFile <- Accepted
  Rank <- AlphabeticalRank
  NoUid = NoUid
INVARIANT LogHeaderLoads
CHECK_DEADLOCK FALSE
