SPECIFICATION BitSpec
CONSTANTS
  ByteBits = 2
  Setup <- Setups
INVARIANTS BitTypeOK ReadBack
PROPERTY OneFieldChanges
