SPECIFICATION BitSpec
CONSTANTS
  ByteBits = 2
  Setup <- WholeWords
INVARIANT ReadBack
