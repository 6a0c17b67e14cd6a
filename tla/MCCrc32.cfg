SPECIFICATION CrcSpec
CONSTANT Width = 5
CONSTANT ByteBits = 2
CONSTANT Poly <- Poly5
INVARIANTS CrcTypeOK TableAgrees BurstDetected
