------------------------------- MODULE Crc32 -------------------------------
(***************************************************************************)
(* crc32.h: the table that GenerateCrc32Table computes bit by bit, and     *)
(* GetCrc32, which takes a byte at a time with it.  UIDs are such sums of  *)
(* the descriptions of types.                                              *)
(*                                                                         *)
(* A number is the set of the positions of its ones.  Two texts of equal   *)
(* length are summed side by side, byte by byte; ref sums them without a   *)
(* table, by division bit by bit, which is what a CRC is.  The texts are   *)
(* equal up to some byte, and again Width bits after its beginning.        *)
(***************************************************************************)
EXTENDS Integers, FiniteSets

CONSTANTS
  Width,      \* bits of the sum: 32
  ByteBits,   \* bits of a byte: 8
  Poly        \* the reversed polynomial: 0xEDB88320

\* The highest bit of the reversed polynomial is the constant term, always one.
Crc32Assumption ==
  /\ ByteBits \in Nat \ {0} /\ Width \in Nat /\ Width >= ByteBits
  /\ Poly \subseteq 0 .. (Width - 1) /\ Width - 1 \in Poly
ASSUME Crc32Assumption

Number == SUBSET (0 .. (Width - 1))
Byte == SUBSET (0 .. (ByteBits - 1))
Text == {"one", "other"}

VARIABLES
  crc,     \* crc of GetCrc32, for each text
  byte,    \* buf[i]
  c, j,    \* the inner loop of GenerateCrc32Table, for the entry that is used
  ref,     \* the remainder of the division so far
  since    \* bits taken since the first that differs, counted up to Width

crcVars == <<crc, byte, c, j, ref, since>>

-----------------------------------------------------------------------------
Xor(a, b) == (a \ b) \cup (b \ a)
Shift(a, n) == {i \in 0 .. (Width - 1) : i + n \in a}
Ones == 0 .. (Width - 1)

\* The remainder after the lowest bit has been divided.
Step(a) == IF 0 \in a THEN Xor(Poly, Shift(a, 1)) ELSE Shift(a, 1)

Index(sum, b) == Xor(sum, b) \cap (0 .. (ByteBits - 1))

CrcInit ==
  /\ crc = [t \in Text |-> Ones]
  /\ byte = [t \in Text |-> {}]
  /\ c = [t \in Text |-> {}]
  /\ j = ByteBits + 1
  /\ ref = [t \in Text |-> Ones]
  /\ since = 0

\* Mutant: the index is not cut to a byte.
NextByteWide ==
  /\ j = ByteBits + 1
  /\ byte' \in [Text -> Byte]
  /\ byte'["one"] # byte'["other"] => since + ByteBits <= Width
  /\ c' = [t \in Text |-> Xor(crc[t], byte'[t])]
  /\ j' = 0
  /\ UNCHANGED <<crc, ref, since>>

\* The next byte of each text, and the entry of the table that it selects.
NextByte ==
  /\ j = ByteBits + 1
  /\ byte' \in [Text -> Byte]
  /\ byte'["one"] # byte'["other"] => since + ByteBits <= Width
  /\ c' = [t \in Text |-> Index(crc[t], byte'[t])]
  /\ j' = 0
  /\ UNCHANGED <<crc, ref, since>>

Bit(t) == IF j \in byte[t] THEN {0} ELSE {}
Since == IF since = Width \/ (since = 0 /\ Bit("one") = Bit("other")) THEN since ELSE since + 1

\* Mutant: the sum is shifted after the polynomial was added.
TableStepLate ==
  /\ j < ByteBits
  /\ c' = [t \in Text |-> IF 0 \in c[t] THEN Shift(Xor(Poly, c[t]), 1) ELSE Shift(c[t], 1)]
  /\ ref' = [t \in Text |-> Step(Xor(ref[t], Bit(t)))]
  /\ since' = Since
  /\ j' = j + 1
  /\ UNCHANGED <<crc, byte>>

\* One round of the loop that computes the entry; the division takes one bit.
TableStep ==
  /\ j < ByteBits
  /\ c' = [t \in Text |-> Step(c[t])]
  /\ ref' = [t \in Text |-> Step(Xor(ref[t], Bit(t)))]
  /\ since' = Since
  /\ j' = j + 1
  /\ UNCHANGED <<crc, byte>>

\* Mutant: the sum is shifted by one bit less.
LookupShort ==
  /\ j = ByteBits
  /\ crc' = [t \in Text |-> Xor(c[t], Shift(crc[t], ByteBits - 1))]
  /\ j' = ByteBits + 1
  /\ UNCHANGED <<byte, c, ref, since>>
Lookup ==
  /\ j = ByteBits
  /\ crc' = [t \in Text |-> Xor(c[t], Shift(crc[t], ByteBits))]
  /\ j' = ByteBits + 1
  /\ UNCHANGED <<byte, c, ref, since>>

CrcNext == NextByte \/ TableStep \/ Lookup

CrcSpec == CrcInit /\ [][CrcNext]_crcVars

-----------------------------------------------------------------------------
(* Properties.                                                             *)

\* Sums are numbers of Width bits, and the table has an entry for every index.
CrcTypeOK ==
  /\ crc \in [Text -> Number] /\ byte \in [Text -> Byte]
  /\ c \in [Text -> Number] /\ j \in 0 .. (ByteBits + 1)
  /\ j = 0 => c \in [Text -> Byte]
  /\ ref \in [Text -> Number] /\ since \in 0 .. Width

\* What GetCrc32 returns for the bytes so far.
Crc(t) == Xor(crc[t], Ones)

\* After every byte the sum is the remainder of the division bit by bit: the table
\* and the loop over it compute the CRC.
TableAgrees ==
  j = ByteBits + 1 => \A t \in Text : Crc(t) = Xor(ref[t], Ones)

\* Two texts that differ, and only within Width bits, have different sums, now and
\* however they go on: descriptions of types that differ in at most four
\* neighbouring characters never share a UID.
BurstDetected ==
  j = ByteBits + 1 /\ since > 0 => Crc("one") # Crc("other")
=============================================================================
