------------------------------ MODULE MCCrc32 ------------------------------
(***************************************************************************)
(* Instances of Crc32 for TLC: bytes of two bits and a sum of five, with   *)
(* the polynomial of CRC-5; and, as assumptions, the sums that             *)
(* test_crc32.cc expects of the real one.                                  *)
(***************************************************************************)
EXTENDS Crc32, Sequences, SequencesExt

Poly5 == {2, 4}

\* The ones of a number of n bits.
BitsOf(v, n) == {i \in 0 .. (n - 1) : (v \div 2^i) % 2 = 1}
Word(high, low) == {i + 16 : i \in BitsOf(high, 16)} \cup BitsOf(low, 16)

Real == INSTANCE Crc32 WITH Width <- 32, ByteBits <- 8, Poly <- Word(60856, 33568)  \* 0xEDB8, 0x8320

\* F(v), for which TLC evaluates v first.
Apply(F(_), v) == CHOOSE r \in {F(a) : a \in {v}} : TRUE
Entry(index) == FoldLeft(LAMBDA a, i : Apply(Real!Step, a), index, [i \in 1 .. 8 |-> i])
TakeByte(sum, b) == Real!Xor(Entry(Real!Index(sum, BitsOf(b, 8))), Real!Shift(sum, 8))
GetCrc32(text) ==
  Real!Xor(Real!Ones,
    FoldLeft(LAMBDA sum, b : Apply(LAMBDA a : TakeByte(a, b), sum), Real!Ones, text))

ASSUME TestCArray == GetCrc32([i \in 1 .. 10 |-> i - 1]) = Word(17772, 55110)  \* 0x456C, 0xD746
ASSUME TestUint16 == GetCrc32(<<0, 0, 1, 1, 2, 2, 3, 3, 4, 4>>) = Word(52653, 33181)  \* 0xCDAD, 0x819D
ASSUME TestString ==   \* "Hello World!", 0x1C29, 0x1CA3
  GetCrc32(<<72, 101, 108, 108, 111, 32, 87, 111, 114, 108, 100, 33>>) = Word(7209, 7331)
=============================================================================
