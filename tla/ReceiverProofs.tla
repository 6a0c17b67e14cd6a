--------------------------- MODULE ReceiverProofs ---------------------------
(***************************************************************************)
(* Proofs about what a receiver is handed, and the sum it knows messages   *)
(* by.  Crc32, for every width, size of bytes and polynomial: numbers are  *)
(* compared position by position; what a step does to a sum is said once,  *)
(* in StepMember, and the two invariants follow.  MessageLink, for every   *)
(* set of peers, definitions, values and specifications: no message is     *)
(* misread.                                                                *)
(* Dispatcher, for any types of messages and callbacks, any number of      *)
(* callbacks added and any depth of calls: a loop over callbacks keeps to  *)
(* those there were when it began, and a function is used after it was     *)
(* destroyed only when their number grew past a power of two.              *)
(***************************************************************************)
EXTENDS Crc32, MessageLink, Dispatcher, SequenceTheorems, FiniteSetTheorems, TLAPS

-----------------------------------------------------------------------------
(* Crc32.                                                                  *)

LEMMA XorMember ==
  ASSUME NEW a, NEW b, NEW i
  PROVE  i \in Xor(a, b) <=> (i \in a /\ i \notin b) \/ (i \in b /\ i \notin a)
BY DEF Xor

LEMMA XorNumber ==
  ASSUME NEW a \in Number, NEW b \in Number
  PROVE  Xor(a, b) \in Number
BY DEF Xor, Number

LEMMA ShiftMember ==
  ASSUME NEW a \in Number, NEW n \in Nat, NEW i \in Nat
  PROVE  i \in Shift(a, n) <=> i + n \in a
BY Crc32Assumption DEF Shift, Number, Crc32Assumption

LEMMA ShiftNumber ==
  ASSUME NEW a, NEW n
  PROVE  Shift(a, n) \in Number
BY DEF Shift, Number

LEMMA Equal ==
  ASSUME NEW a \in Number, NEW b \in Number, \A i \in Ones : i \in a <=> i \in b
  PROVE  a = b
BY DEF Number, Ones

LEMMA ByteIsNumber == Byte \subseteq Number
BY Crc32Assumption DEF Byte, Number, Crc32Assumption

LEMMA StepNumber ==
  ASSUME NEW a \in Number
  PROVE  Step(a) \in Number
BY ShiftNumber, XorNumber, Crc32Assumption DEF Step, Number, Crc32Assumption

\* A step shifts by one, and inverts where the polynomial has a one if a one left.
LEMMA StepMember ==
  ASSUME NEW a \in Number, NEW i \in Nat
  PROVE  /\ 0 \in a => (i \in Step(a) <=> (i \in Poly /\ i + 1 \notin a)
                                          \/ (i + 1 \in a /\ i \notin Poly))
         /\ 0 \notin a => (i \in Step(a) <=> i + 1 \in a)
<1>1. i \in Shift(a, 1) <=> i + 1 \in a
  BY ShiftMember
<1>2. i \in Xor(Poly, Shift(a, 1)) <=> (i \in Poly /\ i \notin Shift(a, 1))
                                       \/ (i \in Shift(a, 1) /\ i \notin Poly)
  BY XorMember
<1> QED
  BY <1>1, <1>2 DEF Step

-----------------------------------------------------------------------------
(* Types.                                                                  *)

\* The sums are numbers of Width bits and the table is never read beyond its end,
\* in GetCrc32 for any width, size of bytes and polynomial.
THEOREM CrcTypeCorrect == CrcSpec => []CrcTypeOK
<1>1. CrcInit => CrcTypeOK
  BY Crc32Assumption DEF CrcInit, CrcTypeOK, Number, Byte, Ones, Crc32Assumption
<1>2. CrcTypeOK /\ [CrcNext]_crcVars => CrcTypeOK'
  <2> SUFFICES ASSUME CrcTypeOK, [CrcNext]_crcVars PROVE CrcTypeOK'
    OBVIOUS
  <2> USE Crc32Assumption DEF Crc32Assumption
  <2>1. CASE NextByte
    <3>1. \A t \in Text : Index(crc[t], byte'[t]) \in Byte
      BY DEF Index, Byte
    <3>2. c' \in [Text -> Byte]
      BY <2>1, <3>1 DEF NextByte
    <3>3. c' \in [Text -> Number]
      BY <3>2, ByteIsNumber
    <3> QED
      BY <2>1, <3>2, <3>3 DEF NextByte, CrcTypeOK
  <2>2. CASE TableStep
    <3>1. \A t \in Text : Step(c[t]) \in Number
      BY StepNumber DEF CrcTypeOK
    <3>2. \A t \in Text : Bit(t) \in Number
      BY DEF Bit, Number
    <3>3. \A t \in Text : Step(Xor(ref[t], Bit(t))) \in Number
      BY <3>2, XorNumber, StepNumber DEF CrcTypeOK
    <3>4. j' \in 1 .. ByteBits
      BY <2>2 DEF TableStep, Since, CrcTypeOK
    <3>5. since' \in 0 .. Width
      BY <2>2 DEF TableStep, Since, CrcTypeOK
    <3> QED
      BY <2>2, <3>1, <3>3, <3>4, <3>5 DEF TableStep, Since, CrcTypeOK
  <2>3. CASE Lookup
    <3>1. \A t \in Text : Xor(c[t], Shift(crc[t], ByteBits)) \in Number
      BY ShiftNumber, XorNumber DEF CrcTypeOK
    <3> QED
      BY <2>3, <3>1 DEF Lookup, CrcTypeOK
  <2>4. CASE UNCHANGED crcVars
    BY <2>4 DEF crcVars, CrcTypeOK
  <2> QED
    BY <2>1, <2>2, <2>3, <2>4 DEF CrcNext
<1> QED
  BY <1>1, <1>2, PTL DEF CrcSpec

-----------------------------------------------------------------------------
(* The table.  While an entry is computed it holds what the division would *)
(* leave of the bits below it; the rest of the sum and of the byte have    *)
(* only moved.                                                             *)

High(a) == a \ (0 .. (ByteBits - 1))
TableInv ==
  /\ CrcTypeOK
  /\ j <= ByteBits =>
       \A t \in Text : ref[t] = Xor(Xor(c[t], Shift(High(crc[t]), j)), Shift(byte[t], j))
  /\ j = ByteBits + 1 => \A t \in Text : crc[t] = ref[t]

\* Position k of the rest of a sum and of a byte, added.
Flips(s, b, k) == (k \in High(s) /\ k \notin b) \/ (k \in b /\ k \notin High(s))

LEMMA RestMember ==
  ASSUME NEW a \in Number, NEW s \in Number, NEW b \in Byte, NEW n \in Nat, NEW i \in Nat
  PROVE  i \in Xor(Xor(a, Shift(High(s), n)), Shift(b, n)) <=>
           (i \in a /\ ~Flips(s, b, i + n)) \/ (i \notin a /\ Flips(s, b, i + n))
<1> DEFINE high == Shift(High(s), n)
           low == Shift(b, n)
<1>1. High(s) \in Number /\ b \in Number
  BY ByteIsNumber DEF High, Number
<1>2. i \in high <=> i + n \in High(s)
  BY <1>1, ShiftMember
<1>3. i \in low <=> i + n \in b
  BY <1>1, ShiftMember
<1>4. i \in Xor(a, high) <=> (i \in a /\ i \notin high) \/ (i \in high /\ i \notin a)
  BY XorMember
<1>5. i \in Xor(Xor(a, high), low) <=>
        (i \in Xor(a, high) /\ i \notin low) \/ (i \in low /\ i \notin Xor(a, high))
  BY XorMember
<1> HIDE DEF high, low
<1>6. i \in Xor(Xor(a, high), low) <=>
        (i \in a /\ ~Flips(s, b, i + n)) \/ (i \notin a /\ Flips(s, b, i + n))
  BY <1>2, <1>3, <1>4, <1>5 DEF Flips
<1> QED
  BY <1>6 DEF high, low

LEMMA RestNumber ==
  ASSUME NEW a \in Number, NEW s, NEW b, NEW n
  PROVE  Xor(Xor(a, Shift(s, n)), Shift(b, n)) \in Number
BY XorNumber, ShiftNumber

\* Looking up the entry begins with the division as far as it has come.
LEMMA EntryBegins ==
  ASSUME NEW s \in Number, NEW b \in Byte
  PROVE  s = Xor(Xor(Index(s, b), Shift(High(s), 0)), Shift(b, 0))
<1>1. Index(s, b) \in Number
  BY Crc32Assumption DEF Index, Number, Crc32Assumption
<1>2. ASSUME NEW i \in Ones
      PROVE  i \in s <=> i \in Xor(Xor(Index(s, b), Shift(High(s), 0)), Shift(b, 0))
  <2>1. i \in Nat /\ i + 0 = i /\ 0 \in Nat
    BY DEF Ones
  <2>2. i \in Index(s, b) <=> i < ByteBits /\ ((i \in s /\ i \notin b) \/ (i \in b /\ i \notin s))
    <3>1. i \in 0 .. (ByteBits - 1) <=> i < ByteBits
      BY <2>1, Crc32Assumption DEF Crc32Assumption
    <3> QED
      BY <3>1, XorMember DEF Index
  <2>3. i \in b => i < ByteBits
    BY <2>1, Crc32Assumption DEF Byte, Crc32Assumption
  <2>4. i \in High(s) <=> i \in s /\ ~(i < ByteBits)
    BY <2>1, Crc32Assumption DEF High, Crc32Assumption
  <2>5. Flips(s, b, i + 0) <=> Flips(s, b, i)
    BY <2>1
  <2>6. i \in Xor(Xor(Index(s, b), Shift(High(s), 0)), Shift(b, 0)) <=>
          (i \in Index(s, b) /\ ~Flips(s, b, i)) \/ (i \notin Index(s, b) /\ Flips(s, b, i))
    BY <1>1, <2>1, <2>5, RestMember
  <2> QED
    BY <2>2, <2>3, <2>4, <2>6 DEF Flips
<1> QED
  BY <1>1, <1>2, RestNumber, Equal

\* A step of the entry and a step of the division.
LEMMA EntrySteps ==
  ASSUME NEW a \in Number, NEW s \in Number, NEW b \in Byte, NEW n \in Nat, n < ByteBits,
         NEW r \in Number, r = Xor(Xor(a, Shift(High(s), n)), Shift(b, n)),
         NEW bit \in Number, bit = IF n \in b THEN {0} ELSE {}
  PROVE  Step(Xor(r, bit)) = Xor(Xor(Step(a), Shift(High(s), n + 1)), Shift(b, n + 1))
<1> DEFINE x == Xor(r, bit)
<1>1. x \in Number /\ Step(x) \in Number /\ Step(a) \in Number
  BY XorNumber, StepNumber
<1>2. 0 \in x <=> 0 \in a
  <2>1. Flips(s, b, n) <=> n \in b
    BY Crc32Assumption DEF Flips, High, Crc32Assumption
  <2>2. Flips(s, b, 0 + n) <=> Flips(s, b, n)
    OBVIOUS
  <2>3. 0 \in r <=> (0 \in a /\ ~Flips(s, b, 0 + n)) \/ (0 \notin a /\ Flips(s, b, 0 + n))
    BY RestMember
  <2>4. 0 \in bit <=> n \in b
    OBVIOUS
  <2>5. 0 \in x <=> (0 \in r /\ 0 \notin bit) \/ (0 \in bit /\ 0 \notin r)
    BY XorMember
  <2> QED
    BY <2>1, <2>2, <2>3, <2>4, <2>5
<1>3. ASSUME NEW i \in Ones
      PROVE  i \in Step(x) <=> i \in Xor(Xor(Step(a), Shift(High(s), n + 1)), Shift(b, n + 1))
  <2> DEFINE f == Flips(s, b, i + (n + 1))
  <2>1. i \in Nat /\ i + 1 \in Nat /\ n + 1 \in Nat /\ i + 1 # 0 /\ (i + 1) + n = i + (n + 1)
    BY DEF Ones
  <2>2. i + 1 \in x <=> i + 1 \in r
    <3>1. i + 1 \notin bit
      BY <2>1
    <3>2. i + 1 \in x <=> (i + 1 \in r /\ i + 1 \notin bit) \/ (i + 1 \in bit /\ i + 1 \notin r)
      BY XorMember
    <3> QED
      BY <3>1, <3>2
  <2>3. i + 1 \in r <=> (i + 1 \in a /\ ~f) \/ (i + 1 \notin a /\ f)
    <3>1. i + 1 \in r <=> \/ i + 1 \in a /\ ~Flips(s, b, (i + 1) + n)
                          \/ i + 1 \notin a /\ Flips(s, b, (i + 1) + n)
      BY <2>1, RestMember
    <3> QED
      BY <2>1, <3>1
  <2>4. i \in Xor(Xor(Step(a), Shift(High(s), n + 1)), Shift(b, n + 1)) <=>
          (i \in Step(a) /\ ~f) \/ (i \notin Step(a) /\ f)
    BY <1>1, <2>1, RestMember
  <2>5. /\ 0 \in a => (i \in Step(a) <=> (i \in Poly /\ i + 1 \notin a)
                                         \/ (i + 1 \in a /\ i \notin Poly))
        /\ 0 \notin a => (i \in Step(a) <=> i + 1 \in a)
    BY <2>1, StepMember
  <2>6. /\ 0 \in x => (i \in Step(x) <=> (i \in Poly /\ i + 1 \notin x)
                                         \/ (i + 1 \in x /\ i \notin Poly))
        /\ 0 \notin x => (i \in Step(x) <=> i + 1 \in x)
    BY <1>1, <2>1, StepMember
  <2> HIDE DEF x, f
  <2> QED
    BY <1>2, <2>2, <2>3, <2>4, <2>5, <2>6
<1> QED
  BY <1>1, <1>3, RestNumber, Equal

\* After the last step only the sum above the byte is left to be added.
LEMMA EntryEnds ==
  ASSUME NEW a \in Number, NEW s \in Number, NEW b \in Byte
  PROVE  Xor(a, Shift(s, ByteBits)) = Xor(Xor(a, Shift(High(s), ByteBits)), Shift(b, ByteBits))
<1>1. Xor(a, Shift(s, ByteBits)) \in Number
  BY XorNumber, ShiftNumber
<1>2. ASSUME NEW i \in Ones
      PROVE  i \in Xor(a, Shift(s, ByteBits)) <=>
               i \in Xor(Xor(a, Shift(High(s), ByteBits)), Shift(b, ByteBits))
  <2>1. i \in Nat /\ ByteBits \in Nat /\ i + ByteBits >= ByteBits
    BY Crc32Assumption DEF Ones, Crc32Assumption
  <2>2. i + ByteBits \notin b
    BY <2>1 DEF Byte
  <2>3. i \in Shift(s, ByteBits) <=> i + ByteBits \in s
    BY <2>1, ShiftMember
  <2>4. i \in Xor(a, Shift(s, ByteBits)) <=>
          (i \in a /\ i \notin Shift(s, ByteBits)) \/ (i \in Shift(s, ByteBits) /\ i \notin a)
    BY XorMember
  <2>5. i \in Xor(Xor(a, Shift(High(s), ByteBits)), Shift(b, ByteBits)) <=>
          \/ i \in a /\ ~Flips(s, b, i + ByteBits)
          \/ i \notin a /\ Flips(s, b, i + ByteBits)
    BY <2>1, RestMember
  <2>6. Flips(s, b, i + ByteBits) <=> i + ByteBits \in s
    BY <2>1, <2>2 DEF Flips, High
  <2> QED
    BY <2>3, <2>4, <2>5, <2>6
<1> QED
  BY <1>1, <1>2, RestNumber, Equal

LEMMA TableInvInit == CrcInit => TableInv
<1> SUFFICES ASSUME CrcInit PROVE TableInv
  OBVIOUS
<1>1. CrcTypeOK
  BY Crc32Assumption DEF CrcInit, CrcTypeOK, Number, Byte, Ones, Crc32Assumption
<1>2. j = ByteBits + 1 /\ ~(j <= ByteBits)
  BY Crc32Assumption DEF CrcInit, Crc32Assumption
<1> QED
  BY <1>1, <1>2 DEF CrcInit, TableInv

LEMMA TableInvNext == TableInv /\ CrcTypeOK' /\ [CrcNext]_crcVars => TableInv'
<1> SUFFICES ASSUME TableInv, CrcTypeOK', [CrcNext]_crcVars PROVE TableInv'
  OBVIOUS
<1> USE Crc32Assumption DEF Crc32Assumption
<1>1. ASSUME NextByte PROVE TableInv'
  <2>1. j' = 0 /\ j' <= ByteBits /\ j' # ByteBits + 1
    BY <1>1 DEF NextByte
  <2>2. ASSUME NEW t \in Text
        PROVE  ref'[t] = Xor(Xor(c'[t], Shift(High(crc'[t]), j')), Shift(byte'[t], j'))
    <3>1. crc[t] \in Number /\ byte'[t] \in Byte /\ c'[t] = Index(crc[t], byte'[t])
      BY <1>1, <2>2 DEF NextByte, TableInv, CrcTypeOK
    <3>2. ref'[t] = crc[t] /\ crc'[t] = crc[t]
      BY <1>1, <2>2 DEF NextByte, TableInv
    <3> QED
      BY <2>1, <3>1, <3>2, EntryBegins
  <2> QED
    BY <2>1, <2>2 DEF TableInv
<1>2. ASSUME TableStep PROVE TableInv'
  <2>1. j' = j + 1 /\ j \in Nat /\ j < ByteBits /\ j' # ByteBits + 1
    BY <1>2 DEF TableStep, TableInv, CrcTypeOK
  <2>2. ASSUME NEW t \in Text
        PROVE  ref'[t] = Xor(Xor(c'[t], Shift(High(crc'[t]), j')), Shift(byte'[t], j'))
    <3>1. /\ c[t] \in Number /\ crc[t] \in Number /\ byte[t] \in Byte /\ ref[t] \in Number
          /\ ref[t] = Xor(Xor(c[t], Shift(High(crc[t]), j)), Shift(byte[t], j))
      BY <2>1, <2>2 DEF TableInv, CrcTypeOK
    <3>2. Bit(t) \in Number /\ Bit(t) = IF j \in byte[t] THEN {0} ELSE {}
      BY DEF Bit, Number
    <3>3. Step(Xor(ref[t], Bit(t))) =
            Xor(Xor(Step(c[t]), Shift(High(crc[t]), j + 1)), Shift(byte[t], j + 1))
      BY <2>1, <3>1, <3>2, EntrySteps
    <3>4. /\ ref'[t] = Step(Xor(ref[t], Bit(t))) /\ c'[t] = Step(c[t])
          /\ crc'[t] = crc[t] /\ byte'[t] = byte[t]
      BY <1>2, <2>2 DEF TableStep
    <3> QED
      BY <2>1, <3>3, <3>4
  <2> QED
    BY <2>1, <2>2 DEF TableInv
<1>3. ASSUME Lookup PROVE TableInv'
  <2>1. j = ByteBits /\ j' = ByteBits + 1 /\ ~(j' <= ByteBits)
    BY <1>3 DEF Lookup
  <2>2. ASSUME NEW t \in Text PROVE crc'[t] = ref'[t]
    <3>1. /\ c[t] \in Number /\ crc[t] \in Number /\ byte[t] \in Byte
          /\ ref[t] = Xor(Xor(c[t], Shift(High(crc[t]), ByteBits)), Shift(byte[t], ByteBits))
      BY <2>1, <2>2 DEF TableInv, CrcTypeOK
    <3>2. crc'[t] = Xor(c[t], Shift(crc[t], ByteBits)) /\ ref'[t] = ref[t]
      BY <1>3, <2>2 DEF Lookup
    <3> QED
      BY <3>1, <3>2, EntryEnds
  <2> QED
    BY <2>1, <2>2 DEF TableInv
<1>4. CASE UNCHANGED crcVars
  BY <1>4 DEF crcVars, TableInv, CrcTypeOK
<1> QED
  BY <1>1, <1>2, <1>3, <1>4 DEF CrcNext

LEMMA TableInvariant == CrcSpec => []TableInv
BY CrcTypeCorrect, TableInvInit, TableInvNext, PTL DEF CrcSpec

\* The table and the loop over it compute the remainder of the division bit by bit:
\* GenerateCrc32Table and GetCrc32 are a CRC for any polynomial, width and byte.
THEOREM TableIsRight == CrcSpec => []TableAgrees
<1>1. TableInv => TableAgrees
  BY DEF TableInv, TableAgrees, Crc
<1> QED
  BY <1>1, TableInvariant, PTL

-----------------------------------------------------------------------------
(* Bursts.  The remainders of two texts differ in one of the places that   *)
(* the bits since the first difference have moved through, and no bits     *)
(* that differ are left when they are Width.                               *)

Differ(i) == (i \in ref["one"] /\ i \notin ref["other"]) \/ (i \in ref["other"] /\ i \notin ref["one"])
BurstInv ==
  /\ CrcTypeOK
  /\ since = 0 => ref["one"] = ref["other"]
  /\ j <= ByteBits /\ byte["one"] # byte["other"] => since + (ByteBits - j) <= Width
  /\ since > 0 => \E i \in (Width - since) .. (Width - 1) : Differ(i)

\* Remainders that differ below i + 1 <= Width, and are stepped, differ below i: one
\* that has a one in the lowest place gets one in the highest, and the other does not.
LEMMA DifferenceMoves ==
  ASSUME NEW a \in Number, NEW b \in Number, NEW n \in 0 .. (Width - 1),
         \E i \in n .. (Width - 1) : (i \in a /\ i \notin b) \/ (i \in b /\ i \notin a)
  PROVE  \E i \in (IF n = 0 THEN 0 ELSE n - 1) .. (Width - 1) :
           (i \in Step(a) /\ i \notin Step(b)) \/ (i \in Step(b) /\ i \notin Step(a))
<1> USE Crc32Assumption DEF Crc32Assumption
<1>1. CASE 0 \in a <=> 0 \in b
  <2>1. PICK i \in n .. (Width - 1) : (i \in a /\ i \notin b) \/ (i \in b /\ i \notin a)
    OBVIOUS
  <2>2. i # 0 /\ i - 1 \in Nat /\ (i - 1) + 1 = i
    BY <1>1, <2>1
  <2>3. /\ 0 \in a => (i - 1 \in Step(a) <=> (i - 1 \in Poly /\ i \notin a)
                                             \/ (i \in a /\ i - 1 \notin Poly))
        /\ 0 \notin a => (i - 1 \in Step(a) <=> i \in a)
    BY <2>2, StepMember
  <2>4. /\ 0 \in b => (i - 1 \in Step(b) <=> (i - 1 \in Poly /\ i \notin b)
                                             \/ (i \in b /\ i - 1 \notin Poly))
        /\ 0 \notin b => (i - 1 \in Step(b) <=> i \in b)
    BY <2>2, StepMember
  <2>5. (i - 1 \in Step(a) /\ i - 1 \notin Step(b)) \/ (i - 1 \in Step(b) /\ i - 1 \notin Step(a))
    BY <1>1, <2>1, <2>3, <2>4
  <2>6. i - 1 \in (IF n = 0 THEN 0 ELSE n - 1) .. (Width - 1)
    BY <2>2
  <2> QED
    BY <2>5, <2>6
<1>2. CASE ~(0 \in a <=> 0 \in b)
  <2> DEFINE top == Width - 1
  <2>1. top \in Nat /\ top + 1 \notin a /\ top + 1 \notin b /\ top \in Poly
    BY DEF Number
  <2>2. 0 \in a => top \in Step(a)
    BY <2>1, StepMember
  <2>3. 0 \notin a => top \notin Step(a)
    BY <2>1, StepMember
  <2>4. 0 \in b => top \in Step(b)
    BY <2>1, StepMember
  <2>5. 0 \notin b => top \notin Step(b)
    BY <2>1, StepMember
  <2>6. top \in (IF n = 0 THEN 0 ELSE n - 1) .. (Width - 1)
    OBVIOUS
  <2> HIDE DEF top
  <2> QED
    BY <1>2, <2>2, <2>3, <2>4, <2>5, <2>6
<1> QED
  BY <1>1, <1>2

LEMMA BurstInvInit == CrcInit => BurstInv
<1> SUFFICES ASSUME CrcInit PROVE BurstInv
  OBVIOUS
<1>1. CrcTypeOK
  BY Crc32Assumption DEF CrcInit, CrcTypeOK, Number, Byte, Ones, Crc32Assumption
<1>2. ~(j <= ByteBits)
  BY Crc32Assumption DEF CrcInit, Crc32Assumption
<1> QED
  BY <1>1, <1>2 DEF CrcInit, BurstInv, Text

LEMMA BurstInvNext == BurstInv /\ CrcTypeOK' /\ [CrcNext]_crcVars => BurstInv'
<1> SUFFICES ASSUME BurstInv, CrcTypeOK', [CrcNext]_crcVars PROVE BurstInv'
  OBVIOUS
<1> USE Crc32Assumption DEF Crc32Assumption
<1>1. ASSUME NextByte PROVE BurstInv'
  <2>1. j' = 0 /\ since' = since /\ ref' = ref
    BY <1>1 DEF NextByte
  <2>2. byte'["one"] # byte'["other"] => since' + (ByteBits - j') <= Width
    BY <1>1, <2>1 DEF NextByte
  <2> QED
    BY <2>1, <2>2 DEF BurstInv, Differ
<1>2. ASSUME TableStep PROVE BurstInv'
  <2> DEFINE a == Xor(ref["one"], Bit("one"))
             b == Xor(ref["other"], Bit("other"))
  <2>1. /\ j' = j + 1 /\ j \in Nat /\ j < ByteBits /\ byte' = byte
        /\ ref'["one"] = Step(a) /\ ref'["other"] = Step(b)
        /\ since \in 0 .. Width
    BY <1>2 DEF TableStep, BurstInv, CrcTypeOK, Text
  <2>2. /\ ref["one"] \in Number /\ ref["other"] \in Number
        /\ Bit("one") \in Number /\ Bit("other") \in Number
    BY DEF BurstInv, CrcTypeOK, Text, Bit, Number
  <2>3. a \in Number /\ b \in Number
    BY <2>2, XorNumber
  <2>4. Bit("one") # Bit("other") => since + (ByteBits - j) <= Width
    BY <2>1 DEF BurstInv, Bit
  <2>5. byte'["one"] # byte'["other"] => since' + (ByteBits - j') <= Width
    <3>1. since' = since \/ since' = since + 1
      BY <1>2 DEF TableStep, Since
    <3>2. byte["one"] # byte["other"] => since + (ByteBits - j) <= Width
      BY <2>1 DEF BurstInv
    <3> HIDE DEF BurstInv
    <3> QED
      BY <2>1, <3>1, <3>2
  <2>6. CASE since = 0 /\ Bit("one") = Bit("other")
    <3>1. since' = 0 /\ a = b
      BY <1>2, <2>6 DEF TableStep, Since, BurstInv
    <3> QED
      BY <2>1, <2>5, <3>1 DEF BurstInv
  <2>7. CASE since = 0 /\ Bit("one") # Bit("other")
    <3>1. since' = 1
      BY <1>2, <2>7 DEF TableStep, Since
    <3>2. ref["one"] = ref["other"]
      BY <2>7 DEF BurstInv
    <3>3. (0 \in Bit("one") /\ 0 \notin Bit("other")) \/ (0 \in Bit("other") /\ 0 \notin Bit("one"))
      BY <2>7 DEF Bit
    <3>4. 0 \in a <=> (0 \in ref["one"] /\ 0 \notin Bit("one")) \/ (0 \in Bit("one") /\ 0 \notin ref["one"])
      BY XorMember
    <3>5. 0 \in b <=> (0 \in ref["other"] /\ 0 \notin Bit("other")) \/ (0 \in Bit("other") /\ 0 \notin ref["other"])
      BY XorMember
    <3>6. ~(0 \in a <=> 0 \in b)
      BY <3>2, <3>3, <3>4, <3>5
    <3> DEFINE top == Width - 1
    <3>7. top \in Nat /\ top + 1 \notin a /\ top + 1 \notin b /\ top \in Poly
      BY <2>3 DEF Number
    <3>8. /\ 0 \in a => top \in Step(a)
          /\ 0 \notin a => top \notin Step(a)
          /\ 0 \in b => top \in Step(b)
          /\ 0 \notin b => top \notin Step(b)
      BY <2>3, <3>7, StepMember
    <3>9. (top \in Step(a) /\ top \notin Step(b)) \/ (top \in Step(b) /\ top \notin Step(a))
      BY <3>6, <3>8
    <3>10. Differ(top)'
      BY <2>1, <3>9 DEF Differ
    <3>11. top \in (Width - since') .. (Width - 1) /\ since' # 0
      BY <3>1
    <3> QED
      BY <2>5, <3>10, <3>11 DEF BurstInv
  <2>8. CASE since > 0
    <3> DEFINE n == Width - since
    <3>1. n \in 0 .. (Width - 1) /\ since' = (IF n = 0 THEN since ELSE since + 1)
      BY <1>2, <2>1, <2>8 DEF TableStep, Since
    <3>2. PICK i \in n .. (Width - 1) : Differ(i)
      BY <2>8 DEF BurstInv
    <3>3. n = 0 => Bit("one") = Bit("other")
      BY <2>1, <2>4
    <3>4. i # 0 => i \notin Bit("one") /\ i \notin Bit("other")
      BY DEF Bit
    <3>5. /\ i \in a <=> (i \in ref["one"] /\ i \notin Bit("one")) \/ (i \in Bit("one") /\ i \notin ref["one"])
          /\ i \in b <=> (i \in ref["other"] /\ i \notin Bit("other")) \/ (i \in Bit("other") /\ i \notin ref["other"])
      BY XorMember
    <3>6. i = 0 => n = 0
      BY <3>1
    <3>7. (i \in a /\ i \notin b) \/ (i \in b /\ i \notin a)
      BY <3>2, <3>3, <3>4, <3>5, <3>6 DEF Differ
    <3> HIDE DEF a, b
    <3>8. \E k \in (IF n = 0 THEN 0 ELSE n - 1) .. (Width - 1) :
            (k \in Step(a) /\ k \notin Step(b)) \/ (k \in Step(b) /\ k \notin Step(a))
      BY <2>3, <3>1, <3>7, DifferenceMoves
    <3>9. PICK k \in (IF n = 0 THEN 0 ELSE n - 1) .. (Width - 1) :
            (k \in Step(a) /\ k \notin Step(b)) \/ (k \in Step(b) /\ k \notin Step(a))
      BY <3>8
    <3>10. Differ(k)'
      BY <2>1, <3>9 DEF Differ
    <3>11. k \in (Width - since') .. (Width - 1) /\ since' # 0
      <4>1. CASE n = 0
        BY <2>1, <2>8, <3>1, <3>9, <4>1
      <4>2. CASE n # 0
        BY <2>1, <2>8, <3>1, <3>9, <4>2
      <4> QED
        BY <4>1, <4>2
    <3> QED
      BY <2>5, <3>10, <3>11 DEF BurstInv
  <2> QED
    BY <2>1, <2>6, <2>7, <2>8
<1>3. ASSUME Lookup PROVE BurstInv'
  BY <1>3 DEF Lookup, BurstInv, Differ
<1>4. CASE UNCHANGED crcVars
  BY <1>4 DEF crcVars, BurstInv, Differ
<1> QED
  BY <1>1, <1>2, <1>3, <1>4 DEF CrcNext

\* Two texts that differ, and only within Width neighbouring bits, have different sums,
\* however long they are: GetCrc32 never gives such descriptions of types one UID.
THEOREM BurstsDetected == CrcSpec => []BurstDetected
<1>1. BurstInv /\ TableInv => BurstDetected
  <2> SUFFICES ASSUME BurstInv, TableInv, j = ByteBits + 1, since > 0
               PROVE  Crc("one") # Crc("other")
    BY DEF BurstDetected
  <2>1. PICK i \in (Width - since) .. (Width - 1) : Differ(i)
    BY DEF BurstInv
  <2>2. crc["one"] = ref["one"] /\ crc["other"] = ref["other"]
    BY DEF TableInv, Text
  <2>3. /\ i \in Crc("one") <=> (i \in crc["one"] /\ i \notin Ones) \/ (i \in Ones /\ i \notin crc["one"])
        /\ i \in Crc("other") <=> (i \in crc["other"] /\ i \notin Ones) \/ (i \in Ones /\ i \notin crc["other"])
    BY XorMember DEF Crc
  <2> QED
    BY <2>1, <2>2, <2>3 DEF Differ
<1>2. CrcSpec => []BurstInv
  BY CrcTypeCorrect, BurstInvInit, BurstInvNext, PTL DEF CrcSpec
<1> QED
  BY <1>1, <1>2, TableInvariant, PTL

-----------------------------------------------------------------------------
(* The message list.                                                       *)

\* In a list whose UIDs are distinct, the header inspection of SsInspectHeader
\* finds a definition exactly by its UID.
LEMMA InspectHeaderFinds ==
  ASSUME NEW l \in Library, NEW uid
  PROVE  /\ InspectHeader(l, uid) \in DOMAIN l =>
              Uid[l[InspectHeader(l, uid)]] = uid
         /\ \A i \in DOMAIN l : Uid[l[i]] = uid => InspectHeader(l, uid) = i
<1> DEFINE hits == {i \in DOMAIN l : Uid[l[i]] = uid}
<1>0. l \in Seq(Def) /\ Len(l) \in Nat /\ DOMAIN l = 1 .. Len(l)
  BY LibraryAssumption
<1>1. \A i, m \in hits : i = m
  BY LibraryAssumption
<1>2. CASE hits = {}
  BY <1>0, <1>2 DEF InspectHeader
<1>3. CASE hits # {}
  <2>1. PICK i \in hits : hits = {i}
    BY <1>1, <1>3
  <2>2. (CHOOSE k \in hits : \A m \in hits : k <= m) = i
    BY <1>0, <2>1
  <2>3. InspectHeader(l, uid) = i
    BY <1>3, <2>2 DEF InspectHeader
  <2> QED
    BY <2>1, <2>3
<1> QED
  BY <1>2, <1>3

\* The members of a message list are definitions.
LEMMA ElemsAreDefs ==
  ASSUME NEW l \in Library
  PROVE  /\ Elems(l) \subseteq Def
         /\ \A i \in DOMAIN l : l[i] \in Elems(l)
BY LibraryAssumption DEF Elems

-----------------------------------------------------------------------------
(* What an unpack returns.                                                 *)

\* The result of an unpack call of peer p, whose message list is l, on the
\* datagram g: a failure, or a message of l that carries the UID of g.
Returns(p, l, g, r) ==
  \/ r \in Rejected
  \/ /\ r \in Accepted
     /\ r.peer = p /\ r.wire = g.body
     /\ r.def \in Elems(l) /\ Uid[r.def] = g.uid
     /\ r.val = DecodeBody(r.def, g)

LEMMA UnpackNewReturns ==
  ASSUME NEW p \in Peer, NEW l \in Library, NEW d \in Elems(l),
         NEW g \in Datagram
  PROVE  Returns(p, l, g, UnpackNew(p, d, g))
<1>1. CASE HeaderStatus(d, g.uid, g.len) = "Success"
  <2>1. UnpackNew(p, d, g) = Success(p, d, g) /\ Uid[d] = g.uid
    BY <1>1 DEF UnpackNew, HeaderStatus
  <2>2. d \in Def
    BY ElemsAreDefs
  <2>3. DecodeBody(d, g) \in Value \cup {Garbled}
    BY DEF DecodeBody, Datagram
  <2>4. Success(p, d, g) \in Accepted
    BY <2>2, <2>3 DEF Success, Accepted, Datagram
  <2> QED
    BY <2>1, <2>4 DEF Returns, Success
<1>2. CASE HeaderStatus(d, g.uid, g.len) # "Success"
  BY <1>2 DEF UnpackNew, HeaderStatus, Returns, Failure, Rejected, Status
<1> QED
  BY <1>1, <1>2

LEMMA CcUnpackMessageReturns ==
  ASSUME NEW p \in Peer, NEW l \in Library, NEW g \in Datagram
  PROVE  Returns(p, l, g, CcUnpackMessage(p, l, g))
<1> DEFINE i == InspectHeader(l, g.uid)
<1>1. i \in DOMAIN l => l[i] \in Elems(l)
  BY ElemsAreDefs
<1>2. i \in DOMAIN l => Returns(p, l, g, UnpackNew(p, l[i], g))
  BY <1>1, UnpackNewReturns
<1>3. Failure(p, "InvalidLen") \in Rejected /\ Failure(p, "InvalidUid") \in Rejected
  BY DEF Failure, Rejected, Status
<1> QED
  BY <1>2, <1>3 DEF CcUnpackMessage, Returns

LEMMA PyUnpackReturns ==
  ASSUME NEW p \in Peer, NEW l \in Library, NEW d \in Elems(l),
         NEW g \in Datagram
  PROVE  Returns(p, l, g, PyUnpack(p, d, g))
<1>1. Failure(p, "IncorrectBufferSize") \in Rejected
  BY DEF Failure, Rejected, Status
<1> QED
  BY <1>1, UnpackNewReturns DEF PyUnpack, Returns

LEMMA PyUnpackMessageReturns ==
  ASSUME NEW p \in Peer, NEW l \in Library, NEW uid, NEW g \in Datagram
  PROVE  Returns(p, l, g, PyUnpackMessage(p, l, uid, g))
<1> DEFINE i == InspectHeader(l, uid)
<1>1. i \in DOMAIN l => Returns(p, l, g, PyUnpack(p, l[i], g))
  BY ElemsAreDefs, PyUnpackReturns
<1>2. Failure(p, "UnknownMessage") \in Rejected
  BY DEF Failure, Rejected, Status
<1> QED
  BY <1>1, <1>2 DEF PyUnpackMessage, Returns

LEMMA DynUnpackMessageReturns ==
  ASSUME NEW p \in Peer, NEW l \in Library, NEW g \in Datagram
  PROVE  Returns(p, l, g, DynUnpackMessage(p, l, g))
<1> DEFINE i == InspectHeader(l, g.uid)
<1>1. Failure(p, "InvalidLen") \in Rejected /\ Failure(p, "InvalidUid") \in Rejected
  BY DEF Failure, Rejected, Status
<1>2. ASSUME i \in DOMAIN l
      PROVE  Returns(p, l, g, Success(p, l[i], g))
  <2>1. l[i] \in Elems(l) /\ l[i] \in Def
    BY <1>2, ElemsAreDefs
  <2>2. Uid[l[i]] = g.uid
    BY <1>2, InspectHeaderFinds
  <2>3. DecodeBody(l[i], g) \in Value \cup {Garbled}
    BY DEF DecodeBody, Datagram
  <2>4. Success(p, l[i], g) \in Accepted
    BY <2>1, <2>3 DEF Success, Accepted, Datagram
  <2> QED
    BY <2>1, <2>2, <2>4 DEF Returns, Success
<1> QED
  BY <1>1, <1>2 DEF DynUnpackMessage, Returns

-----------------------------------------------------------------------------
(* The inductive invariant.  Only the UID field of a datagram matters to   *)
(* what it is taken for: it is the one its sender packed, or no one's.     *)

NetUids == \A g \in net : g.uid \in {Uid[g.body.def], JunkUid}

\* A message that is returned is known to the receiver, and has the UID of the
\* definition that was packed.
UidAgreement ==
  Succeeded => /\ Uid[ret.def] = Uid[ret.wire.def]
               /\ ret.def \in Elems(lib[ret.peer])

\* A result of the definition that was packed has the value that was packed.
DecodedRight ==
  Succeeded => (ret.def = ret.wire.def => ret.val = ret.wire.val)

IInv == TypeOK /\ NetUids /\ UidAgreement /\ DecodedRight

LEMMA InitIInv == Init => IInv
<1> SUFFICES ASSUME Init PROVE IInv
  OBVIOUS
<1>1. ~Succeeded
  BY DEF Init, Succeeded, NoCall
<1>2. TypeOK
  BY DEF Init, TypeOK
<1>3. NetUids
  BY DEF Init, NetUids
<1> QED
  BY <1>1, <1>2, <1>3 DEF IInv, UidAgreement, DecodedRight

\* A step in which no unpack call returns keeps what is said of results.
LEMMA NoCallIsNoSuccess ==
  ASSUME ret' = NoCall
  PROVE  UidAgreement' /\ DecodedRight' /\ ret' \in Accepted \cup Rejected \cup {NoCall}
<1>1. ~Succeeded'
  BY DEF Succeeded, NoCall
<1> QED
  BY <1>1 DEF UidAgreement, DecodedRight

\* A call that returned on a datagram in flight is right about it.
LEMMA ReturnIsRight ==
  ASSUME IInv, NEW p \in Peer, NEW g \in net, lib' = lib,
         Returns(p, lib[p], g, ret')
  PROVE  UidAgreement' /\ DecodedRight' /\ ret' \in Accepted \cup Rejected \cup {NoCall}
<1>1. CASE ret' \in Rejected
  <2>1. ~Succeeded'
    BY <1>1 DEF Succeeded, Rejected, Status
  <2> QED
    BY <1>1, <2>1 DEF UidAgreement, DecodedRight
<1>2. CASE ret' \notin Rejected
  <2>1. /\ ret' \in Accepted
        /\ ret'.peer = p /\ ret'.wire = g.body
        /\ ret'.def \in Elems(lib[p]) /\ Uid[ret'.def] = g.uid
        /\ ret'.val = DecodeBody(ret'.def, g)
    BY <1>2 DEF Returns
  <2>2. lib[p] \in Library
    BY DEF IInv, TypeOK
  <2>3. g.uid # JunkUid
    BY <2>1, <2>2, ElemsAreDefs, UidAssumption
  <2>4. g.uid = Uid[g.body.def]
    BY <2>3 DEF IInv, NetUids
  <2>5. UidAgreement'
    BY <2>1, <2>4 DEF UidAgreement
  <2>6. DecodedRight'
    BY <2>1 DEF DecodedRight, DecodeBody
  <2> QED
    BY <2>1, <2>5, <2>6
<1> QED
  BY <1>1, <1>2

\* Spoiling or resizing a datagram keeps it a datagram.
LEMMA ReplaceKeepsNet ==
  ASSUME IInv, NEW g \in net, NEW h \in Datagram, h.body = g.body,
         h.uid \in {g.uid, JunkUid}, Replace(g, h)
  PROVE  net' \subseteq Datagram /\ NetUids'
BY DEF IInv, TypeOK, NetUids, Replace

LEMMA NextIInv == IInv /\ [Next]_vars => IInv'
<1> SUFFICES ASSUME IInv, [Next]_vars PROVE IInv'
  OBVIOUS
<1> USE DEF IInv
<1>1. ASSUME NEW p \in Peer, Compose(p) PROVE IInv'
  <2>1. UidAgreement' /\ DecodedRight' /\ ret' \in Accepted \cup Rejected \cup {NoCall}
    BY <1>1, NoCallIsNoSuccess DEF Compose
  <2>2. NetUids'
    BY <1>1 DEF Compose, NetUids
  <2>3. PICK d \in Elems(lib[p]), v \in Value :
          obj' = [obj EXCEPT ![p] = [def |-> d, uid |-> 0, len |-> 0, val |-> v]]
    BY <1>1 DEF Compose
  <2>4. [def |-> d, uid |-> 0, len |-> 0, val |-> v] \in Obj
    BY <2>3, ElemsAreDefs, SizeAssumption DEF Obj, TypeOK, HeaderSize
  <2>5. TypeOK'
    BY <1>1, <2>1, <2>3, <2>4 DEF Compose, TypeOK
  <2> QED
    BY <2>1, <2>2, <2>5
<1>2. ASSUME NEW p \in Peer, Pack(p) PROVE IInv'
  <2> DEFINE o == obj[p]
             h == PackedHeader(o.def)
             g == [uid |-> h.uid, len |-> h.len, size |-> Size[o.def],
                   body |-> [def |-> o.def, val |-> o.val]]
             n == [obj[p] EXCEPT !.uid = h.uid, !.len = h.len]
  <2>1. UidAgreement' /\ DecodedRight' /\ ret' \in Accepted \cup Rejected \cup {NoCall}
    BY <1>2, NoCallIsNoSuccess DEF Pack
  <2>2. o \in Obj /\ o.val \in Value /\ o.def \in Def
    BY <1>2 DEF Pack, TypeOK, Obj
  <2>3. Size[o.def] \in Nat /\ Size[o.def] % LenMod \in 0 .. (LenMod - 1)
    BY <2>2, SizeAssumption DEF HeaderSize
  <2>4. h.uid = Uid[o.def] /\ h.uid \in UidVal /\ h.len \in 0 .. (LenMod - 1)
    BY <2>2, <2>3, UidAssumption DEF PackedHeader
  <2>5. g \in Datagram
    BY <2>2, <2>3, <2>4 DEF Datagram
  <2>6. net' = net \cup {g}
    BY <1>2 DEF Pack
  <2>7. NetUids'
    BY <2>4, <2>6 DEF NetUids
  <2>8. obj' = [obj EXCEPT ![p] = n]
    BY <1>2 DEF Pack, TypeOK
  <2>9. n \in Obj /\ n.def = o.def
    BY <2>2, <2>4 DEF Obj
  <2>10. TypeOK'
    BY <1>2, <2>1, <2>5, <2>6, <2>8, <2>9 DEF Pack, TypeOK
  <2> QED
    BY <2>1, <2>7, <2>10
<1>3. ASSUME NEW p \in Peer, UnpackInPlace(p) PROVE IInv'
  <2> DEFINE d == obj[p].def
             val(g) == IF HeaderStatus(d, g.uid, g.len) = "Success"
                       THEN DecodeBody(d, g) ELSE obj[p].val
             n(g) == [def |-> d, uid |-> g.uid, len |-> g.len, val |-> val(g)]
  <2>1. PICK g \in net : /\ obj' = [obj EXCEPT ![p] = n(g)]
                         /\ ret' = UnpackNew(p, d, g)
    BY <1>3 DEF UnpackInPlace, Unpacked
  <2>2. obj[p] \in Obj /\ d \in Elems(lib[p]) /\ d \in Def /\ lib[p] \in Library
        /\ g \in Datagram
    BY <1>3 DEF UnpackInPlace, TypeOK, Obj
  <2>3. Returns(p, lib[p], g, ret')
    BY <2>1, <2>2, UnpackNewReturns
  <2>4. UidAgreement' /\ DecodedRight' /\ ret' \in Accepted \cup Rejected \cup {NoCall}
    BY <1>3, <2>3, ReturnIsRight DEF UnpackInPlace
  <2>5. val(g) \in Value \cup {Garbled}
    BY <2>2 DEF DecodeBody, Obj, Datagram
  <2>6. n(g) \in Obj
    BY <2>2, <2>5 DEF Obj, Datagram
  <2>7. TypeOK'
    BY <1>3, <2>1, <2>2, <2>4, <2>6 DEF UnpackInPlace, TypeOK
  <2>8. NetUids'
    BY <1>3 DEF UnpackInPlace, NetUids
  <2> QED
    BY <2>4, <2>7, <2>8
<1>4. ASSUME NEW p \in Peer, CcUnpackNew(p) \/ UnpackAny(p) PROVE IInv'
  <2>1. lib[p] \in Library /\ net \subseteq Datagram
    BY DEF TypeOK
  <2>2. PICK g \in net : Returns(p, lib[p], g, ret')
    BY <1>4, <2>1, UnpackNewReturns, CcUnpackMessageReturns, PyUnpackReturns,
       PyUnpackMessageReturns, DynUnpackMessageReturns
    DEF CcUnpackNew, UnpackAny
  <2>3. UNCHANGED <<lib, obj, net>>
    BY <1>4 DEF CcUnpackNew, UnpackAny
  <2>4. UidAgreement' /\ DecodedRight' /\ ret' \in Accepted \cup Rejected \cup {NoCall}
    BY <2>2, <2>3, ReturnIsRight
  <2>5. TypeOK'
    BY <2>3, <2>4 DEF TypeOK
  <2>6. NetUids'
    BY <2>3 DEF NetUids
  <2> QED
    BY <2>4, <2>5, <2>6
<1>5. ASSUME NEW p \in Peer, Upgrade(p) PROVE IInv'
  <2>1. UidAgreement' /\ DecodedRight' /\ ret' \in Accepted \cup Rejected \cup {NoCall}
    BY <1>5, NoCallIsNoSuccess DEF Upgrade
  <2>2. TypeOK'
    BY <1>5, <2>1 DEF Upgrade, TypeOK
  <2>3. NetUids'
    BY <1>5 DEF Upgrade, NetUids
  <2> QED
    BY <2>1, <2>2, <2>3
<1>6. ASSUME Lose \/ Resize \/ Spoil PROVE IInv'
  <2>1. ret' = NoCall /\ UNCHANGED <<lib, obj>>
    BY <1>6 DEF Lose, Resize, Spoil
  <2>2. UidAgreement' /\ DecodedRight' /\ ret' \in Accepted \cup Rejected \cup {NoCall}
    BY <2>1, NoCallIsNoSuccess
  <2>3. net' \subseteq Datagram /\ NetUids'
    <3>1. CASE Lose
      BY <3>1 DEF Lose, TypeOK, NetUids
    <3>2. CASE Resize
      <4>1. PICK g \in net, n \in WireSize : Replace(g, [g EXCEPT !.size = n])
        BY <3>2 DEF Resize
      <4>2. [g EXCEPT !.size = n] \in Datagram
        BY SizeAssumption DEF Datagram, TypeOK
      <4> QED
        BY <4>1, <4>2, ReplaceKeepsNet DEF Datagram, TypeOK
    <3>3. CASE Spoil
      <4>1. PICK g \in net :
              \/ Replace(g, [g EXCEPT !.uid = JunkUid])
              \/ \E n \in WireSize : Replace(g, [g EXCEPT !.len = n % LenMod])
        BY <3>3 DEF Spoil
      <4>2. g \in Datagram /\ [g EXCEPT !.uid = JunkUid] \in Datagram
        BY UidAssumption DEF Datagram, TypeOK
      <4>3. \A n \in WireSize : n % LenMod \in 0 .. (LenMod - 1)
        BY SizeAssumption DEF HeaderSize
      <4>4. \A n \in WireSize : [g EXCEPT !.len = n % LenMod] \in Datagram
        BY <4>2, <4>3 DEF Datagram
      <4>5. CASE Replace(g, [g EXCEPT !.uid = JunkUid])
        BY <4>2, <4>5, ReplaceKeepsNet DEF Datagram
      <4>6. ASSUME NEW n \in WireSize, Replace(g, [g EXCEPT !.len = n % LenMod])
            PROVE  net' \subseteq Datagram /\ NetUids'
        BY <4>2, <4>4, <4>6, ReplaceKeepsNet DEF Datagram
      <4> QED
        BY <4>1, <4>5, <4>6
    <3> QED
      BY <1>6, <3>1, <3>2, <3>3
  <2>4. TypeOK'
    BY <2>1, <2>2, <2>3 DEF TypeOK
  <2> QED
    BY <2>2, <2>3, <2>4
<1>7. CASE UNCHANGED vars
  BY <1>7 DEF vars, TypeOK, NetUids, UidAgreement, DecodedRight, Succeeded
<1> QED
  BY <1>1, <1>2, <1>3, <1>4, <1>5, <1>6, <1>7 DEF Next

LEMMA Invariance == Spec => []IInv
BY InitIInv, NextIInv, PTL DEF Spec

-----------------------------------------------------------------------------
(* The theorems.                                                           *)

\* Every reachable state of the link is of its type: in particular the field
\* "len" of every header is a uint16, and the struct a peer owns is a message
\* of the specification the peer was built from.
THEOREM TypeCorrect == Spec => []TypeOK
<1>1. IInv => TypeOK
  BY DEF IInv
<1> QED
  BY <1>1, Invariance, PTL

\* With any specifications at the two ends, a successful unpack returns exactly the
\* message that was packed, or a known one that has the UID of the definition that
\* was packed and is not that definition: what the link exists for.
THEOREM Delivery == Spec => []DeliveredAsSent
<1>1. IInv => DeliveredAsSent
  <2> SUFFICES ASSUME IInv, Succeeded, ret.def = ret.wire.def
               PROVE  [def |-> ret.def, val |-> ret.val] = ret.wire
    BY DEF DeliveredAsSent, IInv, UidAgreement
  <2>1. ret \in Accepted
    BY DEF IInv, TypeOK, Succeeded, Rejected, Status, NoCall
  <2>2. ret.wire \in [def : Def, val : Value] /\ ret.def \in Def
    BY <2>1 DEF Accepted
  <2>3. ret.val = ret.wire.val
    BY DEF IInv, DecodedRight
  <2> QED
    BY <2>2, <2>3
<1> QED
  BY <1>1, Invariance, PTL

-----------------------------------------------------------------------------
(* The three receivers agree.                                              *)

LEMMA InspectHeaderOf ==
  ASSUME NEW l \in Library, NEW d \in Elems(l), NEW uid
  PROVE  (/\ InspectHeader(l, uid) \in DOMAIN l
          /\ l[InspectHeader(l, uid)] = d) <=> uid = Uid[d]
<1>1. PICK k \in DOMAIN l : l[k] = d
  BY DEF Elems
<1>2. CASE uid = Uid[d]
  <2>1. InspectHeader(l, uid) = k
    BY <1>1, <1>2, InspectHeaderFinds
  <2> QED
    BY <1>1, <1>2, <2>1
<1>3. CASE uid # Uid[d]
  BY <1>3, InspectHeaderFinds
<1> QED
  BY <1>2, <1>3

\* A datagram is accepted as message d by the C++, the dynamic and the Python
\* receiver on the same condition, that it is an intact packed d.
THEOREM ReceiversAgree == Spec => []AcceptExactlyIntact
<1>1. TypeOK => AcceptExactlyIntact
  <2> SUFFICES ASSUME TypeOK, NEW p \in Peer, NEW g \in net,
                      NEW d \in Elems(lib[p])
      PROVE
        LET TakenAsD(r) == r.status = "Success" /\ r.def = d
        IN  /\ TakenAsD(CcUnpackMessage(p, lib[p], g)) <=> Intact(d, g)
            /\ TakenAsD(DynUnpackMessage(p, lib[p], g)) <=> Intact(d, g)
            /\ \A uid \in ReadUid(g) :
                 TakenAsD(PyUnpackMessage(p, lib[p], uid, g)) <=> Intact(d, g)
    BY DEF AcceptExactlyIntact
  <2> DEFINE TakenAsD(r) == r.status = "Success" /\ r.def = d
             l == lib[p]
  <2>1. l \in Library /\ g \in Datagram /\ d \in Def
    BY ElemsAreDefs DEF TypeOK
  <2>2. Size[d] \in Nat /\ Size[d] >= HeaderSize
    BY <2>1, SizeAssumption DEF HeaderSize
  <2>3. g.size \in Nat /\ g.len \in Nat
    BY <2>1, SizeAssumption DEF Datagram, HeaderSize
  <2>4. \A e : /\ ~TakenAsD(Failure(p, "InvalidLen"))
               /\ ~TakenAsD(Failure(p, "InvalidUid"))
               /\ ~TakenAsD(Failure(p, "UnknownMessage"))
               /\ ~TakenAsD(Failure(p, "IncorrectBufferSize"))
               /\ TakenAsD(Success(p, e, g)) <=> e = d
    BY DEF Failure, Success
  <2>5. \A e : TakenAsD(UnpackNew(p, e, g)) <=>
                 e = d /\ g.uid = Uid[d] /\ g.len = Size[d]
    BY <2>4 DEF UnpackNew, HeaderStatus
  <2>6. \A e : TakenAsD(PyUnpack(p, e, g)) <=> e = d /\ Intact(d, g)
    BY <2>4, <2>5 DEF PyUnpack, Intact
  <2>7. TakenAsD(CcUnpackMessage(p, l, g)) <=> Intact(d, g)
    BY <2>1, <2>2, <2>3, <2>4, <2>5, InspectHeaderOf
    DEF CcUnpackMessage, Intact, HeaderSize
  <2>8. TakenAsD(DynUnpackMessage(p, l, g)) <=> Intact(d, g)
    BY <2>1, <2>2, <2>3, <2>4, InspectHeaderOf
    DEF DynUnpackMessage, Intact, HeaderSize
  <2>9. ASSUME NEW uid \in ReadUid(g)
        PROVE  TakenAsD(PyUnpackMessage(p, l, uid, g)) <=> Intact(d, g)
    <3>1. TakenAsD(PyUnpackMessage(p, l, uid, g)) <=> uid = Uid[d] /\ Intact(d, g)
      BY <2>1, <2>4, <2>6, InspectHeaderOf DEF PyUnpackMessage
    <3>2. Intact(d, g) => uid = g.uid
      BY <2>2, <2>3 DEF ReadUid, Intact, HeaderSize, UidBytes
    <3> QED
      BY <3>1, <3>2 DEF Intact
  <2> QED
    BY <2>7, <2>8, <2>9
<1> QED
  BY <1>1, TypeCorrect, PTL

-----------------------------------------------------------------------------
(* The link implements TypedDelivery.                                      *)

\* What a successful return means to the application that called.
LEMMA ReturnIsReceipt ==
  ASSUME IInv, NEW p \in Peer, NEW g \in net, Returns(p, lib[p], g, ret')
  PROVE  \/ ~Succeeded'
         \/ /\ Succeeded'
            /\ Received' = [peer |-> p, msg |-> Abstract!ReadAs(ret'.def, g.body)]
            /\ ret'.def \in Elems(lib[p])
            /\ Uid[ret'.def] = Uid[g.body.def]
<1>1. CASE ret' \in Rejected
  BY <1>1 DEF Succeeded, Rejected, Status
<1>2. CASE ret' \notin Rejected
  <2>1. /\ ret' \in Accepted
        /\ ret'.peer = p
        /\ ret'.def \in Elems(lib[p]) /\ Uid[ret'.def] = g.uid
        /\ ret'.val = DecodeBody(ret'.def, g)
    BY <1>2 DEF Returns
  <2>2. lib[p] \in Library /\ g \in Datagram
    BY DEF IInv, TypeOK
  <2>3. ret'.def \in Def /\ g.body.def \in Def
    BY <2>1, <2>2, ElemsAreDefs DEF Datagram
  <2>4. g.uid = Uid[g.body.def]
    BY <2>1, <2>3, UidAssumption DEF IInv, NetUids
  <2>5. [def |-> ret'.def, val |-> ret'.val] = Abstract!ReadAs(ret'.def, g.body)
    BY <2>1 DEF DecodeBody, Abstract!ReadAs
  <2>7. Succeeded'
    BY <2>1 DEF Succeeded, Accepted
  <2> QED
    BY <2>1, <2>4, <2>5, <2>7 DEF Received
<1> QED
  BY <1>1, <1>2

LEMMA NoCallIsNoReceipt ==
  ASSUME ret' = NoCall PROVE Received' = NoCall
BY DEF Received, Succeeded, NoCall

LEMMA InitRefines == Init => Abstract!Init
<1> SUFFICES ASSUME Init PROVE Abstract!Init
  OBVIOUS
<1>1. KnownDefs \in [Peer -> SUBSET Def]
  BY ElemsAreDefs DEF Init, KnownDefs
<1>2. HeldValue = [p \in Peer |-> NoObj]
  BY DEF Init, HeldValue
<1>3. InFlight = {}
  BY DEF Init, InFlight
<1>4. Received = NoCall
  BY DEF Init, Received, Succeeded, NoCall
<1> QED
  BY <1>1, <1>2, <1>3, <1>4 DEF Abstract!Init

LEMMA StepRefines == IInv /\ [Next]_vars => [Abstract!Next]_Abstract!vars
<1> SUFFICES ASSUME IInv, [Next]_vars PROVE [Abstract!Next]_Abstract!vars
  OBVIOUS
<1>0. TypeOK
  BY DEF IInv
<1>a. \A o \in Obj : o # NoObj
  BY DEF Obj, NoObj
<1>1. ASSUME NEW p \in Peer, Compose(p) PROVE Abstract!Compose(p)
  <2>1. PICK d \in Elems(lib[p]), v \in Value :
          obj' = [obj EXCEPT ![p] = [def |-> d, uid |-> 0, len |-> 0, val |-> v]]
    BY <1>1 DEF Compose
  <2>2. [def |-> d, uid |-> 0, len |-> 0, val |-> v] # NoObj
    BY DEF NoObj
  <2>3. HeldValue' = [HeldValue EXCEPT ![p] = [def |-> d, val |-> v]]
    BY <1>0, <2>1, <2>2 DEF HeldValue, Typed, TypeOK
  <2>4. Received' = NoCall /\ UNCHANGED <<KnownDefs, InFlight>>
    BY <1>1, NoCallIsNoReceipt DEF Compose, KnownDefs, InFlight
  <2>5. d \in KnownDefs[p]
    BY DEF KnownDefs
  <2> QED
    BY <2>3, <2>4, <2>5 DEF Abstract!Compose
<1>2. ASSUME NEW p \in Peer, Pack(p) PROVE Abstract!Send(p)
  <2> DEFINE o == obj[p]
             h == PackedHeader(o.def)
             g == [uid |-> h.uid, len |-> h.len, size |-> Size[o.def],
                   body |-> [def |-> o.def, val |-> o.val]]
             n == [o EXCEPT !.uid = h.uid, !.len = h.len]
  <2>1. o # NoObj /\ o \in Obj
    BY <1>0, <1>2 DEF Pack, TypeOK
  <2>2. net' = net \cup {g} /\ obj' = [obj EXCEPT ![p] = n]
    BY <1>0, <1>2 DEF Pack, TypeOK
  <2>3. Typed(n) = Typed(o) /\ n # NoObj
    BY <2>1 DEF Typed, Obj, NoObj
  <2>4. HeldValue' = HeldValue
    BY <1>0, <2>1, <2>2, <2>3 DEF HeldValue, TypeOK
  <2>5. HeldValue[p] = Typed(o) /\ g.body = Typed(o)
    BY <2>1 DEF HeldValue, Typed
  <2>6. InFlight' = InFlight \cup {HeldValue[p]}
    BY <2>2, <2>5 DEF InFlight
  <2>7. HeldValue[p] # NoObj /\ HeldValue[p].val # Garbled
    BY <1>2, <2>5 DEF Typed, NoObj, Pack
  <2>8. Received' = NoCall /\ UNCHANGED KnownDefs
    BY <1>2, NoCallIsNoReceipt DEF Pack, KnownDefs
  <2> QED
    BY <2>4, <2>6, <2>7, <2>8 DEF Abstract!Send
<1>3. ASSUME NEW p \in Peer, UnpackInPlace(p)
      PROVE  Abstract!Receive(p) \/ Abstract!Refuse
  <2> DEFINE d == obj[p].def
             val(g) == IF HeaderStatus(d, g.uid, g.len) = "Success"
                       THEN DecodeBody(d, g) ELSE obj[p].val
             n(g) == [def |-> d, uid |-> g.uid, len |-> g.len, val |-> val(g)]
  <2>1. PICK g \in net : /\ obj' = [obj EXCEPT ![p] = n(g)]
                         /\ ret' = UnpackNew(p, d, g)
    BY <1>3 DEF UnpackInPlace, Unpacked
  <2>2. obj[p] # NoObj /\ obj[p] \in Obj /\ d \in Elems(lib[p])
        /\ lib[p] \in Library /\ g \in Datagram
    BY <1>0, <1>3 DEF UnpackInPlace, TypeOK
  <2>3. Returns(p, lib[p], g, ret')
    BY <2>1, <2>2, UnpackNewReturns
  <2>4. UNCHANGED <<KnownDefs, InFlight>>
    BY <1>3 DEF UnpackInPlace, KnownDefs, InFlight
  <2>5. HeldValue' = [HeldValue EXCEPT ![p] = [def |-> d, val |-> val(g)]]
    BY <1>0, <2>1 DEF HeldValue, Typed, TypeOK, NoObj
  <2>6. HeldValue[p] = [def |-> d, val |-> obj[p].val]
    BY <2>2 DEF HeldValue, Typed
  <2>7. Succeeded' <=> HeaderStatus(d, g.uid, g.len) = "Success"
    BY <2>1 DEF Succeeded, UnpackNew, Failure, Success, HeaderStatus
  <2>8. CASE ~Succeeded'
    <3>1. HeldValue' = HeldValue
      BY <2>5, <2>6, <2>7, <2>8 DEF HeldValue
    <3>2. Received' = NoCall
      BY <2>8 DEF Received
    <3> QED
      BY <2>4, <3>1, <3>2 DEF Abstract!Refuse
  <2>9. CASE Succeeded'
    <3>1. /\ Received' = [peer |-> p, msg |-> Abstract!ReadAs(ret'.def, g.body)]
          /\ ret'.def \in Elems(lib[p]) /\ Uid[ret'.def] = Uid[g.body.def]
      BY <2>3, <2>9, ReturnIsReceipt
    <3>2. ret'.def = d
      BY <2>1, <2>7, <2>9 DEF UnpackNew, Success
    <3>3. [def |-> d, val |-> val(g)] = Abstract!ReadAs(d, g.body)
      BY <2>7, <2>9 DEF DecodeBody, Abstract!ReadAs
    <3>4. g.body \in InFlight /\ d \in KnownDefs[p]
      BY <2>2 DEF InFlight, KnownDefs
    <3>5. HeldValue[p] # NoObj /\ HeldValue[p].def = d
      BY <2>6 DEF NoObj
    <3> HIDE DEF d, val, n
    <3> QED
      BY <2>4, <2>5, <3>1, <3>2, <3>3, <3>4, <3>5 DEF Abstract!Receive
  <2> QED
    BY <2>8, <2>9
<1>4. ASSUME NEW p \in Peer, CcUnpackNew(p) \/ UnpackAny(p)
      PROVE  Abstract!Receive(p) \/ Abstract!Refuse
  <2>1. lib[p] \in Library /\ net \subseteq Datagram
    BY <1>0 DEF TypeOK
  <2>2. PICK g \in net : Returns(p, lib[p], g, ret')
    BY <1>4, <2>1, UnpackNewReturns, CcUnpackMessageReturns, PyUnpackReturns,
       PyUnpackMessageReturns, DynUnpackMessageReturns
    DEF CcUnpackNew, UnpackAny
  <2>3. UNCHANGED <<KnownDefs, HeldValue, InFlight>>
    BY <1>4 DEF CcUnpackNew, UnpackAny, KnownDefs, HeldValue, InFlight
  <2>4. CASE ~Succeeded'
    BY <2>3, <2>4 DEF Received, Abstract!Refuse
  <2>5. CASE Succeeded'
    <3>1. /\ Received' = [peer |-> p, msg |-> Abstract!ReadAs(ret'.def, g.body)]
          /\ ret'.def \in Elems(lib[p]) /\ Uid[ret'.def] = Uid[g.body.def]
      BY <2>2, <2>5, ReturnIsReceipt
    <3>2. g.body \in InFlight /\ ret'.def \in KnownDefs[p]
      BY <3>1 DEF InFlight, KnownDefs
    <3> QED
      BY <2>3, <3>1, <3>2 DEF Abstract!Receive
  <2> QED
    BY <2>4, <2>5
<1>5. ASSUME NEW p \in Peer, Upgrade(p) PROVE Abstract!Relearn(p)
  <2>1. PICK l \in Library : lib' = [lib EXCEPT ![p] = l]
    BY <1>5 DEF Upgrade
  <2>2. KnownDefs' = [KnownDefs EXCEPT ![p] = Elems(l)]
    BY <1>0, <2>1 DEF KnownDefs, TypeOK
  <2>3. Elems(l) \in SUBSET Def
    BY ElemsAreDefs
  <2>4. HeldValue' = [HeldValue EXCEPT ![p] = NoObj]
    BY <1>0, <1>5 DEF Upgrade, HeldValue, TypeOK
  <2>5. Received' = NoCall /\ UNCHANGED InFlight
    BY <1>5, NoCallIsNoReceipt DEF Upgrade, InFlight
  <2> QED
    BY <2>2, <2>3, <2>4, <2>5 DEF Abstract!Relearn
<1>6. ASSUME Lose \/ Resize \/ Spoil PROVE Abstract!Lose
  <2>1. Received' = NoCall /\ UNCHANGED <<KnownDefs, HeldValue>>
    BY <1>6, NoCallIsNoReceipt DEF Lose, Resize, Spoil, KnownDefs, HeldValue
  <2>2. net \subseteq Datagram
    BY <1>0 DEF TypeOK
  <2>3. \A g \in net : \A h : h.body = g.body /\ Replace(g, h) => InFlight' \subseteq InFlight
    BY DEF Replace, InFlight
  <2>4. InFlight' \subseteq InFlight
    <3>1. CASE Lose
      BY <3>1 DEF Lose, InFlight
    <3>2. CASE Resize
      <4>1. PICK g \in net, n \in WireSize : Replace(g, [g EXCEPT !.size = n])
        BY <3>2 DEF Resize
      <4>2. [g EXCEPT !.size = n].body = g.body
        BY <2>2 DEF Datagram
      <4> QED
        BY <2>3, <4>1, <4>2
    <3>3. CASE Spoil
      <4>1. PICK g \in net :
              \/ Replace(g, [g EXCEPT !.uid = JunkUid])
              \/ \E n \in WireSize : Replace(g, [g EXCEPT !.len = n % LenMod])
        BY <3>3 DEF Spoil
      <4>2. /\ [g EXCEPT !.uid = JunkUid].body = g.body
            /\ \A n \in WireSize : [g EXCEPT !.len = n % LenMod].body = g.body
        BY <2>2 DEF Datagram
      <4> QED
        BY <2>3, <4>1, <4>2
    <3> QED
      BY <1>6, <3>1, <3>2, <3>3
  <2> QED
    BY <2>1, <2>4 DEF Abstract!Lose
<1>7. CASE UNCHANGED vars
  BY <1>7 DEF vars, Abstract!vars, KnownDefs, HeldValue, InFlight, Received, Succeeded
<1> QED
  BY <1>1, <1>2, <1>3, <1>4, <1>5, <1>6, <1>7 DEF Next, Abstract!Next

\* The exchange of packed buffers through the generated libraries, of whatever
\* specifications, implements the delivery of typed values.
THEOREM LinkImplementsDelivery == Spec => AbstractSpec
<1>1. IInv /\ [Next]_vars => [Abstract!Next]_Abstract!vars
  BY StepRefines
<1> QED
  BY <1>1, InitRefines, Invariance, PTL DEF Spec, AbstractSpec, Abstract!Spec

-----------------------------------------------------------------------------
(* A loop, and a result, as they are whatever the callbacks do.            *)

Loops == [type : Msg, at : Nat, end : Nat, dead : BOOLEAN,
          list : Seq(Callback), calls : Seq(Callback)]
GoodLoop(loop) ==
  /\ loop \in Loops
  /\ loop.at \in 1 .. loop.end
  /\ loop.end = Len(loop.list)
  /\ loop.calls = SubSeq(loop.list, 1, loop.at)

Power(n) == \E m \in 0 .. n : n = 2 ^ m

\* The vector that a loop walks has only grown since, and the loop is dead only if it
\* has grown from a length that is a power of two.
Follows(loop, list) ==
  /\ Len(loop.list) <= Len(list)
  /\ loop.list = SubSeq(list, 1, Len(loop.list))
  /\ loop.dead => \E n \in Len(loop.list) .. (Len(list) - 1) : Power(n)

GoodResult ==
  /\ result.status = "success" => result.calls = result.list
  /\ result.status \in {"invalid_uid", "invalid_len"} => result.calls = <<>>
  /\ result.status = "threw" =>
       /\ result.list \in Seq(Callback)
       /\ \E n \in 1 .. Len(result.list) : result.calls = SubSeq(result.list, 1, n)

LoopInv ==
  /\ callbacks \in [Msg -> Seq(Callback)]
  /\ capacity \in [Msg -> Nat]
  /\ \A t \in Msg : Len(callbacks[t]) <= capacity[t] /\ (capacity[t] = 0 \/ Power(capacity[t]))
  /\ active \in Seq(Loops)
  /\ \A k \in 1 .. Len(active) :
       GoodLoop(active[k]) /\ Follows(active[k], callbacks[active[k].type])
  /\ GoodResult
  /\ undefined \in BOOLEAN
  /\ undefined => \E k \in 1 .. Len(active) : active[k].dead

-----------------------------------------------------------------------------
(* Capacities.                                                             *)

\* The subsets of m elements are a power of two in number, which gives its recurrence
\* and, as there is one for each element, its bound.
LEMMA PowersOfTwo ==
  ASSUME NEW m \in Nat
  PROVE  2 ^ m \in Nat /\ 2 ^ (m + 1) = 2 * 2 ^ m /\ m <= 2 ^ m
<1> DEFINE S == 1 .. m
           more == m + 1
           With == {s \cup {more} : s \in SUBSET S}
           f == [s \in SUBSET S |-> s \cup {more}]
           g == [i \in S |-> {i}]
<1>1. /\ IsFiniteSet(S) /\ Cardinality(S) = m
      /\ IsFiniteSet(S \cup {more}) /\ Cardinality(S \cup {more}) = m + 1
  <2>1. IsFiniteSet(S) /\ Cardinality(S) = m
    BY FS_Interval
  <2>2. more \notin S
    OBVIOUS
  <2> QED
    BY <2>1, <2>2, FS_AddElement
<1>2. /\ IsFiniteSet(SUBSET S) /\ Cardinality(SUBSET S) = 2 ^ m
      /\ IsFiniteSet(SUBSET (S \cup {more})) /\ Cardinality(SUBSET (S \cup {more})) = 2 ^ (m + 1)
  BY <1>1, FS_SUBSET
<1>3. IsFiniteSet(With) /\ Cardinality(With) = 2 ^ m
  <2>1. f \in [SUBSET S -> With]
    OBVIOUS
  <2>2. ASSUME NEW s \in SUBSET S, NEW t \in SUBSET S, f[s] = f[t] PROVE s = t
    <3>1. more \notin s /\ more \notin t /\ s \cup {more} = t \cup {more}
      BY <2>2
    <3> QED
      BY <3>1
  <2>3. \A u \in With : \E s \in SUBSET S : f[s] = u
    OBVIOUS
  <2> HIDE DEF f, With, S
  <2>4. f \in Bijection(SUBSET S, With)
    BY <2>1, <2>2, <2>3 DEF Bijection, Injection, Surjection, IsInjective
  <2>5. ExistsBijection(SUBSET S, With)
    BY <2>4 DEF ExistsBijection
  <2> QED
    BY <1>2, <2>5, FS_Bijection
<1>4. SUBSET (S \cup {more}) = (SUBSET S) \cup With /\ (SUBSET S) \cap With = {}
  <2>1. more \notin S
    OBVIOUS
  <2> HIDE DEF S, more
  <2>2. ASSUME NEW s \in SUBSET (S \cup {more}) PROVE s \in (SUBSET S) \cup With
    <3>1. CASE more \in s
      <4>1. s \ {more} \in SUBSET S /\ s = (s \ {more}) \cup {more}
        BY <3>1
      <4> QED
        BY <4>1
    <3>2. CASE more \notin s
      BY <3>2
    <3> QED
      BY <3>1, <3>2
  <2> QED
    BY <2>1, <2>2
<1>5. Cardinality((SUBSET S) \cup With) = 2 ^ m + 2 ^ m /\ 2 ^ m \in Nat
  <2> HIDE DEF S, With
  <2>1. Cardinality((SUBSET S) \cup With) = 2 ^ m + 2 ^ m - Cardinality((SUBSET S) \cap With)
    BY <1>2, <1>3, FS_Union
  <2>2. Cardinality((SUBSET S) \cap With) = 0
    BY <1>4, FS_EmptySet
  <2>3. 2 ^ m \in Nat
    BY <1>2, FS_CardinalityType
  <2> QED
    BY <2>1, <2>2, <2>3
<1>6. m <= 2 ^ m
  <2>1. g \in Injection(S, SUBSET S)
    BY DEF Injection, IsInjective
  <2> HIDE DEF g, S
  <2> QED
    BY <1>1, <1>2, <2>1, FS_Injection
<1>7. 2 ^ (m + 1) = 2 ^ m + 2 ^ m
  BY <1>2, <1>4, <1>5
<1> QED
  BY <1>5, <1>6, <1>7

\* A vector that grows has a capacity that is a power of two.
LEMMA GrownIsPower ==
  ASSUME NEW n \in Nat, n = 0 \/ Power(n)
  PROVE  Power(Grown(n))
<1>1. CASE n = 0
  BY <1>1 DEF Grown, Power
<1>2. CASE n # 0 /\ Power(n)
  <2>1. PICK m \in 0 .. n : n = 2 ^ m
    BY <1>2 DEF Power
  <2>2. 2 * n = 2 ^ (m + 1) /\ m + 1 <= 2 ^ (m + 1) /\ m + 1 \in Nat
    BY <2>1, PowersOfTwo
  <2>3. m + 1 \in 0 .. (2 * n)
    BY <2>2
  <2> QED
    BY <1>2, <2>2, <2>3 DEF Grown, Power
<1> QED
  BY <1>1, <1>2

LEMMA InitialPart ==
  ASSUME NEW S, NEW s \in Seq(S), NEW n \in Nat, n <= Len(s)
  PROVE  /\ SubSeq(s, 1, n) \in Seq(S) /\ Len(SubSeq(s, 1, n)) = n
         /\ \A i \in 1 .. n : SubSeq(s, 1, n)[i] = s[i]
<1>1. \A i \in 1 .. n : s[i] \in S
  BY LenProperties, ElementOfSeq
<1> QED
  BY <1>1, SubSeqProperties

LEMMA PrefixOfAppend ==
  ASSUME NEW S, NEW s \in Seq(S), NEW e \in S, NEW n \in 0 .. Len(s)
  PROVE  SubSeq(Append(s, e), 1, n) = SubSeq(s, 1, n)
<1>1. Append(s, e) \in Seq(S)
  BY AppendProperties
<1>2. /\ SubSeq(Append(s, e), 1, n) \in Seq(S) /\ Len(SubSeq(Append(s, e), 1, n)) = n
      /\ SubSeq(s, 1, n) \in Seq(S) /\ Len(SubSeq(s, 1, n)) = n
  BY <1>1, SubSeqProperties, AppendProperties
<1>3. \A i \in 1 .. n : SubSeq(Append(s, e), 1, n)[i] = SubSeq(s, 1, n)[i]
  BY <1>1, SubSeqProperties, AppendProperties
<1> QED
  BY <1>2, <1>3, SeqEqual

LEMMA NextOfPrefix ==
  ASSUME NEW S, NEW s \in Seq(S), NEW n \in 0 .. Len(s), n < Len(s)
  PROVE  SubSeq(s, 1, n + 1) = Append(SubSeq(s, 1, n), s[n + 1])
BY SubSeqRecursiveSecond

\* An element added to a vector that a loop walks changes nothing for the loop, except
\* that it dies if the vector moves.
LEMMA StillFollows ==
  ASSUME NEW loop, GoodLoop(loop), NEW list \in Seq(Callback), Follows(loop, list),
         NEW func \in Callback, NEW dead \in BOOLEAN, dead => loop.dead \/ Power(Len(list))
  PROVE  LET moved == [loop EXCEPT !.dead = dead]
         IN  GoodLoop(moved) /\ Follows(moved, Append(list, func))
<1> DEFINE moved == [loop EXCEPT !.dead = dead]
<1>1. /\ moved \in Loops
      /\ moved.at = loop.at /\ moved.end = loop.end /\ moved.list = loop.list
      /\ moved.calls = loop.calls /\ moved.type = loop.type
  BY DEF GoodLoop, Loops
<1>2. GoodLoop(moved)
  BY <1>1 DEF GoodLoop
<1>3. Len(Append(list, func)) = Len(list) + 1 /\ Len(loop.list) \in Nat /\ Len(list) \in Nat
  BY AppendProperties, LenProperties DEF GoodLoop, Loops
<1>4. SubSeq(Append(list, func), 1, Len(loop.list)) = SubSeq(list, 1, Len(loop.list))
  BY <1>3, PrefixOfAppend DEF Follows
<1>5. dead => \E n \in Len(loop.list) .. (Len(Append(list, func)) - 1) : Power(n)
  <2>1. CASE loop.dead
    <3>1. PICK n \in Len(loop.list) .. (Len(list) - 1) : Power(n)
      BY <2>1 DEF Follows
    <3>2. n \in Len(loop.list) .. (Len(Append(list, func)) - 1)
      BY <1>3
    <3> QED
      BY <3>1, <3>2
  <2>2. CASE Power(Len(list))
    <3>1. Len(list) \in Len(loop.list) .. (Len(Append(list, func)) - 1)
      BY <1>3 DEF Follows
    <3> QED
      BY <2>2, <3>1
  <2> QED
    BY <2>1, <2>2
<1>6. moved.dead = dead
  BY DEF GoodLoop, Loops
<1>7. Follows(moved, Append(list, func))
  BY <1>1, <1>3, <1>4, <1>5, <1>6 DEF Follows
<1> QED
  BY <1>2, <1>7

-----------------------------------------------------------------------------
LEMMA LoopInvInit == DispInit => LoopInv
<1> SUFFICES ASSUME DispInit PROVE LoopInv
  OBVIOUS
<1>1. callbacks \in [Msg -> Seq(Callback)] /\ capacity \in [Msg -> Nat]
  BY DEF DispInit
<1>2. \A t \in Msg : Len(callbacks[t]) <= capacity[t] /\ capacity[t] = 0
  BY DEF DispInit
<1>3. active \in Seq(Loops) /\ Len(active) = 0
  BY DEF DispInit
<1>4. GoodResult
  BY DEF DispInit, GoodResult, NoResult, Ended
<1>5. undefined = FALSE
  BY DEF DispInit
<1>6. \A k \in 1 .. Len(active) :
        GoodLoop(active[k]) /\ Follows(active[k], callbacks[active[k].type])
  BY <1>3
<1> QED
  BY <1>1, <1>2, <1>3, <1>4, <1>5, <1>6 DEF LoopInv

LEMMA AddCallbackKeeps ==
  ASSUME LoopInv, NEW t \in Msg, NEW func \in Callback, AddCallback(t, func)
  PROVE  LoopInv'
<1> DEFINE moved(k) == [active[k] EXCEPT !.dead = @ \/ Killed(t, active[k].type)]
<1>1. /\ callbacks[t] \in Seq(Callback) /\ capacity[t] \in Nat /\ Len(callbacks[t]) \in Nat
      /\ Len(callbacks[t]) <= capacity[t]
      /\ Append(callbacks[t], func) \in Seq(Callback)
      /\ Len(Append(callbacks[t], func)) = Len(callbacks[t]) + 1
  BY AppendProperties, LenProperties DEF LoopInv
<1>2. callbacks' \in [Msg -> Seq(Callback)] /\ capacity' \in [Msg -> Nat]
  BY <1>1 DEF AddCallback, LoopInv, Grown
<1>3. ASSUME NEW u \in Msg
      PROVE  Len(callbacks'[u]) <= capacity'[u] /\ (capacity'[u] = 0 \/ Power(capacity'[u]))
  <2>1. CASE u = t
    <3>1. capacity[t] = 0 \/ Power(capacity[t])
      BY DEF LoopInv
    <3>2. Power(Grown(capacity[t]))
      BY <1>1, <3>1, GrownIsPower
    <3>3. capacity[t] + 1 <= Grown(capacity[t])
      BY <1>1 DEF Grown
    <3>4. callbacks'[t] = Append(callbacks[t], func)
      BY DEF AddCallback, LoopInv
    <3>5. capacity'[t] = IF Len(callbacks[t]) = capacity[t] THEN Grown(capacity[t]) ELSE capacity[t]
      BY DEF AddCallback, LoopInv
    <3> QED
      BY <1>1, <2>1, <3>1, <3>2, <3>3, <3>4, <3>5
  <2>2. CASE u # t
    BY <2>2 DEF AddCallback, LoopInv
  <2> QED
    BY <2>1, <2>2
<1>4. Len(active) \in Nat /\ DOMAIN active = 1 .. Len(active)
  BY LenProperties DEF LoopInv
<1>5. ASSUME NEW k \in 1 .. Len(active)
      PROVE  /\ moved(k) \in Loops /\ moved(k).type = active[k].type
             /\ GoodLoop(moved(k)) /\ Follows(moved(k), callbacks'[moved(k).type])
             /\ active[k].dead => moved(k).dead
  <2>1. active[k] \in Loops /\ GoodLoop(active[k]) /\ Follows(active[k], callbacks[active[k].type])
    BY <1>4, ElementOfSeq DEF LoopInv
  <2>2. active[k].dead \in BOOLEAN /\ active[k].type \in Msg
    BY <2>1 DEF Loops
  <2>3. moved(k) \in Loops /\ moved(k).type = active[k].type
    BY <2>1, <2>2 DEF Loops, Killed
  <2>4. CASE active[k].type = t
    <3>1. callbacks'[moved(k).type] = Append(callbacks[t], func)
      BY <2>3, <2>4 DEF AddCallback, LoopInv
    <3>2. (active[k].dead \/ Killed(t, active[k].type)) \in BOOLEAN
      BY <2>2 DEF Killed
    <3>3. Len(callbacks[t]) # 0
      BY <1>1, <2>1, <2>4 DEF GoodLoop, Follows, Loops
    <3>4. Killed(t, active[k].type) => Power(Len(callbacks[t]))
      BY <3>3 DEF Killed, LoopInv
    <3> QED
      BY <1>1, <2>1, <2>2, <2>3, <2>4, <3>1, <3>2, <3>4, StillFollows DEF Loops
  <2>5. CASE active[k].type # t
    <3>1. callbacks'[moved(k).type] = callbacks[active[k].type]
      BY <2>2, <2>3, <2>5 DEF AddCallback, LoopInv
    <3>2. moved(k) = active[k]
      BY <2>1, <2>2, <2>5 DEF Killed, Loops
    <3> QED
      BY <2>1, <2>3, <3>1, <3>2
  <2> QED
    BY <2>4, <2>5
<1>6. active' = [k \in 1 .. Len(active) |-> moved(k)]
  BY <1>4 DEF AddCallback
<1>7. active' \in Seq(Loops) /\ Len(active') = Len(active)
  BY <1>4, <1>5, <1>6, IsASeq
<1>8. \A k \in 1 .. Len(active') : GoodLoop(active'[k]) /\ Follows(active'[k], callbacks'[active'[k].type])
  BY <1>5, <1>6, <1>7
<1>9. GoodResult' /\ undefined' = undefined /\ ~undefined
  BY DEF AddCallback, LoopInv, GoodResult
<1> HIDE DEF moved
<1> QED
  BY <1>2, <1>3, <1>7, <1>8, <1>9 DEF LoopInv

LEMMA UnpackKeeps ==
  ASSUME LoopInv, NEW t \in Msg, Unpack(t)
  PROVE  LoopInv'
<1>1. callbacks[t] \in Seq(Callback) /\ Len(callbacks[t]) \in Nat
  BY LenProperties DEF LoopInv
<1>2. CASE callbacks[t] = <<>>
  <2>1. /\ active' = active /\ callbacks' = callbacks /\ capacity' = capacity
        /\ undefined' = undefined /\ result' = Ended("success", <<>>, <<>>)
    BY <1>2 DEF Unpack
  <2>2. GoodResult'
    BY <2>1 DEF GoodResult, Ended
  <2> QED
    BY <2>1, <2>2 DEF LoopInv
<1>3. CASE callbacks[t] # <<>>
  <2>1. /\ active' = Append(active, Loop(t)) /\ callbacks' = callbacks /\ capacity' = capacity
        /\ undefined' = undefined /\ ~undefined /\ result' = result
    BY <1>3 DEF Unpack
  <2>2. Len(callbacks[t]) >= 1
    BY <1>1, <1>3, EmptySeq
  <2>3. SubSeq(callbacks[t], 1, 1) \in Seq(Callback)
    BY <1>1, <2>2, SubSeqProperties
  <2>4. SubSeq(callbacks[t], 1, Len(callbacks[t])) = callbacks[t]
    BY <1>1, SubSeqFull
  <2>5. Loop(t) \in Loops /\ GoodLoop(Loop(t))
    BY <1>1, <2>2, <2>3 DEF Loop, Loops, GoodLoop
  <2>6. Follows(Loop(t), callbacks[Loop(t).type])
    BY <1>1, <2>4 DEF Loop, Follows
  <2>7. /\ active' \in Seq(Loops) /\ Len(active') = Len(active) + 1
        /\ \A k \in 1 .. Len(active) : active'[k] = active[k]
        /\ active'[Len(active) + 1] = Loop(t)
    BY <2>1, <2>5, AppendProperties DEF LoopInv
  <2>8. Len(active) \in Nat
    BY LenProperties DEF LoopInv
  <2>9. ASSUME NEW k \in 1 .. Len(active')
        PROVE  GoodLoop(active'[k]) /\ Follows(active'[k], callbacks'[active'[k].type])
    <3>1. CASE k \in 1 .. Len(active)
      BY <2>1, <2>7, <3>1 DEF LoopInv
    <3>2. CASE k = Len(active) + 1
      BY <2>1, <2>5, <2>6, <2>7, <3>2
    <3> QED
      BY <2>7, <2>8, <3>1, <3>2
  <2>10. GoodResult'
    BY <2>1 DEF LoopInv, GoodResult
  <2> QED
    BY <2>1, <2>7, <2>9, <2>10 DEF LoopInv
<1> QED
  BY <1>2, <1>3

\* The innermost loop, and the others, while a callback runs.
LEMMA TopLoop ==
  ASSUME LoopInv, InCallback
  PROVE  /\ Len(active) \in Nat \ {0} /\ Top = active[Len(active)]
         /\ Top \in Loops /\ GoodLoop(Top) /\ Follows(Top, callbacks[Top.type])
         /\ callbacks[Top.type] \in Seq(Callback)
         /\ Front(active) \in Seq(Loops) /\ Len(Front(active)) = Len(active) - 1
         /\ \A k \in 1 .. (Len(active) - 1) : Front(active)[k] = active[k]
<1>1. Len(active) \in Nat \ {0}
  BY EmptySeq, LenProperties DEF LoopInv, InCallback
<1>2. Top = active[Len(active)] /\ Front(active) = SubSeq(active, 1, Len(active) - 1)
  BY DEF Top, Last, Front
<1>3. Top \in Loops /\ GoodLoop(Top) /\ Follows(Top, callbacks[Top.type])
  BY <1>1, <1>2, ElementOfSeq DEF LoopInv
<1>4. callbacks[Top.type] \in Seq(Callback)
  BY <1>3 DEF LoopInv, Loops
<1>5. /\ Front(active) \in Seq(Loops) /\ Len(Front(active)) = Len(active) - 1
      /\ \A k \in 1 .. (Len(active) - 1) : Front(active)[k] = active[k]
  <2> DEFINE n == Len(active) - 1
  <2>1. n \in Nat /\ n <= Len(active)
    BY <1>1
  <2> HIDE DEF n
  <2>2. /\ SubSeq(active, 1, n) \in Seq(Loops) /\ Len(SubSeq(active, 1, n)) = n
        /\ \A k \in 1 .. n : SubSeq(active, 1, n)[k] = active[k]
    BY <2>1, InitialPart DEF LoopInv
  <2> QED
    BY <1>2, <2>2 DEF n
<1> QED
  BY <1>1, <1>2, <1>3, <1>4, <1>5

\* The loops around the innermost one stay what they are.
LEMMA PopKeeps ==
  ASSUME LoopInv, InCallback, active' = Front(active), GoodResult',
         UNCHANGED <<callbacks, capacity, undefined>>, ~undefined
  PROVE  LoopInv'
<1>1. ASSUME NEW k \in 1 .. Len(active')
      PROVE  GoodLoop(active'[k]) /\ Follows(active'[k], callbacks'[active'[k].type])
  <2>1. k \in 1 .. Len(active) /\ k \in 1 .. (Len(active) - 1)
    BY TopLoop
  <2>2. active'[k] = active[k]
    BY <2>1, TopLoop
  <2> QED
    BY <2>1, <2>2 DEF LoopInv
<1>2. active' \in Seq(Loops)
  BY TopLoop
<1> QED
  BY <1>1, <1>2 DEF LoopInv

LEMMA CallbackReturnsKeeps ==
  ASSUME LoopInv, CallbackReturns
  PROVE  LoopInv'
<1>1. InCallback /\ ~undefined /\ UNCHANGED <<callbacks, capacity>>
  BY DEF CallbackReturns
<1>2. CASE NextCallback
  <2> DEFINE next == [Top EXCEPT !.at = @ + 1, !.calls = Append(@, callbacks[Top.type][Top.at + 1])]
  <2>1. /\ ~AtEnd(Top) /\ ~Top.dead /\ UNCHANGED <<result, undefined>>
        /\ active' = [active EXCEPT ![Len(active)] = next]
    BY <1>2 DEF NextCallback
  <2>2. /\ Top.at \in 1 .. Top.end /\ Top.at < Top.end /\ Top.end = Len(Top.list)
        /\ Top.list \in Seq(Callback) /\ Len(Top.list) \in Nat
    BY <1>1, <2>1, TopLoop, LenProperties DEF GoodLoop, AtEnd, Loops
  <2>3. callbacks[Top.type][Top.at + 1] = Top.list[Top.at + 1]
    <3>1. /\ Top.list = SubSeq(callbacks[Top.type], 1, Len(Top.list))
          /\ callbacks[Top.type] \in Seq(Callback)
          /\ Len(Top.list) <= Len(callbacks[Top.type]) /\ Len(callbacks[Top.type]) \in Nat
      BY <1>1, TopLoop, LenProperties DEF Follows
    <3>2. \A i \in 1 .. Len(Top.list) : callbacks[Top.type][i] \in Callback
      BY <2>2, <3>1, ElementOfSeq
    <3>3. SubSeq(callbacks[Top.type], 1, Len(Top.list))[Top.at + 1] = callbacks[Top.type][Top.at + 1]
      BY <2>2, <3>2, SubSeqProperties
    <3> QED
      BY <3>1, <3>3
  <2>4. Append(Top.calls, callbacks[Top.type][Top.at + 1]) = SubSeq(Top.list, 1, Top.at + 1)
    <3>1. Top.calls = SubSeq(Top.list, 1, Top.at)
      BY <1>1, TopLoop DEF GoodLoop
    <3> QED
      BY <2>2, <2>3, <3>1, NextOfPrefix
  <2>5. SubSeq(Top.list, 1, Top.at + 1) \in Seq(Callback)
    <3>1. \A i \in 1 .. (Top.at + 1) : Top.list[i] \in Callback
      BY <2>2, ElementOfSeq
    <3> QED
      BY <2>2, <3>1, SubSeqProperties
  <2>6. /\ next \in Loops /\ next.type = Top.type /\ next.list = Top.list /\ next.dead = Top.dead
        /\ next.at = Top.at + 1 /\ next.end = Top.end
        /\ next.calls = SubSeq(Top.list, 1, Top.at + 1)
    <3>1. Top \in Loops
      BY <1>1, TopLoop
    <3>2. /\ next.type = Top.type /\ next.list = Top.list /\ next.dead = Top.dead
          /\ next.at = Top.at + 1 /\ next.end = Top.end
          /\ next.calls = SubSeq(Top.list, 1, Top.at + 1)
      BY <2>4, <3>1 DEF Loops
    <3>3. next \in Loops
      <4>1. Top.at + 1 \in Nat
        BY <2>2
      <4>2. Append(Top.calls, callbacks[Top.type][Top.at + 1]) \in Seq(Callback)
        BY <2>4, <2>5
      <4> QED
        BY <3>1, <4>1, <4>2 DEF Loops
    <3> QED
      BY <3>2, <3>3
  <2>7. GoodLoop(next) /\ Follows(next, callbacks'[next.type])
    <3>1. GoodLoop(Top) /\ Follows(Top, callbacks[Top.type]) /\ callbacks' = callbacks
      BY <1>1, TopLoop
    <3> HIDE DEF next
    <3>2. GoodLoop(next)
      BY <2>2, <2>6, <3>1 DEF GoodLoop
    <3>3. Follows(next, callbacks[Top.type])
      BY <2>6, <3>1 DEF Follows
    <3> QED
      BY <2>6, <3>1, <3>2, <3>3
  <2>8. active' \in Seq(Loops) /\ Len(active') = Len(active)
    BY <1>1, <2>1, <2>6, TopLoop, ExceptSeq DEF LoopInv
  <2>9. ASSUME NEW k \in 1 .. Len(active')
        PROVE  GoodLoop(active'[k]) /\ Follows(active'[k], callbacks'[active'[k].type])
    <3>1. CASE k = Len(active)
      <4>1. active'[k] = next
        BY <1>1, <2>1, <3>1, TopLoop DEF LoopInv
      <4> QED
        BY <2>7, <4>1
    <3>2. CASE k # Len(active)
      <4>1. k \in 1 .. Len(active) /\ active \in Seq(Loops) /\ Len(active) \in 1 .. Len(active)
        BY <1>1, <2>8, TopLoop DEF LoopInv
      <4>2. active'[k] = active[k]
        BY <2>1, <2>6, <3>2, <4>1, ExceptSeq
      <4> QED
        BY <1>1, <4>1, <4>2 DEF LoopInv
    <3> QED
      BY <3>1, <3>2
  <2>10. GoodResult'
    BY <2>1 DEF LoopInv, GoodResult
  <2> HIDE DEF next
  <2> QED
    BY <1>1, <2>1, <2>8, <2>9, <2>10 DEF LoopInv
<1>3. CASE LoopEnds
  <2>1. Top.calls = SubSeq(Top.list, 1, Len(Top.list)) /\ Top.list \in Seq(Callback)
    BY <1>1, <1>3, TopLoop DEF LoopEnds, AtEnd, GoodLoop, Loops
  <2>2. Top.calls = Top.list
    BY <2>1, SubSeqFull
  <2>3. GoodResult'
    BY <1>3, <2>2 DEF LoopEnds, GoodResult, Ended
  <2> QED
    BY <1>1, <1>3, <2>3, PopKeeps DEF LoopEnds
<1>4. CASE NextIsDead
  <2>1. undefined' = TRUE /\ Top.dead /\ UNCHANGED <<active, result>>
    BY <1>4 DEF NextIsDead
  <2>2. \E k \in 1 .. Len(active') : active'[k].dead
    BY <1>1, <2>1, TopLoop
  <2>3. GoodResult'
    BY <2>1 DEF LoopInv, GoodResult
  <2> QED
    BY <1>1, <2>1, <2>2, <2>3 DEF LoopInv
<1> QED
  BY <1>2, <1>3, <1>4 DEF CallbackReturns

LEMMA CallbackThrowsKeeps ==
  ASSUME LoopInv, CallbackThrows
  PROVE  LoopInv'
<1>1. InCallback /\ ~undefined /\ active' = Front(active) /\ UNCHANGED <<callbacks, capacity, undefined>>
  BY DEF CallbackThrows
<1>2. /\ Top.list \in Seq(Callback) /\ Top.at \in 1 .. Len(Top.list)
      /\ Top.calls = SubSeq(Top.list, 1, Top.at)
  BY <1>1, TopLoop DEF GoodLoop, Loops
<1>3. result'.status = "threw" /\ result'.list = Top.list /\ result'.calls = Top.calls
  BY DEF CallbackThrows, Ended
<1>4. GoodResult'
  BY <1>2, <1>3 DEF GoodResult
<1> QED
  BY <1>1, <1>4, PopKeeps

LEMMA LoopInvNext == LoopInv /\ [DispNext]_dispVars => LoopInv'
<1> SUFFICES ASSUME LoopInv, [DispNext]_dispVars PROVE LoopInv'
  OBVIOUS
<1>1. ASSUME NEW t \in Msg, NEW func \in Callback, AddCallback(t, func) PROVE LoopInv'
  BY <1>1, AddCallbackKeeps
<1>2. ASSUME NEW t \in Msg, Unpack(t) PROVE LoopInv'
  BY <1>2, UnpackKeeps
<1>3. CASE UnpackFails
  <2>1. GoodResult'
    BY <1>3 DEF UnpackFails, GoodResult, Ended
  <2> QED
    BY <1>3, <2>1 DEF UnpackFails, LoopInv
<1>4. CASE CallbackReturns
  BY <1>4, CallbackReturnsKeeps
<1>5. CASE CallbackThrows
  BY <1>5, CallbackThrowsKeeps
<1>6. CASE CallbackUsesItself
  <2>1. InCallback /\ Top.dead /\ undefined' = TRUE /\ UNCHANGED <<callbacks, capacity, active, result>>
    BY <1>6 DEF CallbackUsesItself
  <2>2. \E k \in 1 .. Len(active') : active'[k].dead
    BY <2>1, TopLoop
  <2>3. GoodResult'
    BY <2>1 DEF LoopInv, GoodResult
  <2> QED
    BY <2>1, <2>2, <2>3 DEF LoopInv
<1>7. CASE UNCHANGED dispVars
  <2>1. GoodResult'
    BY <1>7 DEF dispVars, LoopInv, GoodResult
  <2> QED
    BY <1>7, <2>1 DEF dispVars, LoopInv
<1> QED
  BY <1>1, <1>2, <1>3, <1>4, <1>5, <1>6, <1>7 DEF DispNext

LEMMA LoopInvariant == DispSpec => []LoopInv
BY LoopInvInit, LoopInvNext, PTL DEF DispSpec

-----------------------------------------------------------------------------
\* Vectors fit into their allocations, and a loop of MessageDispatcher::Unpack stays
\* within the functions there were when it began, however deep calls are nested.
THEOREM DispTypeCorrect == DispSpec => []DispTypeOK
<1>1. LoopInv => DispTypeOK
  <2> SUFFICES ASSUME LoopInv PROVE DispTypeOK
    OBVIOUS
  <2>1. DOMAIN active = 1 .. Len(active)
    BY LenProperties DEF LoopInv
  <2>2. ASSUME NEW k \in DOMAIN active
        PROVE  /\ active[k].type \in Msg /\ active[k].at \in 1 .. active[k].end
               /\ active[k].end <= Len(callbacks[active[k].type])
    BY <2>1 DEF LoopInv, GoodLoop, Follows, Loops
  <2>3. \A t \in Msg : capacity[t] \in Nat /\ Len(callbacks[t]) <= capacity[t]
    BY DEF LoopInv
  <2> QED
    BY <2>2, <2>3 DEF LoopInv, DispTypeOK
<1> QED
  BY <1>1, LoopInvariant, PTL

\* A successful Unpack has called the callbacks there were when it began, all of them,
\* once and in order, whatever they did; one that ended in an exception, the first few.
THEOREM CallbacksCalledInOrder == DispSpec => []AllCalledInOrder
<1>1. LoopInv => AllCalledInOrder
  <2> SUFFICES ASSUME LoopInv PROVE AllCalledInOrder
    OBVIOUS
  <2>1. ASSUME result.status = "threw"
        PROVE  result.calls # <<>> /\ IsPrefix(result.calls, result.list)
    <3>1. PICK n \in 1 .. Len(result.list) :
            result.list \in Seq(Callback) /\ result.calls = SubSeq(result.list, 1, n)
      BY <2>1 DEF LoopInv, GoodResult
    <3>2. Len(result.list) \in Nat /\ \A i \in 1 .. n : result.list[i] \in Callback
      BY <3>1, LenProperties, ElementOfSeq
    <3>3. result.calls \in Seq(Callback) /\ Len(result.calls) = n
      BY <3>1, <3>2, SubSeqProperties
    <3>4. SubSeq(result.calls, 1, Len(result.calls)) = SubSeq(result.list, 1, Len(result.calls))
      BY <3>1, <3>3, SubSeqFull
    <3> QED
      BY <3>2, <3>3, <3>4, EmptySeq DEF IsPrefix
  <2> QED
    BY <2>1 DEF LoopInv, GoodResult, AllCalledInOrder
<1> QED
  BY <1>1, LoopInvariant, PTL

\* A destroyed function is used only by a callback that was added, while a message of
\* its type was dispatched, to a vector of one, two, four... callbacks: an application
\* whose callbacks add none for the type they are called for never meets one.
THEOREM GrowthIsNeeded == DispSpec => []UndefinedOnlyByGrowth
<1>1. LoopInv => UndefinedOnlyByGrowth
  BY LenProperties DEF LoopInv, Follows, Power, UndefinedOnlyByGrowth
<1> QED
  BY <1>1, LoopInvariant, PTL

=============================================================================
