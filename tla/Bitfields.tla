----------------------------- MODULE Bitfields -----------------------------
(***************************************************************************)
(* The fields of a bitfield: stored by a program that uses the struct the  *)
(* generators declare, or with PackBitfield, and read from the word that   *)
(* was sent by the dynamic types or with UnpackBitfield.                   *)
(*                                                                         *)
(* A number is the set of the positions of its ones, so that & is          *)
(* intersection.  A shift by the width of its operand or more, and one of  *)
(* an int that loses ones, is undefined: it may give any number.           *)
(***************************************************************************)
EXTENDS Integers, Sequences, SequencesExt

CONSTANTS
  ByteBits,     \* bits of a byte: 8, or less for the model checker
  Setup         \* [writer, bytes, fields]: who stores fields in what word

\* A field has a number of bits and an offset in the word; only PackBitfield and
\* UnpackBitfield know signed ones.  Their caller chooses the word and the offsets,
\* a specification does not.
Field == [bits : 1 .. 8 * ByteBits, offset : Nat, signed : BOOLEAN]
Writers == {"struct", "PackBitfield"}

VARIABLES
  setup,     \* the setup
  word,      \* the word that holds the fields
  held,      \* the number in each field: at first any, then the one stored last
  read       \* what a reader made of the fields it read, or nothing

bitVars == <<setup, word, held, read>>

Fields == setup.fields
Width(bytes) == bytes * ByteBits
Positions(bytes) == 0 .. (Width(bytes) - 1)
IntBytes == 4

-----------------------------------------------------------------------------
(* Layout.                                                                 *)

\* The smallest unsigned type with so many bits.
BytesFor(bits) == CHOOSE n \in {1, 2, 4, 8} :
  /\ bits <= Width(n)
  /\ \A k \in {1, 2, 4, 8} : bits <= Width(k) => n <= k

TotalBits(fields) == FoldLeft(LAMBDA sum, f : sum + f.bits, 0, fields)
PositionsOf(f) == f.offset .. (f.offset + f.bits - 1)

\* The layout of a specification: each field begins where the one before it ends.
OfSpecification(s) ==
  /\ s.bytes = BytesFor(TotalBits(s.fields))
  /\ \A i \in DOMAIN s.fields : /\ ~s.fields[i].signed
                               /\ s.fields[i].offset = TotalBits(SubSeq(s.fields, 1, i - 1))

ASSUME BitfieldsAssumption ==
  /\ ByteBits \in Nat \ {0}
  /\ \A s \in Setup :
       /\ s.writer \in Writers /\ s.bytes \in {1, 2, 4, 8}
       /\ s.fields \in Seq(Field) /\ s.fields # <<>>
       /\ \A i \in DOMAIN s.fields : PositionsOf(s.fields[i]) \subseteq Positions(s.bytes)
       /\ \A i, j \in DOMAIN s.fields :
            i # j => PositionsOf(s.fields[i]) \cap PositionsOf(s.fields[j]) = {}
       /\ s.writer = "struct" => OfSpecification(s)

Offset(i) == Fields[i].offset
FieldPositions(i) == PositionsOf(Fields[i])

\* The setups in which nothing is shifted too far: no field is as wide as a word of
\* four or eight bytes, and PackBitfield is used with words of at most four.
Narrow(s) ==
  /\ s.writer = "PackBitfield" => s.bytes <= IntBytes
  /\ s.bytes >= IntBytes => \A i \in DOMAIN s.fields : s.fields[i].bits < Width(s.bytes)

-----------------------------------------------------------------------------
(* Arithmetic of C++.                                                      *)

\* Operands narrower than an int are promoted to one, which is signed.
Promoted(bytes) == IF bytes < IntBytes THEN IntBytes ELSE bytes
IsInt(bytes) == bytes < IntBytes

Up(ones, by) == {b + by : b \in ones}
Down(ones, by) == {b - by : b \in {c \in ones : c >= by}}

\* The results of ones << by, for an operand of the type of so many bytes.
ShiftLeft(ones, by, bytes) ==
  LET all == Positions(Promoted(bytes))
  IN  IF by >= Width(Promoted(bytes)) \/ (IsInt(bytes) /\ ~(Up(ones, by) \subseteq all))
      THEN SUBSET all
      ELSE {Up(ones, by) \cap all}

\* Conversion to an unsigned type from the type that bytes is promoted to.
Convert(ones, bytes, to) ==
  LET sign == Width(Promoted(bytes)) - 1
  IN  (ones \cup (IF IsInt(bytes) /\ sign \in ones THEN {b \in Positions(to) : b > sign} ELSE {}))
        \cap Positions(to)

\* The masks (1 << bits) - 1 of an unsigned type.
Masks(bytes, bits) ==
  IF bits >= Width(Promoted(bytes)) THEN SUBSET Positions(bytes)
  ELSE {{b \in Positions(bytes) : b < bits}}

\* Sign extension of a number of so many bits.
Extend(ones, bits, bytes) ==
  IF bits - 1 \in ones THEN ones \cup {b \in Positions(bytes) : b >= bits} ELSE ones

-----------------------------------------------------------------------------
(* PackBitfield and UnpackBitfield.  T is the type of the field by its     *)
(* bytes, that of the word is given by setup.bytes.                        *)

\* Mutant: the mask is not moved to the field.
PackBitfieldAtZero(data, i, T) ==
  \E mask \in Masks(T, Fields[i].bits) :
  \E raw \in ShiftLeft(data \cap mask, Offset(i), T) :
    word' = (word \ mask) \cup Convert(raw, T, setup.bytes)

PackBitfield(data, i, T) ==
  \E mask \in Masks(T, Fields[i].bits) :
  \E hole \in ShiftLeft(mask, Offset(i), T) :
  \E raw \in ShiftLeft(data \cap mask, Offset(i), T) :
    word' = (word \cap Convert(Positions(Promoted(T)) \ hole, T, setup.bytes))
              \cup Convert(raw, T, setup.bytes)

\* Mutant: the fields above are not masked off.
UnpackBitfieldUnmasked(i, T) ==
  LET value == Down(word, Offset(i)) \cap Positions(T)
  IN  {IF Fields[i].signed THEN Extend(value, Fields[i].bits, T) ELSE value}

UnpackBitfield(i, T) ==
  LET value(mask) == Down(word, Offset(i)) \cap mask \cap Positions(T)
  IN  {IF Fields[i].signed THEN Extend(value(mask), Fields[i].bits, T) ELSE value(mask) :
         mask \in Masks(setup.bytes, Fields[i].bits)}

\* Types of at least the bits of the field and at most the bytes of the word.
CallerTypes(i) == {n \in {1, 2, 4, 8} : n <= setup.bytes /\ Fields[i].bits <= Width(n)}

\* Mutant: the limits of the types are exclusive.
FieldTypeStrict(i) == BytesFor(Fields[i].bits + 1)

\* The type that DescriptorBuilder gives the field.
FieldType(i) == BytesFor(Fields[i].bits)

-----------------------------------------------------------------------------
BitInit ==
  /\ setup \in Setup
  /\ word \in {{}, Positions(setup.bytes)}
  /\ held = [i \in DOMAIN Fields |-> {b \in Positions(setup.bytes) :
                                        b + Offset(i) \in word \cap FieldPositions(i)}]
  /\ read = <<>>

\* The member of a struct, of C, C++ or ctypes; the first one occupies the least
\* significant bits.  A number that does not fit is truncated.
StoreMember(i, data) ==
  /\ setup.writer = "struct"
  /\ word' = (word \ FieldPositions(i)) \cup (Up(data, Offset(i)) \cap FieldPositions(i))

StoreWithPackBitfield(i, data) ==
  /\ setup.writer = "PackBitfield"
  /\ \E T \in CallerTypes(i) : PackBitfield(data \cap Positions(T), i, T)

\* A number with the lowest, the highest, all or none of the field's bits, or one
\* bit too many.
Numbers(bits) == {{}, {0}, {bits - 1}, 0 .. (bits - 1), {0, bits}}

Store(i) ==
  \E data \in Numbers(Fields[i].bits) :
    /\ StoreMember(i, data) \/ StoreWithPackBitfield(i, data)
    /\ held' = [held EXCEPT ![i] = data \cap (0 .. Fields[i].bits - 1)]
    /\ read' = <<>>
    /\ UNCHANGED setup

\* What reading field i as a number of one of these types gives.
Results(i, types) ==
  UNION {{[type |-> T, value |-> v] : v \in UnpackBitfield(i, T)} : T \in types}

Thrown == <<[type |-> 0, value |-> {}]>>

\* DynamicStruct::UnpackBitfield reads all fields, with a branch for each type of
\* the word and each type of a field that is not wider; it throws for the others.
ReadDynamic ==
  /\ setup.writer = "struct"
  /\ IF \A i \in DOMAIN Fields : FieldType(i) <= setup.bytes
     THEN read' \in {r \in [DOMAIN Fields -> UNION {Results(i, {FieldType(i)}) : i \in DOMAIN Fields}] :
                      \A i \in DOMAIN Fields : r[i] \in Results(i, {FieldType(i)})}
     ELSE read' = Thrown

ReadWithUnpackBitfield ==
  /\ setup.writer = "PackBitfield"
  /\ \E i \in DOMAIN Fields : \E r \in Results(i, CallerTypes(i)) : read' = [n \in {i} |-> r]

ReadFields ==
  /\ ReadDynamic \/ ReadWithUnpackBitfield
  /\ UNCHANGED <<setup, word, held>>

BitNext == ReadFields \/ \E i \in DOMAIN Fields : Store(i)

BitSpec == BitInit /\ [][BitNext]_bitVars

-----------------------------------------------------------------------------
(* Properties.                                                             *)

\* A reader makes of each field a number of a type that is no wider than the word.
BitTypeOK ==
  /\ setup \in Setup
  /\ word \subseteq Positions(setup.bytes)
  /\ held \in [DOMAIN Fields -> SUBSET Positions(setup.bytes)]
  /\ \A i \in DOMAIN Fields : held[i] \subseteq 0 .. (Fields[i].bits - 1)
  /\ read # <<>> =>
       /\ DOMAIN read \subseteq DOMAIN Fields
       /\ \A i \in DOMAIN read : /\ read[i].type \in {1, 2, 4, 8} /\ read[i].type <= setup.bytes
                                /\ read[i].value \subseteq Positions(read[i].type)

\* What is read of a field is the number last stored in it, cut to its bits, with
\* its sign, whatever was stored in the other fields before and after.
ReadBack ==
  read # <<>> =>
    \A i \in DOMAIN read :
      read[i].value = IF Fields[i].signed THEN Extend(held[i], Fields[i].bits, read[i].type)
                      ELSE held[i]

\* A store changes no bit of the word outside its field.
OneFieldChanges ==
  [][\E i \in DOMAIN Fields : word' \ FieldPositions(i) = word \ FieldPositions(i)]_bitVars
=============================================================================
