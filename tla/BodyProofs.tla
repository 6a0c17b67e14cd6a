----------------------------- MODULE BodyProofs -----------------------------
(***************************************************************************)
(* Proofs about the bodies of messages.  Bitfields: for bytes of any       *)
(* number of bits and any layouts of fields that do not overlap.  Codec:   *)
(* for any specifications that were accepted, any libraries and any        *)
(* values.  Of the layout, what matters is that its leaves lie end to end  *)
(* (Tiles), which each way of putting leaves together keeps: one sequence  *)
(* after another, the elements of an array, the fields of a structure, and *)
(* the types of a specification, each from those before it.                *)
(***************************************************************************)
EXTENDS Bitfields, Codec, SpecTypesProofs

-----------------------------------------------------------------------------
(* Bitfields.  The fields of a setup.                                      *)

LEMMA WidthIs ==
  /\ ByteBits \in Nat /\ ByteBits >= 1
  /\ Width(1) = ByteBits /\ Width(2) = 2 * ByteBits
  /\ Width(4) = 4 * ByteBits /\ Width(8) = 8 * ByteBits
BY BitfieldsAssumption DEF BitfieldsAssumption, Width

LEMMA WiderHoldsMore ==
  ASSUME NEW T \in {1, 2, 4, 8}, NEW U \in {1, 2, 4, 8}, T <= U
  PROVE  Width(T) \in Nat /\ Width(U) \in Nat /\ Width(T) <= Width(U)
BY WidthIs

LEMMA PromotedIs ==
  ASSUME NEW T \in {1, 2, 4, 8}
  PROVE  /\ Promoted(T) \in {4, 8} /\ T <= Promoted(T)
         /\ Width(Promoted(T)) \in Nat /\ Width(T) <= Width(Promoted(T)) /\ Width(4) <= Width(Promoted(T))
         /\ T < IntBytes => Width(T) < Width(Promoted(T))
         /\ T >= IntBytes => Promoted(T) = T
BY WidthIs DEF Promoted, IntBytes

\* What is known of the fields of a setup.
LEMMA FieldIs ==
  ASSUME setup \in Setup, NEW i \in DOMAIN Fields
  PROVE  /\ setup.bytes \in {1, 2, 4, 8} /\ Width(setup.bytes) \in Nat
         /\ Offset(i) \in Nat /\ Fields[i].bits \in Nat /\ Fields[i].bits >= 1
         /\ Fields[i].bits <= Width(8) /\ Fields[i].signed \in BOOLEAN
         /\ Offset(i) + Fields[i].bits <= Width(setup.bytes)
<1>1. setup.bytes \in {1, 2, 4, 8} /\ setup.fields \in Seq(Field)
  BY BitfieldsAssumption DEF BitfieldsAssumption
<1>2. Fields[i] \in Field
  BY <1>1, ElementOfSeq DEF Fields
<1>3. /\ Offset(i) \in Nat /\ Fields[i].bits \in Nat /\ Fields[i].bits >= 1
      /\ Fields[i].bits <= Width(8) /\ Fields[i].signed \in BOOLEAN
  BY <1>2, WidthIs DEF Field, Offset
<1>4. FieldPositions(i) \subseteq Positions(setup.bytes)
  BY BitfieldsAssumption DEF BitfieldsAssumption, FieldPositions, Fields
<1>5. Width(setup.bytes) \in Nat
  BY <1>1, WidthIs
<1>6. Offset(i) + Fields[i].bits - 1 \in FieldPositions(i)
  BY <1>3 DEF FieldPositions, PositionsOf, Offset
<1>7. Offset(i) + Fields[i].bits - 1 \in 0 .. (Width(setup.bytes) - 1)
  BY <1>4, <1>6 DEF Positions
<1> QED
  BY <1>1, <1>3, <1>5, <1>7

LEMMA FieldsApart ==
  ASSUME setup \in Setup, NEW i \in DOMAIN Fields, NEW k \in DOMAIN Fields, i # k
  PROVE  FieldPositions(i) \cap FieldPositions(k) = {}
BY BitfieldsAssumption DEF BitfieldsAssumption, FieldPositions, Fields

-----------------------------------------------------------------------------
(* Masks and shifts that are defined.                                      *)

LEMMA MaskIs ==
  ASSUME NEW T \in {1, 2, 4, 8}, NEW n \in Nat, n <= Width(T), n < Width(Promoted(T))
  PROVE  Masks(T, n) = {0 .. (n - 1)}
<1>1. Width(T) \in Nat /\ Width(Promoted(T)) \in Nat
  BY WidthIs, PromotedIs
<1>2. {b \in Positions(T) : b < n} = 0 .. (n - 1)
  BY <1>1 DEF Positions
<1>3. ~(n >= Width(Promoted(T)))
  BY <1>1
<1> QED
  BY <1>2, <1>3, Zenon DEF Masks

LEMMA ShiftIs ==
  ASSUME NEW T \in {1, 2, 4, 8}, NEW n \in Nat, NEW by \in Nat,
         NEW ones, ones \subseteq 0 .. (n - 1),
         by + n <= Width(Promoted(T)), by < Width(Promoted(T))
  PROVE  ShiftLeft(ones, by, T) = {Up(ones, by)}
<1>1. Width(Promoted(T)) \in Nat
  BY PromotedIs
<1>2. Up(ones, by) \subseteq Positions(Promoted(T))
  <2> DEFINE W == Width(Promoted(T))
  <2>1. W \in Nat /\ by + n <= W
    BY <1>1
  <2> HIDE DEF W
  <2>2. \A b \in 0 .. (n - 1) : b + by \in 0 .. (W - 1)
    BY <2>1
  <2>3. \A b \in ones : b + by \in 0 .. (W - 1)
    BY <2>2
  <2> QED
    BY <2>3 DEF Up, Positions, W
<1>3. Up(ones, by) \cap Positions(Promoted(T)) = Up(ones, by)
  BY <1>2
<1>4. ~(by >= Width(Promoted(T)))
  BY <1>1
<1> QED
  BY <1>2, <1>3, <1>4 DEF ShiftLeft

\* Conversion to a type that is no wider than the promoted one only cuts.
LEMMA ConvertIs ==
  ASSUME NEW T \in {1, 2, 4, 8}, NEW U \in {1, 2, 4, 8}, U <= IntBytes, NEW ones
  PROVE  Convert(ones, T, U) = ones \cap Positions(U)
<1>1. Width(U) \in Nat /\ Width(U) <= Width(Promoted(T)) /\ Width(Promoted(T)) \in Nat
  BY PromotedIs, WidthIs DEF IntBytes
<1>2. {b \in Positions(U) : b > Width(Promoted(T)) - 1} = {}
  BY <1>1 DEF Positions
<1> QED
  BY <1>2 DEF Convert

-----------------------------------------------------------------------------
(* The two functions.                                                      *)

\* PackBitfield replaces the field and nothing else.
LEMMA PackBitfieldIs ==
  ASSUME setup \in Setup, Narrow(setup), setup.writer = "PackBitfield",
         word \subseteq Positions(setup.bytes),
         NEW i \in DOMAIN Fields, NEW T \in CallerTypes(i), NEW data,
         PackBitfield(data, i, T)
  PROVE  word' = (word \ FieldPositions(i)) \cup Up(data \cap (0 .. (Fields[i].bits - 1)), Offset(i))
<1> DEFINE n == Fields[i].bits
           o == Offset(i)
           U == setup.bytes
           m == 0 .. (n - 1)
<1>1. /\ U \in {1, 2, 4, 8} /\ Width(U) \in Nat /\ o \in Nat /\ n \in Nat /\ n >= 1
      /\ o + n <= Width(U) /\ U <= IntBytes
  BY FieldIs DEF Narrow, IntBytes
<1>2. T \in {1, 2, 4, 8} /\ T <= U /\ n <= Width(T)
  BY DEF CallerTypes
<1>3. Width(U) <= Width(Promoted(T)) /\ Width(Promoted(T)) \in Nat
  BY <1>1, <1>2, PromotedIs, WidthIs DEF IntBytes
<1>4. n < Width(Promoted(T))
  <2>1. CASE T < IntBytes
    <3>1. Width(T) \in Nat /\ Width(T) < Width(Promoted(T))
      BY <1>2, <2>1, PromotedIs, WidthIs
    <3> QED
      BY <1>1, <1>2, <1>3, <3>1
  <2>2. CASE ~(T < IntBytes)
    <3>1. U = T /\ Promoted(T) = T /\ U >= IntBytes
      BY <1>1, <1>2, <2>2, PromotedIs DEF IntBytes
    <3>2. n < Width(U)
      BY <3>1 DEF Narrow, Fields
    <3> QED
      BY <3>1, <3>2
  <2> QED
    BY <2>1, <2>2
<1> HIDE DEF n, o, U
<1>5. Masks(T, n) = {m}
  BY <1>1, <1>2, <1>4, MaskIs
<1>6. /\ ShiftLeft(m, o, T) = {Up(m, o)}
      /\ ShiftLeft(data \cap m, o, T) = {Up(data \cap m, o)}
  <2>1. o + n <= Width(Promoted(T)) /\ o < Width(Promoted(T)) /\ data \cap m \subseteq 0 .. (n - 1)
    BY <1>1, <1>3
  <2> QED
    BY <1>1, <1>2, <2>1, ShiftIs
<1>7. word' = (word \cap Convert(Positions(Promoted(T)) \ Up(m, o), T, U))
                \cup Convert(Up(data \cap m, o), T, U)
  <2>1. PICK mask \in Masks(T, n) : \E hole \in ShiftLeft(mask, o, T) :
          \E raw \in ShiftLeft(data \cap mask, o, T) :
            word' = (word \cap Convert(Positions(Promoted(T)) \ hole, T, U)) \cup Convert(raw, T, U)
    BY DEF PackBitfield, n, o, U
  <2>2. mask = m
    BY <1>5, <2>1
  <2> HIDE DEF m
  <2>3. PICK hole \in ShiftLeft(m, o, T) : \E raw \in ShiftLeft(data \cap m, o, T) :
            word' = (word \cap Convert(Positions(Promoted(T)) \ hole, T, U)) \cup Convert(raw, T, U)
    BY <2>1, <2>2
  <2> QED
    BY <1>6, <2>3
<1>8. /\ Convert(Positions(Promoted(T)) \ Up(m, o), T, U)
           = (Positions(Promoted(T)) \ Up(m, o)) \cap Positions(U)
      /\ Convert(Up(data \cap m, o), T, U) = Up(data \cap m, o) \cap Positions(U)
  BY <1>1, <1>2, ConvertIs
<1>9. Positions(U) \subseteq Positions(Promoted(T))
  BY <1>1, <1>3 DEF Positions
<1>10. Up(m, o) = FieldPositions(i)
  <2>1. FieldPositions(i) = o .. (o + n - 1)
    BY DEF FieldPositions, PositionsOf, Offset, o, n
  <2>2. \A b \in o .. (o + n - 1) : b - o \in m /\ b = (b - o) + o
    BY <1>1
  <2>3. \A b \in m : b + o \in o .. (o + n - 1)
    BY <1>1
  <2> QED
    BY <2>1, <2>2, <2>3 DEF Up
<1>11. Up(data \cap m, o) \subseteq Positions(U)
  <2> DEFINE W == Width(U)
  <2>1. W \in Nat /\ o + n <= W
    BY <1>1
  <2> HIDE DEF W
  <2>2. \A b \in m : b + o \in 0 .. (W - 1)
    BY <1>1, <2>1
  <2> QED
    BY <2>2 DEF Up, Positions, W
<1>12. word \subseteq Positions(U)
  BY DEF U
<1> QED
  BY <1>7, <1>8, <1>9, <1>10, <1>11, <1>12 DEF n, o

\* UnpackBitfield reads the field, and extends its sign.
LEMMA UnpackBitfieldIs ==
  ASSUME setup \in Setup, Narrow(setup), NEW i \in DOMAIN Fields,
         NEW T \in {1, 2, 4, 8}, Fields[i].bits <= Width(T),
         NEW ones, ones \subseteq 0 .. (Fields[i].bits - 1),
         word \cap FieldPositions(i) = Up(ones, Offset(i)),
         word \subseteq Positions(setup.bytes),
         NEW v \in UnpackBitfield(i, T)
  PROVE  v = IF Fields[i].signed THEN Extend(ones, Fields[i].bits, T) ELSE ones
<1> DEFINE n == Fields[i].bits
           o == Offset(i)
           U == setup.bytes
           m == 0 .. (n - 1)
<1>1. /\ U \in {1, 2, 4, 8} /\ Width(U) \in Nat /\ o \in Nat /\ n \in Nat /\ n >= 1
      /\ o + n <= Width(U) /\ Width(T) \in Nat /\ n <= Width(T) /\ ones \subseteq m
  BY FieldIs, WidthIs
<1>2. n < Width(Promoted(U)) /\ n <= Width(U)
  <2>1. CASE U < IntBytes
    <3>1. Width(U) < Width(Promoted(U)) /\ Width(Promoted(U)) \in Nat
      BY <1>1, <2>1, PromotedIs
    <3> QED
      BY <1>1, <3>1
  <2>2. CASE ~(U < IntBytes)
    <3>1. Promoted(U) = U /\ U >= IntBytes
      BY <1>1, <2>2, PromotedIs DEF IntBytes
    <3>2. n < Width(U)
      BY <3>1 DEF Narrow, Fields
    <3> QED
      BY <1>1, <3>1, <3>2
  <2> QED
    BY <2>1, <2>2
<1>3. FieldPositions(i) = o .. (o + n - 1)
  BY DEF FieldPositions, PositionsOf, Offset
<1>4. word \cap FieldPositions(i) = Up(ones, o)
  OBVIOUS
<1>5. word \subseteq Positions(U)
  OBVIOUS
<1> DEFINE value == Down(word, o) \cap m \cap Positions(T)
<1>6. v = IF Fields[i].signed THEN Extend(value, n, T) ELSE value
  <2>1. Masks(U, n) = {m}
    <3> HIDE DEF n, U
    <3> QED
      BY <1>1, <1>2, MaskIs
  <2> QED
    BY <2>1 DEF UnpackBitfield
<1> HIDE DEF n, o, U
<1>7. ASSUME NEW b \in value PROVE b \in ones
  <2>1. PICK c \in word : c >= o /\ b = c - o
    BY <1>7 DEF Down
  <2>2. b \in 0 .. (n - 1) /\ c \in Int
    BY <1>1, <1>5, <1>7, <2>1 DEF Positions
  <2>3. c \in FieldPositions(i)
    BY <1>1, <1>3, <2>1, <2>2
  <2>4. PICK d \in ones : c = d + o
    BY <1>4, <2>1, <2>3 DEF Up
  <2> QED
    BY <1>1, <2>1, <2>2, <2>4
<1>8. ASSUME NEW b \in ones PROVE b \in value
  <2>1. b \in 0 .. (n - 1) /\ b \in Positions(T)
    BY <1>1 DEF Positions
  <2>2. b + o \in word
    BY <1>4 DEF Up
  <2>3. b + o >= o /\ b = (b + o) - o
    BY <1>1, <2>1
  <2>4. b \in Down(word, o)
    BY <2>2, <2>3 DEF Down
  <2> QED
    BY <2>1, <2>4
<1>9. value = ones
  BY <1>7, <1>8
<1> QED
  BY <1>6, <1>9 DEF n

\* Whatever the shifts give, numbers fit the types they are converted to.
LEMMA UnpackFits ==
  ASSUME NEW i \in DOMAIN Fields, NEW T \in {1, 2, 4, 8}, NEW v \in UnpackBitfield(i, T)
  PROVE  v \subseteq Positions(T)
BY DEF UnpackBitfield, Extend

LEMMA PackFits ==
  ASSUME NEW i \in DOMAIN Fields, NEW T, NEW data, PackBitfield(data, i, T)
  PROVE  word' \subseteq Positions(setup.bytes)
<1>1. \A ones : Convert(ones, T, setup.bytes) \subseteq Positions(setup.bytes)
  BY DEF Convert
<1>2. \E hole : \E raw : word' = (word \cap Convert(hole, T, setup.bytes)) \cup Convert(raw, T, setup.bytes)
  BY DEF PackBitfield
<1> QED
  BY <1>1, <1>2

\* The type of the dynamic reader is one of those the word can be read as.
LEMMA FieldTypeIs ==
  ASSUME setup \in Setup, NEW i \in DOMAIN Fields
  PROVE  FieldType(i) \in {1, 2, 4, 8} /\ FieldType(i) <= setup.bytes /\ Fields[i].bits <= Width(FieldType(i))
<1> DEFINE n == Fields[i].bits
           Smallest(t) == n <= Width(t) /\ \A k \in {1, 2, 4, 8} : n <= Width(k) => t <= k
<1>1. n \in Nat /\ n <= Width(8) /\ setup.bytes \in {1, 2, 4, 8} /\ n <= Width(setup.bytes)
  <2>1. Offset(i) \in Nat /\ Offset(i) + n <= Width(setup.bytes) /\ Width(setup.bytes) \in Nat /\ n \in Nat
    BY FieldIs
  <2> HIDE DEF n
  <2>2. n <= Width(setup.bytes)
    BY <2>1
  <2> QED
    BY <2>1, <2>2, FieldIs DEF n
<1> HIDE DEF n
<1>2. \E t \in {1, 2, 4, 8} : Smallest(t)
  <2>1. CASE n <= Width(1)
    BY <2>1
  <2>2. CASE ~(n <= Width(1)) /\ n <= Width(2)
    BY <2>2
  <2>3. CASE ~(n <= Width(1)) /\ ~(n <= Width(2)) /\ n <= Width(4)
    BY <2>3
  <2>4. CASE ~(n <= Width(1)) /\ ~(n <= Width(2)) /\ ~(n <= Width(4))
    BY <1>1, <2>4
  <2> QED
    BY <2>1, <2>2, <2>3, <2>4
<1>3. FieldType(i) = CHOOSE t \in {1, 2, 4, 8} : Smallest(t)
  BY DEF FieldType, BytesFor, n
<1>4. FieldType(i) \in {1, 2, 4, 8} /\ Smallest(FieldType(i))
  <2> HIDE DEF Smallest
  <2> QED
    BY <1>2, <1>3
<1> QED
  BY <1>1, <1>4 DEF n

LEMMA ResultsAre ==
  ASSUME NEW i, NEW types, NEW r \in Results(i, types)
  PROVE  r.type \in types /\ r.value \in UnpackBitfield(i, r.type)
BY DEF Results

-----------------------------------------------------------------------------
(* Type correctness, whatever the widths.                                  *)

LEMMA InitBitTypeOK == BitInit => BitTypeOK
<1> SUFFICES ASSUME BitInit PROVE BitTypeOK
  OBVIOUS
<1>1. setup \in Setup /\ word \subseteq Positions(setup.bytes) /\ read = <<>>
  BY DEF BitInit
<1>2. held \in [DOMAIN Fields -> SUBSET Positions(setup.bytes)]
  BY DEF BitInit
<1>3. ASSUME NEW i \in DOMAIN Fields, NEW b \in held[i] PROVE b \in 0 .. (Fields[i].bits - 1)
  <2>1. b \in Positions(setup.bytes) /\ b + Offset(i) \in FieldPositions(i)
    BY <1>3 DEF BitInit
  <2>2. Offset(i) \in Nat /\ Fields[i].bits \in Nat /\ Width(setup.bytes) \in Nat
    BY <1>1, FieldIs
  <2>3. b \in Nat
    BY <2>1, <2>2 DEF Positions
  <2>4. FieldPositions(i) = Offset(i) .. (Offset(i) + Fields[i].bits - 1)
    BY DEF FieldPositions, PositionsOf, Offset
  <2> DEFINE n == Fields[i].bits
             o == Offset(i)
  <2>5. b + o \in o .. (o + n - 1) /\ o \in Nat /\ n \in Nat
    BY <2>1, <2>2, <2>4
  <2> HIDE DEF n, o
  <2>6. b \in 0 .. (n - 1)
    BY <2>3, <2>5
  <2> QED
    BY <2>6 DEF n
<1> QED
  BY <1>1, <1>2, <1>3 DEF BitTypeOK

\* What a store does to the word and to the record of what is held.
LEMMA StoreIs ==
  ASSUME BitTypeOK, NEW i \in DOMAIN Fields, Store(i)
  PROVE  /\ word' \subseteq Positions(setup.bytes)
         /\ held' = [held EXCEPT ![i] = held'[i]]
         /\ held'[i] \subseteq 0 .. (Fields[i].bits - 1) /\ held'[i] \subseteq Positions(setup.bytes)
         /\ read' = <<>> /\ setup' = setup
<1>1. PICK data \in Numbers(Fields[i].bits) :
        /\ StoreMember(i, data) \/ StoreWithPackBitfield(i, data)
        /\ held' = [held EXCEPT ![i] = data \cap (0 .. Fields[i].bits - 1)]
  BY DEF Store
<1>2. read' = <<>> /\ setup' = setup
  BY DEF Store
<1>3. FieldPositions(i) \subseteq Positions(setup.bytes)
  BY BitfieldsAssumption DEF BitfieldsAssumption, FieldPositions, Fields, BitTypeOK
<1>4. word' \subseteq Positions(setup.bytes)
  <2>1. CASE StoreMember(i, data)
    BY <1>3, <2>1 DEF StoreMember, BitTypeOK
  <2>2. CASE StoreWithPackBitfield(i, data)
    BY <2>2, PackFits DEF StoreWithPackBitfield
  <2> QED
    BY <1>1, <2>1, <2>2
<1>5. held'[i] = data \cap (0 .. Fields[i].bits - 1)
  BY <1>1 DEF BitTypeOK
<1>6. 0 .. (Fields[i].bits - 1) \subseteq Positions(setup.bytes)
  <2> DEFINE n == Fields[i].bits
             o == Offset(i)
             W == Width(setup.bytes)
  <2>1. n \in Nat /\ o \in Nat /\ W \in Nat /\ o + n <= W
    BY FieldIs DEF BitTypeOK
  <2> HIDE DEF n, o, W
  <2>2. 0 .. (n - 1) \subseteq 0 .. (W - 1)
    BY <2>1
  <2> QED
    BY <2>2 DEF n, W, Positions
<1> QED
  BY <1>1, <1>2, <1>4, <1>5, <1>6

LEMMA ReadFieldsIs ==
  ASSUME BitTypeOK, ReadFields
  PROVE  /\ DOMAIN read' \subseteq DOMAIN Fields
         /\ \A i \in DOMAIN read' :
              /\ read'[i].type \in {1, 2, 4, 8} /\ read'[i].type <= setup.bytes
              /\ Fields[i].bits <= Width(read'[i].type)
              /\ read'[i].value \in UnpackBitfield(i, read'[i].type)
         /\ setup' = setup /\ word' = word /\ held' = held
<1>1. setup \in Setup /\ setup' = setup /\ word' = word /\ held' = held
  BY DEF ReadFields, BitTypeOK
<1>2. CASE ReadDynamic
  <2>1. \A i \in DOMAIN Fields : FieldType(i) <= setup.bytes
    BY <1>1, FieldTypeIs
  <2>2. DOMAIN read' = DOMAIN Fields /\ \A i \in DOMAIN Fields : read'[i] \in Results(i, {FieldType(i)})
    BY <1>2, <2>1 DEF ReadDynamic
  <2>3. ASSUME NEW i \in DOMAIN Fields
        PROVE  read'[i].type = FieldType(i) /\ read'[i].value \in UnpackBitfield(i, read'[i].type)
    <3>1. read'[i] \in Results(i, {FieldType(i)})
      BY <2>2
    <3>2. read'[i].type \in {FieldType(i)} /\ read'[i].value \in UnpackBitfield(i, read'[i].type)
      BY ONLY <3>1, ResultsAre
    <3> QED
      BY <3>2
  <2> QED
    BY <1>1, <2>2, <2>3, FieldTypeIs
<1>3. CASE ReadWithUnpackBitfield
  <2>1. PICK i \in DOMAIN Fields : \E r \in Results(i, CallerTypes(i)) : read' = [n \in {i} |-> r]
    BY <1>3 DEF ReadWithUnpackBitfield
  <2>2. PICK r \in Results(i, CallerTypes(i)) : read' = [n \in {i} |-> r]
    BY <2>1
  <2>3. r.type \in CallerTypes(i) /\ r.value \in UnpackBitfield(i, r.type)
    BY <2>2, ResultsAre
  <2>4. DOMAIN read' = {i} /\ read'[i] = r
    BY <2>2
  <2> QED
    BY <1>1, <2>3, <2>4 DEF CallerTypes
<1> QED
  BY <1>1, <1>2, <1>3 DEF ReadFields

LEMMA StepBitTypeOK == BitTypeOK /\ [BitNext]_bitVars => BitTypeOK'
<1> SUFFICES ASSUME BitTypeOK, [BitNext]_bitVars PROVE BitTypeOK'
  OBVIOUS
<1>1. ASSUME NEW i \in DOMAIN Fields, Store(i) PROVE BitTypeOK'
  <2>1. /\ setup' = setup /\ Fields' = Fields /\ read' = <<>> /\ word' \subseteq Positions(setup.bytes)
        /\ held' = [held EXCEPT ![i] = held'[i]]
        /\ held'[i] \subseteq 0 .. (Fields[i].bits - 1) /\ held'[i] \subseteq Positions(setup.bytes)
    BY <1>1, StoreIs DEF Fields
  <2>2. held' \in [DOMAIN Fields -> SUBSET Positions(setup.bytes)]
    BY <2>1 DEF BitTypeOK
  <2>3. \A k \in DOMAIN Fields : held'[k] \subseteq 0 .. (Fields[k].bits - 1)
    BY <2>1 DEF BitTypeOK
  <2> QED
    BY <2>1, <2>2, <2>3 DEF BitTypeOK
<1>2. CASE ReadFields
  <2>1. setup' = setup /\ Fields' = Fields /\ word' = word /\ held' = held
    BY <1>2, ReadFieldsIs DEF Fields
  <2>2. DOMAIN read' \subseteq DOMAIN Fields
    BY <1>2, ReadFieldsIs
  <2>3. ASSUME NEW i \in DOMAIN read'
        PROVE  /\ read'[i].type \in {1, 2, 4, 8} /\ read'[i].type <= setup.bytes
               /\ read'[i].value \subseteq Positions(read'[i].type)
    BY <1>2, <2>2, ReadFieldsIs, UnpackFits
  <2> QED
    BY <2>1, <2>2, <2>3 DEF BitTypeOK
<1>3. CASE UNCHANGED bitVars
  BY <1>3 DEF bitVars, BitTypeOK, Fields
<1> QED
  BY <1>1, <1>2, <1>3 DEF BitNext

\* The reader never meets a type that DynamicStruct::UnpackBitfield throws for, and
\* what it makes of a field fits the type of the field, even after undefined shifts.
THEOREM FieldsTypeCorrect == BitSpec => []BitTypeOK
BY InitBitTypeOK, StepBitTypeOK, PTL DEF BitSpec

-----------------------------------------------------------------------------
(* What is read back.                                                      *)

\* The word holds the number of each field, moved to its offset.
WordInv == \A i \in DOMAIN Fields : word \cap FieldPositions(i) = Up(held[i], Offset(i))

LEMMA InitWordInv == BitInit => WordInv
<1> SUFFICES ASSUME BitInit, NEW i \in DOMAIN Fields
             PROVE  word \cap FieldPositions(i) = Up(held[i], Offset(i))
  BY DEF WordInv
<1> DEFINE o == Offset(i)
           n == Fields[i].bits
           W == Width(setup.bytes)
<1>1. o \in Nat /\ n \in Nat /\ W \in Nat /\ o + n <= W
  BY FieldIs DEF BitInit
<1>2. FieldPositions(i) = o .. (o + n - 1) /\ Positions(setup.bytes) = 0 .. (W - 1)
  BY DEF FieldPositions, PositionsOf, Positions, Offset
<1>3. held[i] = {b \in Positions(setup.bytes) : b + o \in word \cap FieldPositions(i)}
  BY DEF BitInit
<1> HIDE DEF o, n, W
<1>4. Up(held[i], o) \subseteq word \cap FieldPositions(i)
  BY <1>3 DEF Up
<1>5. ASSUME NEW c \in word \cap FieldPositions(i) PROVE c \in Up(held[i], o)
  <2>1. c - o \in 0 .. (W - 1) /\ (c - o) + o = c
    BY <1>1, <1>2
  <2>2. c - o \in held[i]
    BY <1>2, <1>3, <2>1
  <2> QED
    BY <2>1, <2>2 DEF Up
<1> QED
  BY <1>4, <1>5 DEF o

\* A number of so many bits, moved to the offset of the field, stays in the field.
LEMMA UpInField ==
  ASSUME setup \in Setup, NEW i \in DOMAIN Fields, NEW ones, ones \subseteq 0 .. (Fields[i].bits - 1)
  PROVE  Up(ones, Offset(i)) \subseteq FieldPositions(i)
<1> DEFINE o == Offset(i)
           n == Fields[i].bits
<1>1. o \in Nat /\ n \in Nat /\ FieldPositions(i) = o .. (o + n - 1) /\ ones \subseteq 0 .. (n - 1)
  BY FieldIs DEF FieldPositions, PositionsOf, Offset
<1> HIDE DEF o, n
<1>2. \A b \in ones : b + o \in FieldPositions(i)
  BY <1>1
<1> QED
  BY <1>2 DEF Up, o

\* A store puts its number in its field and leaves the rest of the word.
LEMMA StoredIs ==
  ASSUME BitTypeOK, Narrow(setup), NEW i \in DOMAIN Fields, Store(i)
  PROVE  word' = (word \ FieldPositions(i)) \cup Up(held'[i], Offset(i))
<1> DEFINE o == Offset(i)
           n == Fields[i].bits
           m == 0 .. (n - 1)
<1>1. PICK data \in Numbers(n) :
        /\ StoreMember(i, data) \/ StoreWithPackBitfield(i, data)
        /\ held' = [held EXCEPT ![i] = data \cap m]
  BY DEF Store
<1>2. held'[i] = data \cap m
  BY <1>1 DEF BitTypeOK
<1>3. o \in Nat /\ n \in Nat /\ FieldPositions(i) = o .. (o + n - 1)
  BY FieldIs DEF BitTypeOK, FieldPositions, PositionsOf, Offset
<1>4. data \subseteq Int
  BY <1>3 DEF Numbers
<1>5. CASE StoreMember(i, data)
  <2>1. word' = (word \ FieldPositions(i)) \cup (Up(data, o) \cap FieldPositions(i))
    BY <1>5 DEF StoreMember
  <2> HIDE DEF o, n
  <2>2. \A b \in data : b + o \in FieldPositions(i) <=> b \in m
    BY <1>3, <1>4
  <2>3. Up(data, o) \cap FieldPositions(i) \subseteq Up(data \cap m, o)
    BY <2>2 DEF Up
  <2>4. Up(data \cap m, o) \subseteq Up(data, o) \cap FieldPositions(i)
    BY <2>2 DEF Up
  <2> QED
    BY <1>2, <2>1, <2>3, <2>4 DEF o
<1>6. CASE StoreWithPackBitfield(i, data)
  <2>1. PICK T \in CallerTypes(i) : PackBitfield(data \cap Positions(T), i, T)
    BY <1>6 DEF StoreWithPackBitfield
  <2>2. setup.writer = "PackBitfield"
    BY <1>6 DEF StoreWithPackBitfield
  <2>3. word' = (word \ FieldPositions(i)) \cup Up((data \cap Positions(T)) \cap m, o)
    BY <2>1, <2>2, PackBitfieldIs DEF BitTypeOK
  <2>4. m \subseteq Positions(T)
    <3> DEFINE W == Width(T)
    <3>1. W \in Nat /\ n <= W
      BY <2>1, WidthIs DEF CallerTypes
    <3> HIDE DEF W, n
    <3>2. 0 .. (n - 1) \subseteq 0 .. (W - 1)
      BY <1>3, <3>1
    <3> QED
      BY <3>2 DEF Positions, W
  <2>5. (data \cap Positions(T)) \cap m = data \cap m
    BY <2>4
  <2> HIDE DEF m
  <2> QED
    BY <1>2, <2>3, <2>5
<1> QED
  BY <1>1, <1>5, <1>6

LEMMA StepWordInv == BitTypeOK /\ Narrow(setup) /\ WordInv /\ [BitNext]_bitVars => WordInv'
<1> SUFFICES ASSUME BitTypeOK, Narrow(setup), WordInv, [BitNext]_bitVars PROVE WordInv'
  OBVIOUS
<1>1. ASSUME NEW i \in DOMAIN Fields, Store(i) PROVE WordInv'
  <2>1. /\ setup' = setup /\ Fields' = Fields /\ held' = [held EXCEPT ![i] = held'[i]]
        /\ held'[i] \subseteq 0 .. (Fields[i].bits - 1)
    BY <1>1, StoreIs DEF Fields
  <2>2. word' = (word \ FieldPositions(i)) \cup Up(held'[i], Offset(i))
    BY <1>1, StoredIs
  <2>3. Up(held'[i], Offset(i)) \subseteq FieldPositions(i)
    BY <2>1, UpInField DEF BitTypeOK
  <2>4. ASSUME NEW k \in DOMAIN Fields
        PROVE  word' \cap FieldPositions(k) = Up(held'[k], Offset(k))
    <3>1. CASE k = i
      BY <2>2, <2>3, <3>1
    <3>2. CASE k # i
      <4>1. held'[k] = held[k]
        BY <2>1, <3>2 DEF BitTypeOK
      <4>2. FieldPositions(i) \cap FieldPositions(k) = {}
        BY <3>2, FieldsApart DEF BitTypeOK
      <4>3. word \cap FieldPositions(k) = Up(held[k], Offset(k))
        BY DEF WordInv
      <4> QED
        BY <2>2, <2>3, <4>1, <4>2, <4>3
    <3> QED
      BY <3>1, <3>2
  <2> QED
    BY <2>1, <2>4 DEF WordInv, FieldPositions, Offset
<1>2. CASE ReadFields
  <2>1. setup' = setup /\ Fields' = Fields /\ word' = word /\ held' = held
    BY <1>2, ReadFieldsIs DEF Fields
  <2> QED
    BY <2>1 DEF WordInv, FieldPositions, Offset
<1>3. CASE UNCHANGED bitVars
  BY <1>3 DEF bitVars, WordInv, FieldPositions, Offset, Fields
<1> QED
  BY <1>1, <1>2, <1>3 DEF BitNext

LEMMA StepReadBack ==
  BitTypeOK /\ Narrow(setup) /\ WordInv /\ ReadBack /\ [BitNext]_bitVars => ReadBack'
<1> SUFFICES ASSUME BitTypeOK, Narrow(setup), WordInv, ReadBack, [BitNext]_bitVars PROVE ReadBack'
  OBVIOUS
<1>1. ASSUME NEW i \in DOMAIN Fields, Store(i) PROVE ReadBack'
  <2>1. read' = <<>>
    BY <1>1 DEF Store
  <2> QED
    BY <2>1 DEF ReadBack
<1>2. CASE ReadFields
  <2>1. setup' = setup /\ Fields' = Fields /\ held' = held /\ DOMAIN read' \subseteq DOMAIN Fields
    BY <1>2, ReadFieldsIs DEF Fields
  <2>2. ASSUME NEW i \in DOMAIN read'
        PROVE  read'[i].value = IF Fields[i].signed THEN Extend(held[i], Fields[i].bits, read'[i].type)
                                ELSE held[i]
    <3> DEFINE T == read'[i].type
    <3>1. i \in DOMAIN Fields
      BY <2>1, <2>2
    <3>2. T \in {1, 2, 4, 8} /\ Fields[i].bits <= Width(T) /\ read'[i].value \in UnpackBitfield(i, T)
      BY <1>2, <2>2, ReadFieldsIs
    <3>3. held[i] \subseteq 0 .. (Fields[i].bits - 1) /\ word \subseteq Positions(setup.bytes) /\ setup \in Setup
      BY <3>1 DEF BitTypeOK
    <3>4. word \cap FieldPositions(i) = Up(held[i], Offset(i))
      BY <3>1 DEF WordInv
    <3> HIDE DEF T
    <3> QED
      BY <3>1, <3>2, <3>3, <3>4, UnpackBitfieldIs DEF T
  <2> QED
    BY <2>1, <2>2 DEF ReadBack
<1>3. CASE UNCHANGED bitVars
  BY <1>3 DEF bitVars, ReadBack, Fields
<1> QED
  BY <1>1, <1>2, <1>3 DEF BitNext

\* What is read of a field of an unpacked bitfield is the number stored there last, if
\* no mask is shifted by the width of its type: PackBitfield, UnpackBitfield and the
\* structs of the generators agree on every layout.
THEOREM FieldsReadBack ==
  ASSUME \A s \in Setup : Narrow(s)
  PROVE  BitSpec => []ReadBack
<1>1. BitInit => WordInv /\ ReadBack
  <2>1. BitInit => ReadBack
    BY DEF BitInit, ReadBack
  <2> QED
    BY <2>1, InitWordInv
<1>2. BitTypeOK => Narrow(setup)
  BY DEF BitTypeOK
<1>3. BitTypeOK /\ WordInv /\ ReadBack /\ [BitNext]_bitVars => (WordInv /\ ReadBack)'
  BY <1>2, StepWordInv, StepReadBack
<1> QED
  BY <1>1, <1>3, FieldsTypeCorrect, PTL DEF BitSpec

\* A store into one field disturbs no other, and no unused bit of the word.
THEOREM OneFieldChangesAtATime ==
  ASSUME \A s \in Setup : Narrow(s)
  PROVE  BitSpec => OneFieldChanges
<1> DEFINE Kept == \E i \in DOMAIN Fields : word' \ FieldPositions(i) = word \ FieldPositions(i)
<1>1. BitTypeOK /\ [BitNext]_bitVars => [Kept]_bitVars
  <2> SUFFICES ASSUME BitTypeOK, BitNext PROVE Kept
    OBVIOUS
  <2>1. Narrow(setup)
    BY DEF BitTypeOK
  <2>2. ASSUME NEW i \in DOMAIN Fields, Store(i) PROVE Kept
    <3>1. word' = (word \ FieldPositions(i)) \cup Up(held'[i], Offset(i))
      BY <2>1, <2>2, StoredIs
    <3>2. held'[i] \subseteq 0 .. (Fields[i].bits - 1)
      BY <2>2, StoreIs
    <3>3. Up(held'[i], Offset(i)) \subseteq FieldPositions(i)
      BY <3>2, UpInField DEF BitTypeOK
    <3>4. word' \ FieldPositions(i) = word \ FieldPositions(i)
      BY <3>1, <3>3
    <3> QED
      BY <3>4
  <2>3. CASE ReadFields
    <3>1. word' = word
      BY <2>3, ReadFieldsIs
    <3>2. 1 \in DOMAIN Fields
      BY BitfieldsAssumption DEF BitfieldsAssumption, BitTypeOK, Fields
    <3> QED
      BY <3>1, <3>2
  <2> QED
    BY <2>2, <2>3 DEF BitNext
<1> QED
  BY <1>1, FieldsTypeCorrect, PTL DEF BitSpec, OneFieldChanges

-----------------------------------------------------------------------------
(* Sequences joined to one.                                                *)

FlatFold == INSTANCE FoldTheorems WITH Op <- LAMBDA c, acc, x : acc \o x

JoinsTo(f, seqs, n) ==
  /\ f[1] = seqs[1]
  /\ \A i \in 2 .. n : f[i] = f[i - 1] \o seqs[i]

LEMMA FlattenHas ==
  ASSUME NEW seqs, NEW n \in Nat, n >= 1, Len(seqs) = n
  PROVE  \E f : JoinsTo(f, seqs, n) /\ FlattenSeq(seqs) = f[n]
<1> DEFINE rest == [i \in 1 .. (n - 1) |-> seqs[i + 1]]
           Flat(f) == f = [i \in 1 .. n |-> IF i = 1 THEN seqs[i] ELSE f[i - 1] \o seqs[i]]
<1>1. n - 1 \in Nat /\ DOMAIN rest = 1 .. (n - 1) /\ \A i \in 1 .. (n - 1) : rest[i] = seqs[i + 1]
  OBVIOUS
<1> HIDE DEF rest
<1>2. PICK h : FlatFold!FoldsTo(h, 0, seqs[1], rest, n - 1)
  BY <1>1, FlatFold!FoldHas
<1> DEFINE g == [i \in 1 .. n |-> h[i - 1]]
<1>3. g[1] = seqs[1]
  BY <1>2 DEF FlatFold!FoldsTo
<1>4. ASSUME NEW i \in 2 .. n PROVE g[i] = g[i - 1] \o seqs[i]
  <2>1. i - 1 \in 1 .. (n - 1) /\ (i - 1) + 1 = i /\ i - 1 \in 1 .. n /\ i \in 1 .. n
    OBVIOUS
  <2>2. h[i - 1] = h[(i - 1) - 1] \o rest[i - 1]
    BY <1>2, <2>1 DEF FlatFold!FoldsTo
  <2> QED
    BY <1>1, <2>1, <2>2
<1>5. Flat(g)
  <2>1. g = [i \in 1 .. n |-> g[i]]
    OBVIOUS
  <2> HIDE DEF g
  <2>2. ASSUME NEW i \in 1 .. n PROVE g[i] = IF i = 1 THEN seqs[i] ELSE g[i - 1] \o seqs[i]
    <3>1. i = 1 \/ i \in 2 .. n
      OBVIOUS
    <3> QED
      BY <1>3, <1>4, <3>1
  <2> QED
    BY <2>1, <2>2
<1> HIDE DEF g
<1> DEFINE f == CHOOSE f : Flat(f)
<1>6. Flat(f)
  <2> HIDE DEF Flat
  <2> QED
    BY <1>5
<1>7. FlattenSeq(seqs) = f[n]
  BY DEF FlattenSeq
<1> HIDE DEF f
<1>8. JoinsTo(f, seqs, n)
  <2>1. 1 \in 1 .. n
    OBVIOUS
  <2>2. ASSUME NEW i \in 2 .. n PROVE f[i] = f[i - 1] \o seqs[i]
    <3>1. i \in 1 .. n /\ i # 1
      OBVIOUS
    <3> QED
      BY <1>6, <3>1
  <2> QED
    BY <1>6, <2>1, <2>2 DEF JoinsTo
<1> QED
  BY <1>7, <1>8

LEMMA FlattenNone ==
  ASSUME NEW seqs, Len(seqs) = 0
  PROVE  FlattenSeq(seqs) = seqs
BY DEF FlattenSeq

\* The elements of the whole are those of its parts.
Joined(x, seqs, n) ==
  IsSeq(x) /\ \A e \in Range(x) : \E i \in 1 .. n : e \in Range(seqs[i])
LEMMA FlattenRange ==
  ASSUME NEW seqs, IsSeq(seqs), \A i \in 1 .. Len(seqs) : IsSeq(seqs[i])
  PROVE  Joined(FlattenSeq(seqs), seqs, Len(seqs))
<1> DEFINE n == Len(seqs)
<1>1. n \in Nat
  BY SeqIs
<1>2. CASE n = 0
  <2>1. FlattenSeq(seqs) = seqs /\ DOMAIN seqs = {}
    BY <1>2, SeqIs, FlattenNone
  <2> QED
    BY <2>1 DEF Joined, Range
<1>3. CASE n >= 1
  <2> HIDE DEF n
  <2>1. PICK f : JoinsTo(f, seqs, n) /\ FlattenSeq(seqs) = f[n]
    BY <1>1, <1>3, FlattenHas DEF n
  <2> DEFINE K == {i \in Nat : i + 1 <= n => Joined(f[i + 1], seqs, n)}
  <2>2. 0 \in K
    BY <1>3, <2>1 DEF JoinsTo, Joined, n
  <2>3. ASSUME NEW i \in Nat, i \in K PROVE i + 1 \in K
    <3> SUFFICES ASSUME (i + 1) + 1 <= n PROVE Joined(f[(i + 1) + 1], seqs, n)
      OBVIOUS
    <3> DEFINE j == i + 1
               x == f[j]
               y == seqs[j + 1]
    <3>1. j + 1 \in 2 .. n /\ j + 1 \in 1 .. n /\ (j + 1) - 1 = j /\ Joined(x, seqs, n)
      BY <1>1, <2>3
    <3>2. f[j + 1] = x \o y /\ IsSeq(y)
      BY <2>1, <3>1 DEF JoinsTo, n
    <3> HIDE DEF j, x, K
    <3>3. IsSeq(x) /\ \A e \in Range(x) : \E a \in 1 .. n : e \in Range(seqs[a])
      BY <3>1 DEF Joined
    <3>4. ASSUME NEW e \in Range(x \o y) PROVE e \in Range(x) \/ e \in Range(y)
      <4> HIDE DEF y
      <4>1. /\ DOMAIN (x \o y) = 1 .. (Len(x) + Len(y))
            /\ \A a \in 1 .. Len(x) : (x \o y)[a] = x[a]
            /\ \A a \in 1 .. Len(y) : (x \o y)[Len(x) + a] = y[a]
        BY <3>2, <3>3, ConcatIs
      <4>2. DOMAIN x = 1 .. Len(x) /\ DOMAIN y = 1 .. Len(y) /\ Len(x) \in Nat /\ Len(y) \in Nat
        BY <3>2, <3>3, SeqIs
      <4>3. PICK a \in DOMAIN (x \o y) : e = (x \o y)[a]
        BY DEF Range
      <4>4. CASE a \in 1 .. Len(x)
        BY <4>1, <4>2, <4>3, <4>4 DEF Range
      <4>5. CASE a \notin 1 .. Len(x)
        <5> DEFINE b == a - Len(x)
        <5>1. b \in 1 .. Len(y) /\ Len(x) + b = a
          BY <4>1, <4>2, <4>5
        <5> HIDE DEF b
        <5> QED
          BY <4>1, <4>2, <4>3, <5>1 DEF Range
      <4> QED
        BY <4>4, <4>5
    <3>5. IsSeq(x \o y)
      <4> HIDE DEF y
      <4> QED
        BY <3>2, <3>3, ConcatIs
    <3>6. Joined(x \o y, seqs, n)
      BY <3>1, <3>3, <3>4, <3>5 DEF Joined
    <3> QED
      BY <3>2, <3>6 DEF j
  <2>4. \A i \in Nat : i \in K
    <3> HIDE DEF K
    <3> QED
      BY <2>2, <2>3, BitFold!Induction
  <2>5. n - 1 \in Nat /\ (n - 1) + 1 = n
    BY <1>1, <1>3
  <2>6. Joined(f[n], seqs, n)
    BY <2>4, <2>5
  <2> QED
    BY <2>1, <2>6 DEF n
<1> QED
  BY <1>1, <1>2, <1>3

-----------------------------------------------------------------------------
(* Leaves that lie end to end.                                             *)

\* They fill the bytes from a up to b.
Tiles(ls, a, b) ==
  /\ IsSeq(ls) /\ a \in Nat /\ b \in Nat
  /\ \A i \in 1 .. Len(ls) : ls[i].offset \in Nat /\ ls[i].size \in Nat
  /\ Len(ls) = 0 => a = b
  /\ Len(ls) > 0 => ls[1].offset = a /\ ls[Len(ls)].offset + ls[Len(ls)].size = b
  /\ \A i \in 1 .. (Len(ls) - 1) : ls[i + 1].offset = ls[i].offset + ls[i].size

LEMMA TilesNone == ASSUME NEW ls, IsSeq(ls), Len(ls) = 0, NEW a \in Nat PROVE Tiles(ls, a, a)
BY DEF Tiles

LEMMA TilesJoin ==
  ASSUME NEW x, NEW y, NEW a, NEW b, NEW c, Tiles(x, a, b), Tiles(y, b, c)
  PROVE  Tiles(x \o y, a, c)
<1> DEFINE z == x \o y
           m == Len(x)
           n == Len(y)
<1>1. IsSeq(x) /\ IsSeq(y)
  BY DEF Tiles
<1>2. m \in Nat /\ n \in Nat
  BY <1>1, SeqIs
<1>3. /\ IsSeq(z) /\ Len(z) = m + n
      /\ \A i \in 1 .. m : z[i] = x[i]
      /\ \A i \in 1 .. n : z[m + i] = y[i]
  BY <1>1, ConcatIs
<1>4. /\ a \in Nat /\ b \in Nat /\ c \in Nat
      /\ \A i \in 1 .. m : x[i].offset \in Nat /\ x[i].size \in Nat
      /\ m = 0 => a = b
      /\ m > 0 => x[1].offset = a /\ x[m].offset + x[m].size = b
      /\ \A i \in 1 .. (m - 1) : x[i + 1].offset = x[i].offset + x[i].size
  BY DEF Tiles
<1>5. /\ \A i \in 1 .. n : y[i].offset \in Nat /\ y[i].size \in Nat
      /\ n = 0 => b = c
      /\ n > 0 => y[1].offset = b /\ y[n].offset + y[n].size = c
      /\ \A i \in 1 .. (n - 1) : y[i + 1].offset = y[i].offset + y[i].size
  BY DEF Tiles
<1> HIDE DEF z, m, n
<1>6. ASSUME NEW i \in 1 .. (m + n)
      PROVE  i \in 1 .. m \/ (i - m \in 1 .. n /\ m + (i - m) = i)
  BY <1>2
<1>7. \A i \in 1 .. (m + n) : z[i].offset \in Nat /\ z[i].size \in Nat
  BY <1>3, <1>4, <1>5, <1>6
<1>8. m + n = 0 => a = c
  BY <1>2, <1>4, <1>5
<1>9. ASSUME m + n > 0 PROVE z[1].offset = a /\ z[m + n].offset + z[m + n].size = c
  <2>1. CASE m > 0 /\ n > 0
    <3>1. 1 \in 1 .. m /\ n \in 1 .. n
      BY <1>2, <2>1
    <3> QED
      BY <1>3, <1>4, <1>5, <2>1, <3>1
  <2>2. CASE m = 0 /\ n > 0
    <3>1. 1 \in 1 .. n /\ n \in 1 .. n /\ z[0 + 1] = y[1] /\ z[m + n] = y[n]
      BY <1>2, <1>3, <2>2
    <3> QED
      BY <1>4, <1>5, <2>2, <3>1
  <2>3. CASE m > 0 /\ n = 0
    <3>1. 1 \in 1 .. m /\ m \in 1 .. m /\ m + n = m
      BY <1>2, <2>3
    <3> QED
      BY <1>3, <1>4, <1>5, <2>3, <3>1
  <2> QED
    BY <1>2, <1>9, <2>1, <2>2, <2>3
<1>10. ASSUME NEW i \in 1 .. ((m + n) - 1) PROVE z[i + 1].offset = z[i].offset + z[i].size
  <2>1. CASE i \in 1 .. (m - 1)
    <3>1. i \in 1 .. m /\ i + 1 \in 1 .. m
      BY <1>2, <2>1
    <3> QED
      BY <1>3, <1>4, <2>1, <3>1
  <2>2. CASE i = m
    <3>1. m > 0 /\ n > 0 /\ m \in 1 .. m /\ 1 \in 1 .. n
      BY <1>2, <2>2
    <3> QED
      BY <1>3, <1>4, <1>5, <2>2, <3>1
  <2>3. CASE i > m
    <3> DEFINE k == i - m
    <3>1. k \in 1 .. (n - 1) /\ k \in 1 .. n /\ k + 1 \in 1 .. n /\ i = m + k /\ i + 1 = m + (k + 1)
      BY <1>2, <2>3
    <3> HIDE DEF k
    <3> QED
      BY <1>3, <1>5, <3>1
  <2> QED
    BY <1>2, <2>1, <2>2, <2>3
<1>11. Tiles(z, a, c)
  <2>1. IsSeq(z) /\ Len(z) = m + n /\ a \in Nat /\ c \in Nat
    BY <1>3, <1>4, <1>5
  <2> DEFINE k == m + n
  <2>2. /\ \A i \in 1 .. k : z[i].offset \in Nat /\ z[i].size \in Nat
        /\ k = 0 => a = c
        /\ k > 0 => z[1].offset = a /\ z[k].offset + z[k].size = c
        /\ \A i \in 1 .. (k - 1) : z[i + 1].offset = z[i].offset + z[i].size
    BY <1>7, <1>8, <1>9, <1>10
  <2>3. Len(z) = k
    BY <2>1
  <2> HIDE DEF k
  <2> QED
    BY ONLY <2>1, <2>2, <2>3 DEF Tiles
<1> QED
  BY <1>11 DEF z

\* Leaves at other places, at the same distances.
Moved(ms, ls, by) ==
  /\ IsSeq(ms) /\ Len(ms) = Len(ls)
  /\ \A i \in 1 .. Len(ls) : ms[i].offset = ls[i].offset + by /\ ms[i].size = ls[i].size
LEMMA TilesMoved ==
  ASSUME NEW ls, NEW a, NEW b, Tiles(ls, a, b), NEW by \in Nat, NEW ms, Moved(ms, ls, by)
  PROVE  Tiles(ms, a + by, b + by)
<1> DEFINE n == Len(ls)
<1>1. n \in Nat
  BY SeqIs DEF Tiles
<1>2. /\ a \in Nat /\ b \in Nat
      /\ \A i \in 1 .. n : ls[i].offset \in Nat /\ ls[i].size \in Nat
      /\ n = 0 => a = b
      /\ n > 0 => ls[1].offset = a /\ ls[n].offset + ls[n].size = b
      /\ \A i \in 1 .. (n - 1) : ls[i + 1].offset = ls[i].offset + ls[i].size
  BY DEF Tiles
<1>3. /\ IsSeq(ms) /\ Len(ms) = n
      /\ \A i \in 1 .. n : ms[i].offset = ls[i].offset + by /\ ms[i].size = ls[i].size
  BY DEF Moved
<1> HIDE DEF n
<1>4. ASSUME NEW i \in 1 .. n
      PROVE  /\ ls[i].offset \in Nat /\ ls[i].size \in Nat
             /\ ms[i].offset \in Nat /\ ms[i].size \in Nat
             /\ ms[i].offset = ls[i].offset + by
             /\ ms[i].offset + ms[i].size = (ls[i].offset + ls[i].size) + by
  <2>1. ls[i].offset \in Nat /\ ls[i].size \in Nat
    BY <1>2
  <2>2. ms[i].offset = ls[i].offset + by /\ ms[i].size = ls[i].size
    BY <1>3
  <2> DEFINE u == ls[i].offset
             v == ls[i].size
  <2>3. u \in Nat /\ v \in Nat
    BY <2>1
  <2> HIDE DEF u, v
  <2>4. u + by \in Nat /\ (u + by) + v = (u + v) + by
    BY <2>3
  <2> QED
    BY <2>1, <2>2, <2>4 DEF u, v
<1>5. n = 0 => a + by = b + by
  BY <1>2
<1>6. n > 0 => ms[1].offset = a + by /\ ms[n].offset + ms[n].size = b + by
  <2> SUFFICES ASSUME n > 0 PROVE ms[1].offset = a + by /\ ms[n].offset + ms[n].size = b + by
    OBVIOUS
  <2>1. 1 \in 1 .. n /\ n \in 1 .. n
    BY <1>1
  <2>2. ms[1].offset = ls[1].offset + by
    BY <1>4, <2>1
  <2>3. ms[n].offset + ms[n].size = (ls[n].offset + ls[n].size) + by
    BY <1>4, <2>1
  <2> QED
    BY <1>2, <2>2, <2>3
<1>7. ASSUME NEW i \in 1 .. (n - 1) PROVE ms[i + 1].offset = ms[i].offset + ms[i].size
  <2>1. i \in 1 .. n /\ i + 1 \in 1 .. n
    BY <1>1
  <2>2. ms[i + 1].offset = ls[i + 1].offset + by
    BY <1>4, <2>1
  <2>3. ms[i].offset + ms[i].size = (ls[i].offset + ls[i].size) + by
    BY <1>4, <2>1
  <2> QED
    BY <1>2, <2>2, <2>3
<1>8. a + by \in Nat /\ b + by \in Nat
  BY <1>2
<1> QED
  BY <1>3, <1>4, <1>5, <1>6, <1>7, <1>8 DEF Tiles

LEMMA FlattenTiles ==
  ASSUME NEW seqs, IsSeq(seqs), NEW cut, cut[1] \in Nat,
         \A i \in 1 .. Len(seqs) : Tiles(seqs[i], cut[i], cut[i + 1])
  PROVE  Tiles(FlattenSeq(seqs), cut[1], cut[Len(seqs) + 1])
<1> DEFINE n == Len(seqs)
<1>1. n \in Nat
  BY SeqIs
<1>2. CASE n = 0
  BY <1>2, FlattenNone, TilesNone
<1>3. CASE n >= 1
  <2>0. \A i \in 1 .. n : Tiles(seqs[i], cut[i], cut[i + 1])
    OBVIOUS
  <2> HIDE DEF n
  <2>1. PICK f : JoinsTo(f, seqs, n) /\ FlattenSeq(seqs) = f[n]
    BY <1>1, <1>3, FlattenHas DEF n
  <2> DEFINE K == {i \in Nat : i + 1 <= n => Tiles(f[i + 1], cut[1], cut[(i + 1) + 1])}
  <2>2. 0 \in K
    <3>1. 1 \in 1 .. n
      BY <1>1, <1>3
    <3> QED
      BY <2>0, <2>1, <3>1 DEF JoinsTo
  <2>3. ASSUME NEW i \in Nat, i \in K PROVE i + 1 \in K
    <3> SUFFICES ASSUME (i + 1) + 1 <= n PROVE Tiles(f[(i + 1) + 1], cut[1], cut[((i + 1) + 1) + 1])
      OBVIOUS
    <3> DEFINE j == i + 1
    <3>1. j + 1 \in 2 .. n /\ j + 1 \in 1 .. n /\ (j + 1) - 1 = j /\ Tiles(f[j], cut[1], cut[j + 1])
      BY <1>1, <2>3
    <3>2. f[j + 1] = f[j] \o seqs[j + 1]
      BY <2>1, <3>1 DEF JoinsTo
    <3> HIDE DEF j, K
    <3>3. Tiles(seqs[j + 1], cut[j + 1], cut[(j + 1) + 1])
      BY <2>0, <3>1
    <3>4. Tiles(f[j] \o seqs[j + 1], cut[1], cut[(j + 1) + 1])
      BY <3>1, <3>3, TilesJoin
    <3> QED
      BY <3>2, <3>4 DEF j
  <2>4. \A i \in Nat : i \in K
    <3> HIDE DEF K
    <3> QED
      BY <2>2, <2>3, BitFold!Induction
  <2>5. n - 1 \in Nat /\ (n - 1) + 1 = n
    BY <1>1, <1>3
  <2>6. Tiles(f[n], cut[1], cut[n + 1])
    BY <2>4, <2>5
  <2> QED
    BY <2>1, <2>6 DEF n
<1> QED
  BY <1>1, <1>2, <1>3

\* Some of the leaves, and how far they reach.
LEMMA TilesFirst ==
  ASSUME NEW ls, NEW a, NEW b, Tiles(ls, a, b), NEW i \in 1 .. Len(ls),
         NEW ms, IsSeq(ms), Len(ms) = i - 1, \A k \in 1 .. (i - 1) : ms[k] = ls[k]
  PROVE  Tiles(ms, a, ls[i].offset)
<1> DEFINE n == Len(ls)
<1>1. n \in Nat
  BY SeqIs DEF Tiles
<1>2. /\ a \in Nat /\ b \in Nat
      /\ \A k \in 1 .. n : ls[k].offset \in Nat /\ ls[k].size \in Nat
      /\ n > 0 => ls[1].offset = a
      /\ \A k \in 1 .. (n - 1) : ls[k + 1].offset = ls[k].offset + ls[k].size
  BY DEF Tiles
<1>3. i \in 1 .. n /\ n > 0
  BY <1>1
<1> HIDE DEF n
<1>4. \A k \in 1 .. (i - 1) : ms[k].offset \in Nat /\ ms[k].size \in Nat
  BY <1>1, <1>2, <1>3
<1>5. i - 1 = 0 => a = ls[i].offset
  BY <1>1, <1>2, <1>3
<1>6. i - 1 > 0 => ms[1].offset = a /\ ms[i - 1].offset + ms[i - 1].size = ls[i].offset
  <2> SUFFICES ASSUME i - 1 > 0
               PROVE  ms[1].offset = a /\ ms[i - 1].offset + ms[i - 1].size = ls[i].offset
    OBVIOUS
  <2>1. 1 \in 1 .. (i - 1) /\ i - 1 \in 1 .. (i - 1) /\ i - 1 \in 1 .. (n - 1) /\ (i - 1) + 1 = i
    BY <1>1, <1>3
  <2> QED
    BY <1>2, <1>3, <2>1
<1>7. ASSUME NEW k \in 1 .. ((i - 1) - 1) PROVE ms[k + 1].offset = ms[k].offset + ms[k].size
  <2>1. k \in 1 .. (i - 1) /\ k + 1 \in 1 .. (i - 1) /\ k \in 1 .. (n - 1)
    BY <1>1, <1>3
  <2> QED
    BY <1>2, <2>1
<1>8. ls[i].offset \in Nat
  BY <1>2, <1>3
<1> QED
  BY <1>2, <1>4, <1>5, <1>6, <1>7, <1>8 DEF Tiles

-----------------------------------------------------------------------------
(* What leaves come to.                                                    *)

LeafFold == INSTANCE FoldTheorems WITH Op <- LAMBDA c, sum, l : sum + l.size

SizeOf(ls) == FoldLeft(LAMBDA sum, l : sum + l.size, 0, ls)

LEMMA SizeOfIsFold ==
  ASSUME NEW ls
  PROVE  SizeOf(ls) = LeafFold!Fold(0, 0, ls)
BY DEF SizeOf, FoldLeft, MapThenFoldSet, LeafFold!Fold, LeafFold!Rec, LeafFold!Step, Max, LeafFold!Max

LEMMA TilesSize ==
  ASSUME NEW ls, NEW b, Tiles(ls, 0, b)
  PROVE  SizeOf(ls) = b
<1> DEFINE n == Len(ls)
<1>1. IsSeq(ls)
  BY DEF Tiles
<1>2. n \in Nat /\ DOMAIN ls = 1 .. n
  BY <1>1, SeqIs
<1>3. /\ n = 0 => b = 0
      /\ n > 0 => ls[1].offset = 0 /\ ls[n].offset + ls[n].size = b
      /\ \A i \in 1 .. n : ls[i].offset \in Nat /\ ls[i].size \in Nat
      /\ \A i \in 1 .. (n - 1) : ls[i + 1].offset = ls[i].offset + ls[i].size
  BY DEF Tiles
<1> HIDE DEF n
<1> DEFINE h == [k \in 0 .. n |-> IF k = 0 THEN 0 ELSE ls[k].offset + ls[k].size]
<1>4. h[0] = 0
  BY <1>2
<1>5. ASSUME NEW k \in 1 .. n PROVE h[k] = h[k - 1] + ls[k].size
  <2>1. h[k] = ls[k].offset + ls[k].size
    BY <1>2
  <2>2. CASE k = 1
    <3>1. k - 1 = 0 /\ n > 0 /\ ls[k].offset = 0
      BY <1>2, <1>3, <2>2
    <3> QED
      BY <1>4, <2>1, <3>1
  <2>3. CASE k > 1
    <3>1. k - 1 \in 1 .. (n - 1) /\ (k - 1) + 1 = k /\ k - 1 \in 0 .. n /\ k - 1 # 0
      BY <1>2, <2>3
    <3>2. ls[k].offset = ls[k - 1].offset + ls[k - 1].size
      BY <1>3, <3>1
    <3>3. h[k - 1] = ls[k - 1].offset + ls[k - 1].size
      BY <3>1
    <3> QED
      BY <2>1, <3>2, <3>3
  <2> QED
    BY <2>2, <2>3
<1>6. h[n] = b
  BY <1>2, <1>3
<1> HIDE DEF h
<1>7. LeafFold!FoldsTo(h, 0, 0, ls, n)
  BY <1>4, <1>5 DEF LeafFold!FoldsTo
<1>8. LeafFold!Fold(0, 0, ls) = h[n]
  BY <1>2, <1>7, LeafFold!FoldIs
<1> QED
  BY <1>6, <1>8, SizeOfIsFold

-----------------------------------------------------------------------------
(* Arrays.                                                                 *)

\* Elements of an array of any dimensions follow one another.
Elements(offs, size) == [a \in DOMAIN offs |-> [offset |-> offs[a], size |-> size]]

Stride(offs, size, b) ==
  /\ IsSeq(offs) /\ size \in Nat
  /\ Tiles(Elements(offs, size), 0, b)
  /\ Len(offs) * size = b

LEMMA ElementsAre ==
  ASSUME NEW offs, IsSeq(offs), NEW size
  PROVE  /\ IsSeq(Elements(offs, size)) /\ Len(Elements(offs, size)) = Len(offs)
         /\ \A a \in 1 .. Len(offs) : /\ Elements(offs, size)[a].offset = offs[a]
                                      /\ Elements(offs, size)[a].size = size
<1> DEFINE e == Elements(offs, size)
<1>1. DOMAIN offs = 1 .. Len(offs) /\ Len(offs) \in Nat
  BY SeqIs
<1>2. e = [a \in 1 .. Len(offs) |-> e[a]]
  BY <1>1 DEF Elements
<1>3. \A a \in 1 .. Len(offs) : e[a].offset = offs[a] /\ e[a].size = size
  BY <1>1 DEF Elements
<1> HIDE DEF e
<1>4. IsSeq(e) /\ Len(e) = Len(offs)
  BY <1>1, <1>2, FunctionIsSeq
<1> QED
  BY <1>3, <1>4 DEF e

LEMMA ElementsJoin ==
  ASSUME NEW x, IsSeq(x), NEW y, IsSeq(y), NEW size
  PROVE  Elements(x \o y, size) = Elements(x, size) \o Elements(y, size)
<1> DEFINE z == x \o y
           ex == Elements(x, size)
           ey == Elements(y, size)
           ez == Elements(z, size)
<1>1. /\ IsSeq(z) /\ DOMAIN z = 1 .. (Len(x) + Len(y)) /\ Len(z) = Len(x) + Len(y)
      /\ \A n \in 1 .. Len(x) : z[n] = x[n]
      /\ \A n \in 1 .. Len(y) : z[Len(x) + n] = y[n]
  BY ConcatIs
<1>2. Len(x) \in Nat /\ Len(y) \in Nat /\ DOMAIN x = 1 .. Len(x) /\ DOMAIN y = 1 .. Len(y)
  BY SeqIs
<1>3. IsSeq(ex) /\ Len(ex) = Len(x) /\ IsSeq(ey) /\ Len(ey) = Len(y)
  BY ElementsAre
<1>4. /\ \A n \in 1 .. Len(x) : ex[n] = [offset |-> x[n], size |-> size]
      /\ \A n \in 1 .. Len(y) : ey[n] = [offset |-> y[n], size |-> size]
  BY <1>2 DEF Elements
<1> HIDE DEF z
<1>5. \A n \in 1 .. (Len(x) + Len(y)) : ez[n] = [offset |-> z[n], size |-> size]
  BY <1>1 DEF Elements
<1>6. IsSeq(ez) /\ Len(ez) = Len(z)
  BY <1>1, ElementsAre
<1> HIDE DEF ex, ey, ez
<1>7. /\ IsSeq(ex \o ey) /\ Len(ex \o ey) = Len(ex) + Len(ey)
      /\ DOMAIN (ex \o ey) = 1 .. (Len(ex) + Len(ey))
      /\ \A n \in 1 .. Len(ex) : (ex \o ey)[n] = ex[n]
      /\ \A n \in 1 .. Len(ey) : (ex \o ey)[Len(ex) + n] = ey[n]
  <2>1. IsSeq(ex) /\ IsSeq(ey)
    BY <1>3
  <2> QED
    BY ONLY <2>1, ConcatIs
<1>8. ASSUME NEW n \in 1 .. Len(ez) PROVE ez[n] = (ex \o ey)[n]
  <2>1. CASE n \in 1 .. Len(x)
    BY <1>1, <1>3, <1>4, <1>5, <1>6, <1>7, <2>1
  <2>2. CASE n \notin 1 .. Len(x)
    <3> DEFINE k == n - Len(x)
    <3>1. k \in 1 .. Len(y) /\ n = Len(x) + k
      BY <1>1, <1>2, <1>6, <2>2
    <3> HIDE DEF k
    <3> QED
      BY <1>1, <1>3, <1>4, <1>5, <1>6, <1>7, <3>1
  <2> QED
    BY <2>1, <2>2
<1>9. ez = ex \o ey
  <2> DEFINE e == ex \o ey
  <2>1. IsSeq(ez) /\ IsSeq(e) /\ Len(ez) = Len(e)
    BY <1>1, <1>3, <1>6, <1>7
  <2>2. \A n \in 1 .. Len(ez) : ez[n] = e[n]
    BY <1>8
  <2> HIDE DEF e
  <2>3. ez = e
    BY ONLY <2>1, <2>2, SameSeq
  <2> QED
    BY <2>3 DEF e
<1> QED
  BY <1>9 DEF ex, ey, ez, z

\* An array of arrays.
LEMMA StrideTimes ==
  ASSUME NEW offs, NEW size, NEW b, Stride(offs, size, b), NEW n \in Nat, n >= 1
  PROVE  Stride(FlattenSeq([i \in 1 .. n |->
                  [a \in DOMAIN offs |-> offs[a] + (i - 1) * (Len(offs) * size)]]), size, b * n)
<1> DEFINE part(i) == [a \in DOMAIN offs |-> offs[a] + (i - 1) * (Len(offs) * size)]
           seqs == [i \in 1 .. n |-> part(i)]
           L == Len(offs)
<1>1. /\ IsSeq(offs) /\ size \in Nat /\ L \in Nat /\ DOMAIN offs = 1 .. L
      /\ L * size = b /\ b \in Nat
      /\ Tiles(Elements(offs, size), 0, b)
  <2>1. /\ IsSeq(offs) /\ size \in Nat /\ L * size = b /\ b \in Nat
        /\ Tiles(Elements(offs, size), 0, b)
    BY DEF Stride, Tiles
  <2> QED
    BY <2>1, SeqIs
<1>2. \A a \in 1 .. L : offs[a] \in Nat
  <2>1. \A a \in 1 .. Len(Elements(offs, size)) : Elements(offs, size)[a].offset \in Nat
    BY <1>1 DEF Tiles
  <2> HIDE DEF L
  <2> QED
    BY <1>1, <2>1, ElementsAre DEF L
<1>3. ASSUME NEW i \in Nat, i >= 1
      PROVE  /\ IsSeq(part(i)) /\ Len(part(i)) = L
             /\ Tiles(Elements(part(i), size), (i - 1) * b, i * b)
  <2> DEFINE y == part(i)
             by == (i - 1) * b
  <2>1. by \in Nat /\ b + by = i * b /\ 0 + by = by
    <3>1. i - 1 \in Nat /\ i = (i - 1) + 1
      BY <1>3
    <3>2. ASSUME NEW k \in Nat, NEW w \in Nat PROVE k * w \in Nat /\ w + k * w = (k + 1) * w
      OBVIOUS
    <3>3. by \in Nat /\ b + by = ((i - 1) + 1) * b
      BY <1>1, <3>1, <3>2
    <3> QED
      BY <3>1, <3>3
  <2>2. y = [a \in 1 .. L |-> y[a]] /\ \A a \in 1 .. L : y[a] = offs[a] + by
    BY <1>1
  <2> HIDE DEF y, by
  <2>3. IsSeq(y) /\ Len(y) = L
    BY <1>1, <2>2, FunctionIsSeq
  <2>4. /\ IsSeq(Elements(y, size)) /\ Len(Elements(y, size)) = L
        /\ \A a \in 1 .. L : Elements(y, size)[a].offset = y[a] /\ Elements(y, size)[a].size = size
    BY <2>3, ElementsAre
  <2>5. /\ IsSeq(Elements(offs, size)) /\ Len(Elements(offs, size)) = L
        /\ \A a \in 1 .. L : /\ Elements(offs, size)[a].offset = offs[a]
                             /\ Elements(offs, size)[a].size = size
    BY <1>1, ElementsAre
  <2>6. Moved(Elements(y, size), Elements(offs, size), by)
    BY <2>2, <2>4, <2>5 DEF Moved
  <2>7. Tiles(Elements(y, size), 0 + by, b + by)
    BY <1>1, <2>1, <2>6, TilesMoved
  <2> QED
    BY <2>1, <2>3, <2>7 DEF y, by
<1>4. IsSeq(seqs) /\ Len(seqs) = n /\ \A i \in 1 .. n : seqs[i] = part(i)
  <2>1. seqs = [i \in 1 .. n |-> seqs[i]] /\ \A i \in 1 .. n : seqs[i] = part(i)
    OBVIOUS
  <2> HIDE DEF seqs, part
  <2> QED
    BY <2>1, FunctionIsSeq
<1> HIDE DEF seqs, part, L
<1>5. PICK f : JoinsTo(f, seqs, n) /\ FlattenSeq(seqs) = f[n]
  BY <1>4, FlattenHas
<1> DEFINE Good(i) == /\ IsSeq(f[i]) /\ Len(f[i]) = i * L
                      /\ Tiles(Elements(f[i], size), 0, i * b)
           K == {i \in Nat : i + 1 <= n => Good(i + 1)}
<1>6. 0 \in K
  <2>1. f[1] = part(1) /\ 1 * L = L /\ 1 * b = b /\ (1 - 1) * b = 0
    BY <1>1, <1>4, <1>5 DEF JoinsTo
  <2>2. IsSeq(part(1)) /\ Len(part(1)) = L /\ Tiles(Elements(part(1), size), (1 - 1) * b, 1 * b)
    BY <1>3
  <2>3. Good(1)
    BY <2>1, <2>2
  <2> QED
    BY <2>3
<1>7. ASSUME NEW i \in Nat, i \in K PROVE i + 1 \in K
  <2> SUFFICES ASSUME (i + 1) + 1 <= n PROVE Good((i + 1) + 1)
    OBVIOUS
  <2> DEFINE j == i + 1
             x == f[j]
             y == part(j + 1)
  <2>1. /\ j \in Nat /\ j + 1 \in Nat /\ j + 1 >= 1 /\ j + 1 \in 2 .. n /\ j + 1 \in 1 .. n
        /\ (j + 1) - 1 = j /\ Good(j)
    BY <1>7
  <2> HIDE DEF j, K
  <2>2. f[j + 1] = x \o y
    BY <1>4, <1>5, <2>1 DEF JoinsTo
  <2>3. IsSeq(y) /\ Len(y) = L /\ Tiles(Elements(y, size), j * b, (j + 1) * b)
    BY <1>3, <2>1
  <2>4. IsSeq(x) /\ Len(x) = j * L /\ Tiles(Elements(x, size), 0, j * b)
    BY <2>1
  <2> HIDE DEF x, y, Good
  <2>5. IsSeq(x \o y) /\ Len(x \o y) = Len(x) + Len(y)
    BY <2>3, <2>4, ConcatIs
  <2>6. Elements(x \o y, size) = Elements(x, size) \o Elements(y, size)
    BY <2>3, <2>4, ElementsJoin
  <2>7. Tiles(Elements(x, size) \o Elements(y, size), 0, (j + 1) * b)
    BY <2>3, <2>4, TilesJoin
  <2>8. j * L + L = (j + 1) * L
    BY <1>1, <2>1
  <2>9. Good(j + 1)
    BY <2>2, <2>3, <2>4, <2>5, <2>6, <2>7, <2>8 DEF Good
  <2> QED
    BY <2>9 DEF j
<1>8. \A i \in Nat : i \in K
  <2> HIDE DEF K
  <2> QED
    BY <1>6, <1>7, BitFold!Induction
<1>9. n - 1 \in Nat /\ (n - 1) + 1 = n
  OBVIOUS
<1>10. Good(n)
  BY <1>8, <1>9
<1>11. (n * L) * size = b * n /\ n * b = b * n
  <2>1. (n * L) * size = n * (L * size)
    BY <1>1
  <2>2. n * b = b * n
    BY <1>1
  <2> QED
    BY <1>1, <2>1, <2>2
<1>12. Stride(f[n], size, b * n)
  BY <1>1, <1>10, <1>11 DEF Stride
<1> QED
  BY <1>5, <1>12 DEF seqs, part

OffsetFold == INSTANCE FoldTheorems WITH
  Op <- LAMBDA size, offs, n :
          FlattenSeq([i \in 1 .. n |->
            [a \in DOMAIN offs |-> offs[a] + (i - 1) * (Len(offs) * size)]])

LEMMA OffsetsIsFold ==
  ASSUME NEW size, NEW lens
  PROVE  ArrayOffsets(size, lens) = OffsetFold!Fold(size, <<0>>, lens)
BY DEF ArrayOffsets, FoldLeft, MapThenFoldSet, OffsetFold!Fold, OffsetFold!Rec,
       OffsetFold!Step, Max, OffsetFold!Max

LEMMA OffsetsAre ==
  ASSUME NEW size \in Nat, NEW lens \in Seq(Int), \A i \in DOMAIN lens : lens[i] >= 1
  PROVE  Stride(ArrayOffsets(size, lens), size, ArraySize(size, lens))
<1> DEFINE n == Len(lens)
<1>1. n \in Nat /\ DOMAIN lens = 1 .. n /\ \A i \in 1 .. n : lens[i] \in Nat /\ lens[i] >= 1
  <2>1. n \in Nat /\ DOMAIN lens = 1 .. n /\ \A i \in 1 .. n : lens[i] \in Int
    BY LenProperties, ElementOfSeq
  <2> QED
    BY <2>1
<1> HIDE DEF n
<1>2. PICK h : OffsetFold!FoldsTo(h, size, <<0>>, lens, n) /\ ArrayOffsets(size, lens) = h[n]
  BY <1>1, OffsetsIsFold, OffsetFold!FoldHas
<1>3. PICK w : ArraySizeFold!FoldsTo(w, 0, size, lens, n) /\ ArraySize(size, lens) = w[n]
  BY <1>1, ArraySizeIsFold, ArraySizeFold!FoldHas
<1> DEFINE K == {k \in Nat : k <= n => Stride(h[k], size, w[k])}
<1>4. 0 \in K
  <2>1. h[0] = <<0>> /\ w[0] = size
    BY <1>2, <1>3 DEF OffsetFold!FoldsTo, ArraySizeFold!FoldsTo
  <2> DEFINE e == Elements(<<0>>, size)
  <2>2. IsSeq(<<0>>) /\ Len(<<0>>) = 1
    BY DEF IsSeq, Range
  <2>3. IsSeq(e) /\ Len(e) = 1 /\ e[1].offset = 0 /\ e[1].size = size
    <3>1. /\ IsSeq(e) /\ Len(e) = Len(<<0>>)
          /\ \A a \in 1 .. Len(<<0>>) : e[a].offset = <<0>>[a] /\ e[a].size = size
      BY <2>2, ElementsAre
    <3> HIDE DEF e
    <3> QED
      BY <2>2, <3>1
  <2> HIDE DEF e
  <2>4. Tiles(e, 0, size)
    BY <2>3 DEF Tiles
  <2>5. Stride(<<0>>, size, size)
    BY <2>2, <2>4 DEF Stride, e
  <2> QED
    BY <2>1, <2>5
<1>5. ASSUME NEW k \in Nat, k \in K PROVE k + 1 \in K
  <2> SUFFICES ASSUME k + 1 <= n PROVE Stride(h[k + 1], size, w[k + 1])
    OBVIOUS
  <2>1. k + 1 \in 1 .. n /\ (k + 1) - 1 = k /\ Stride(h[k], size, w[k])
    BY <1>1, <1>5
  <2> DEFINE offs == h[k]
             m == lens[k + 1]
             more == FlattenSeq([i \in 1 .. m |->
                       [a \in DOMAIN offs |-> offs[a] + (i - 1) * (Len(offs) * size)]])
  <2>2. h[k + 1] = more
    BY <1>2, <2>1 DEF OffsetFold!FoldsTo
  <2>3. w[k + 1] = w[k] * m
    BY <1>3, <2>1 DEF ArraySizeFold!FoldsTo
  <2>4. m \in Nat /\ m >= 1 /\ Stride(offs, size, w[k])
    BY <1>1, <2>1
  <2> HIDE DEF offs, m
  <2>5. Stride(more, size, w[k] * m)
    BY ONLY <2>4, StrideTimes
  <2> HIDE DEF more
  <2> QED
    BY <2>2, <2>3, <2>5
<1>6. \A k \in Nat : k \in K
  <2> HIDE DEF K
  <2> QED
    BY <1>4, <1>5, BitFold!Induction
<1> QED
  BY <1>1, <1>2, <1>3, <1>6

-----------------------------------------------------------------------------
(* The leaves of a field, given those of its type.                         *)

IsLeaf(l) ==
  /\ l = [offset |-> l.offset, size |-> l.size, enum |-> l.enum, header |-> l.header,
          frames |-> l.frames]
  /\ l.enum \in BOOLEAN /\ l.header \in {"none", "own", "user"} /\ IsSeq(l.frames)

\* A header that a message fills in lies within that message, and is no enum.
LeafOK(l) == IsLeaf(l) /\ (l.header = "own" => Len(l.frames) >= 1 /\ ~l.enum)

\* What is known of the leaves of the n-th type.
Laid(ls, types, n) ==
  /\ Tiles(ls, 0, Sizes(types)[n])
  /\ \A l \in Range(ls) : LeafOK(l) /\ (n <= NumBuiltins => ~l.enum)

At(l, at, role) ==
  [l EXCEPT !.offset = @ + at, !.header = role,
            !.frames = MovedFrames(@, at)]

LEMMA AtIs ==
  ASSUME NEW l, IsLeaf(l), NEW at, NEW role \in {"none", "own", "user"}
  PROVE  /\ IsLeaf(At(l, at, role))
         /\ At(l, at, role).offset = l.offset + at /\ At(l, at, role).size = l.size
         /\ At(l, at, role).enum = l.enum /\ At(l, at, role).header = role
         /\ Len(At(l, at, role).frames) = Len(l.frames)
<1> DEFINE frames == MovedFrames(l.frames, at)
           m == At(l, at, role)
<1>1. m = [offset |-> l.offset + at, size |-> l.size, enum |-> l.enum, header |-> role,
           frames |-> frames]
  <2> DEFINE o == l.offset
             s == l.size
             e == l.enum
             h == l.header
             f == l.frames
  <2>1. l = [offset |-> o, size |-> s, enum |-> e, header |-> h, frames |-> f]
    BY DEF IsLeaf
  <2>2. frames = MovedFrames(f, at)
    OBVIOUS
  <2> HIDE DEF o, s, e, h, f, frames
  <2>3. m = [offset |-> o + at, size |-> s, enum |-> e, header |-> role, frames |-> frames]
    <3> DEFINE l1 == [l EXCEPT !.offset = o + at]
               l2 == [l1 EXCEPT !.header = role]
    <3>1. l.offset = o /\ l.frames = f
      BY <2>1
    <3>2. m = [l2 EXCEPT !.frames = frames]
      BY <2>2, <3>1 DEF At, m
    <3>3. l1 = [offset |-> o + at, size |-> s, enum |-> e, header |-> h, frames |-> f]
      BY ONLY <2>1
    <3> HIDE DEF l1
    <3>4. l2 = [offset |-> o + at, size |-> s, enum |-> e, header |-> role, frames |-> f]
      BY ONLY <3>3
    <3> HIDE DEF l2
    <3> QED
      BY ONLY <3>2, <3>4
  <2> QED
    BY <2>3 DEF o, s, e
<1>2. DOMAIN l.frames = 1 .. Len(l.frames) /\ Len(l.frames) \in Nat
  BY SeqIs DEF IsLeaf
<1>3. frames = [i \in 1 .. Len(l.frames) |-> frames[i]]
  BY <1>2 DEF MovedFrames
<1> HIDE DEF frames, m
<1>4. IsSeq(frames) /\ Len(frames) = Len(l.frames)
  BY <1>2, <1>3, FunctionIsSeq
<1>5. l.enum \in BOOLEAN
  BY DEF IsLeaf
<1>6. /\ IsLeaf(m) /\ m.offset = l.offset + at /\ m.size = l.size
      /\ m.enum = l.enum /\ m.header = role /\ Len(m.frames) = Len(l.frames)
  BY <1>1, <1>4, <1>5 DEF IsLeaf
<1> QED
  BY <1>6 DEF m

\* A leaf of field k of t, which lies in a message if t is one.
FieldLeafOK(l, t) ==
  IsLeaf(l) /\ (l.header = "own" => ~l.enum /\ (t.kind # "Message" => Len(l.frames) >= 1))

LEMMA RoleIs ==
  ASSUME NEW types, NEW N, AllReady(types, N), NEW n \in 1 .. N, HasMembers(types[n]),
         NEW k \in 1 .. Len(types[n].fields),
         NEW l, LeafOK(l), types[n].fields[k].type.index <= NumBuiltins => ~l.enum, NEW at
  PROVE  FieldLeafOK(At(l, at, HeaderRole(types, types[n], k, l.header)), types[n])
<1> DEFINE t == types[n]
           role == HeaderRole(types, t, k, l.header)
           f == t.fields[k]
<1>1. /\ role \in {"none", "own", "user"}
      /\ role = "own" => \/ l.header = "own"
                         \/ types[f.type.index].name = "SsHeader" /\ t.kind = "Message"
  BY DEF HeaderRole, LeafOK, IsLeaf
<1>2. types[f.type.index].name = "SsHeader" => f.type.index <= NumBuiltins
  <2>1. n \in Nat /\ N \in Nat /\ ReadyType(types[n], n)
    BY DEF AllReady
  <2>2. f.type.index \in 1 .. (n - 1)
    BY <2>1 DEF ReadyType
  <2>3. f.type.index \in 1 .. N
    BY <2>1, <2>2
  <2>4. ReadyType(types[f.type.index], f.type.index)
    BY <2>3 DEF AllReady
  <2> DEFINE u == types[f.type.index]
             j == f.type.index
  <2>5. NumBuiltins \in Nat
    BY BuiltinsAre
  <2> HIDE DEF u, j
  <2>6. u.name = "SsHeader" => j <= NumBuiltins
    <3>1. ReadyType(u, j)
      BY <2>4 DEF u, j
    <3>2. j # NumBuiltins => u.name # "SsHeader"
      BY ONLY <3>1 DEF ReadyType
    <3> QED
      BY <2>5, <3>2
  <2> QED
    BY <2>6 DEF u, j
<1> HIDE DEF t, role, f
<1>3. IsLeaf(l) /\ (l.header = "own" => Len(l.frames) >= 1 /\ ~l.enum)
  BY DEF LeafOK
<1>4. /\ IsLeaf(At(l, at, role))
      /\ At(l, at, role).offset = l.offset + at /\ At(l, at, role).size = l.size
      /\ At(l, at, role).enum = l.enum /\ At(l, at, role).header = role
      /\ Len(At(l, at, role).frames) = Len(l.frames)
  BY <1>1, <1>3, AtIs
<1>5. role = "own" => ~l.enum /\ (t.kind # "Message" => Len(l.frames) >= 1)
  BY <1>1, <1>2, <1>3 DEF f, t
<1>6. FieldLeafOK(At(l, at, role), t)
  BY <1>4, <1>5 DEF FieldLeafOK
<1> QED
  BY <1>6 DEF role, t

\* The leaves of the elements of an array.
LEMMA ArrayLeavesTile ==
  ASSUME NEW sub, NEW size, Tiles(sub, 0, size),
         NEW lens \in Seq(Int), \A l \in DOMAIN lens : lens[l] >= 1, NEW base \in Nat,
         NEW seqs, IsSeq(seqs), Len(seqs) = Len(ArrayOffsets(size, lens)),
         \A a \in 1 .. Len(seqs) : Moved(seqs[a], sub, base + ArrayOffsets(size, lens)[a])
  PROVE  Tiles(FlattenSeq(seqs), base, base + ArraySize(size, lens))
<1> DEFINE offs == ArrayOffsets(size, lens)
           total == ArraySize(size, lens)
           L == Len(offs)
           es == Elements(offs, size)
<1>1. size \in Nat
  BY DEF Tiles
<1>2. Stride(offs, size, total)
  BY <1>1, OffsetsAre
<1>3. Len(seqs) = L /\ \A a \in 1 .. L : Moved(seqs[a], sub, base + offs[a])
  OBVIOUS
<1> HIDE DEF offs, total
<1>4. /\ IsSeq(offs) /\ L \in Nat /\ DOMAIN offs = 1 .. L
      /\ Tiles(es, 0, total) /\ Len(es) = L
      /\ \A a \in 1 .. L : es[a].offset = offs[a] /\ es[a].size = size
  <2>1. IsSeq(offs) /\ Tiles(es, 0, total)
    BY <1>2 DEF Stride
  <2>2. L \in Nat /\ DOMAIN offs = 1 .. L
    BY <2>1, SeqIs
  <2>3. /\ IsSeq(Elements(offs, size)) /\ Len(Elements(offs, size)) = Len(offs)
        /\ \A a \in 1 .. Len(offs) : /\ Elements(offs, size)[a].offset = offs[a]
                                     /\ Elements(offs, size)[a].size = size
    BY <2>1, ElementsAre
  <2> QED
    BY <2>1, <2>2, <2>3
<1> HIDE DEF es, L
<1>5. /\ total \in Nat
      /\ \A a \in 1 .. L : offs[a] \in Nat
      /\ L = 0 => total = 0
      /\ L > 0 => offs[1] = 0 /\ offs[L] + size = total
      /\ \A a \in 1 .. (L - 1) : offs[a + 1] = offs[a] + size
  <2>1. /\ total \in Nat
        /\ \A a \in 1 .. L : es[a].offset \in Nat
        /\ L = 0 => 0 = total
        /\ L > 0 => es[1].offset = 0 /\ es[L].offset + es[L].size = total
        /\ \A a \in 1 .. (L - 1) : es[a + 1].offset = es[a].offset + es[a].size
    BY <1>4 DEF Tiles
  <2>2. L > 0 => 1 \in 1 .. L /\ L \in 1 .. L
    BY <1>4
  <2>3. \A a \in 1 .. (L - 1) : a \in 1 .. L /\ a + 1 \in 1 .. L
    BY <1>4
  <2>4. \A a \in 1 .. L : es[a].offset = offs[a] /\ es[a].size = size
    BY <1>4
  <2> QED
    BY <2>1, <2>2, <2>3, <2>4
<1> DEFINE cut == [a \in 1 .. (L + 1) |-> IF a = L + 1 THEN base + total ELSE base + offs[a]]
<1>6. ASSUME NEW a \in 1 .. L PROVE Tiles(seqs[a], cut[a], cut[a + 1])
  <2> DEFINE by == base + offs[a]
             x == seqs[a]
  <2>1. by \in Nat
    BY <1>5
  <2>2. Moved(x, sub, by)
    BY <1>3
  <2> HIDE DEF by, x
  <2>3. Tiles(x, 0 + by, size + by)
    BY <2>1, <2>2, TilesMoved
  <2>4. cut[a] = by
    BY <1>4 DEF by
  <2>5. cut[a + 1] = size + by
    <3>1. CASE a = L
      BY <1>1, <1>4, <1>5, <3>1 DEF by
    <3>2. CASE a # L
      <4>1. a \in 1 .. (L - 1) /\ a + 1 \in 1 .. L /\ a + 1 # L + 1
        BY <1>4, <3>2
      <4>2. offs[a + 1] = offs[a] + size /\ offs[a] \in Nat
        BY <1>5, <4>1
      <4>3. cut[a + 1] = base + offs[a + 1]
        BY <1>4, <4>1
      <4> QED
        BY <1>1, <4>2, <4>3 DEF by
    <3> QED
      BY <3>1, <3>2
  <2>6. 0 + by = by
    BY <2>1
  <2> HIDE DEF cut
  <2> QED
    BY <2>3, <2>4, <2>5, <2>6 DEF x
<1>7. cut[1] = base /\ cut[L + 1] = base + total
  <2>1. CASE L = 0
    BY <1>5, <2>1
  <2>2. CASE L > 0
    BY <1>4, <1>5, <2>2
  <2> QED
    BY <1>4, <2>1, <2>2
<1> HIDE DEF cut
<1>8. cut[1] \in Nat /\ \A a \in 1 .. Len(seqs) : Tiles(seqs[a], cut[a], cut[a + 1])
  BY <1>3, <1>6, <1>7
<1>9. Tiles(FlattenSeq(seqs), cut[1], cut[Len(seqs) + 1])
  BY <1>8, FlattenTiles
<1> QED
  BY <1>3, <1>7, <1>9 DEF total

LEMMA FieldLeavesAre ==
  ASSUME NEW types, NEW N, AllReady(types, N), NEW n \in 1 .. N, HasMembers(types[n]),
         NEW k \in 1 .. Len(types[n].fields), NEW base \in Nat,
         NEW before, \A m \in 1 .. (n - 1) : Laid(before[m], types, m)
  PROVE  LET f == types[n].fields[k]
             ls == FieldLeaves(types, types[n], k, base, before)
         IN  /\ Tiles(ls, base, base + ArraySize(Sizes(types)[f.type.index], f.lens))
             /\ \A l \in Range(ls) : FieldLeafOK(l, types[n]) /\ (n <= NumBuiltins => ~l.enum)
<1> DEFINE t == types[n]
           f == t.fields[k]
           idx == f.type.index
           lens == f.lens
           size == Sizes(types)[idx]
           sub == before[idx]
           offs == ArrayOffsets(size, lens)
           role(l) == HeaderRole(types, t, k, l.header)
           part(a) == [i \in DOMAIN sub |-> At(sub[i], base + offs[a], role(sub[i]))]
           seqs == [a \in DOMAIN offs |-> part(a)]
           ls == FieldLeaves(types, t, k, base, before)
<1>1. ls = FlattenSeq(seqs)
  BY DEF FieldLeaves, At
<1>2. /\ n \in Nat /\ N \in Nat
      /\ idx \in 1 .. (n - 1) /\ lens \in Seq(Int) /\ \A l \in DOMAIN lens : lens[l] >= 1
  <2>1. n \in Nat /\ N \in Nat /\ ReadyType(t, n)
    BY DEF AllReady
  <2> QED
    BY <2>1 DEF ReadyType
<1> HIDE DEF ls, seqs, role, offs
<1>3. Laid(sub, types, idx)
  BY <1>2
<1>4. /\ Tiles(sub, 0, size) /\ IsSeq(sub) /\ size \in Nat
      /\ \A l \in Range(sub) : LeafOK(l) /\ (idx <= NumBuiltins => ~l.enum)
  <2> HIDE DEF sub, idx, t, f
  <2>1. Tiles(sub, 0, size) /\ \A l \in Range(sub) : LeafOK(l) /\ (idx <= NumBuiltins => ~l.enum)
    BY <1>3 DEF Laid
  <2> HIDE DEF size
  <2> QED
    BY <2>1 DEF Tiles
<1> HIDE DEF idx, lens, size, sub
<1> DEFINE L == Len(offs)
           S == Len(sub)
<1>6. IsSeq(offs) /\ L \in Nat /\ DOMAIN offs = 1 .. L
  <2>1. Stride(offs, size, ArraySize(size, lens))
    BY <1>2, <1>4, OffsetsAre DEF offs
  <2>2. IsSeq(offs)
    BY <2>1 DEF Stride
  <2> QED
    BY <2>2, SeqIs
<1>7. S \in Nat /\ DOMAIN sub = 1 .. S /\ \A i \in 1 .. S : sub[i] \in Range(sub)
  BY <1>4, SeqIs DEF Range
<1> HIDE DEF L, S
<1>8. IsSeq(seqs) /\ Len(seqs) = L /\ \A a \in 1 .. L : seqs[a] = part(a)
  <2>1. seqs = [a \in 1 .. L |-> seqs[a]] /\ \A a \in 1 .. L : seqs[a] = part(a)
    BY <1>6 DEF seqs
  <2> HIDE DEF part
  <2> QED
    BY <1>6, <2>1, FunctionIsSeq
<1>9. ASSUME NEW a
      PROVE  IsSeq(part(a)) /\ Len(part(a)) = S
             /\ \A i \in 1 .. S : part(a)[i] = At(sub[i], base + offs[a], role(sub[i]))
  <2> DEFINE x == part(a)
  <2>1. /\ x = [i \in 1 .. S |-> x[i]]
        /\ \A i \in 1 .. S : x[i] = At(sub[i], base + offs[a], role(sub[i]))
    BY <1>7
  <2> HIDE DEF x
  <2>2. IsSeq(x) /\ Len(x) = S
    BY <1>7, <2>1, FunctionIsSeq
  <2> QED
    BY <2>1, <2>2 DEF x
<1> HIDE DEF part
<1>10. ASSUME NEW a, NEW i \in 1 .. S
       PROVE  /\ FieldLeafOK(part(a)[i], t) /\ (n <= NumBuiltins => ~part(a)[i].enum)
              /\ part(a)[i].offset = sub[i].offset + (base + offs[a])
              /\ part(a)[i].size = sub[i].size
  <2> DEFINE l == sub[i]
             at == base + offs[a]
             m == At(l, at, role(l))
  <2>1. LeafOK(l) /\ (idx <= NumBuiltins => ~l.enum)
    BY <1>4, <1>7
  <2>2. part(a)[i] = m
    BY <1>9
  <2> HIDE DEF l, at
  <2>3. FieldLeafOK(At(l, at, HeaderRole(types, types[n], k, l.header)), types[n])
    <3>1. types[n].fields[k].type.index <= NumBuiltins => ~l.enum
      BY <2>1 DEF idx
    <3> HIDE DEF m, t, f
    <3> QED
      BY <2>1, <3>1, RoleIs
  <2>4. role(l) \in {"none", "own", "user"} /\ IsLeaf(l)
    BY <2>1 DEF HeaderRole, LeafOK, IsLeaf, role
  <2>5. m.offset = l.offset + at /\ m.size = l.size /\ m.enum = l.enum
    <3> DEFINE r == role(l)
    <3> HIDE DEF r
    <3>1. /\ IsLeaf(At(l, at, r))
          /\ At(l, at, r).offset = l.offset + at /\ At(l, at, r).size = l.size
          /\ At(l, at, r).enum = l.enum /\ At(l, at, r).header = r
          /\ Len(At(l, at, r).frames) = Len(l.frames)
      BY <2>4, AtIs DEF r
    <3> QED
      BY <3>1 DEF r
  <2>6. n <= NumBuiltins => ~l.enum
    <3>1. NumBuiltins \in Nat
      BY BuiltinsAre
    <3> HIDE DEF m
    <3> QED
      BY <1>2, <2>1, <3>1
  <2> HIDE DEF m
  <2>7. FieldLeafOK(m, t)
    BY <2>3 DEF m, role
  <2> QED
    BY <2>2, <2>5, <2>6, <2>7 DEF l, at
<1> HIDE DEF t, f
<1>11. Tiles(ls, base, base + ArraySize(size, lens))
  <2>1. ASSUME NEW a \in 1 .. Len(seqs) PROVE Moved(seqs[a], sub, base + ArrayOffsets(size, lens)[a])
    <3>1. seqs[a] = part(a) /\ Len(sub) = S
      BY <1>8, <2>1 DEF S
    <3>2. Moved(part(a), sub, base + offs[a])
      BY <1>9, <1>10, <3>1 DEF Moved
    <3> QED
      BY <3>1, <3>2 DEF offs
  <2>2. Len(seqs) = Len(ArrayOffsets(size, lens))
    BY <1>8 DEF L, offs
  <2>3. Tiles(FlattenSeq(seqs), base, base + ArraySize(size, lens))
    BY <1>2, <1>4, <1>8, <2>1, <2>2, ArrayLeavesTile
  <2> QED
    BY <1>1, <2>3
<1>12. ASSUME NEW l \in Range(ls)
       PROVE  FieldLeafOK(l, t) /\ (n <= NumBuiltins => ~l.enum)
  <2>1. \A a \in 1 .. Len(seqs) : IsSeq(seqs[a])
    BY <1>8, <1>9
  <2>2. Joined(FlattenSeq(seqs), seqs, Len(seqs))
    BY <1>8, <2>1, FlattenRange
  <2>3. PICK a \in 1 .. L : l \in Range(part(a))
    BY <1>1, <1>8, <2>2 DEF Joined
  <2>4. PICK i \in 1 .. S : l = part(a)[i]
    <3>1. DOMAIN part(a) = 1 .. S
      BY <1>9, SeqIs
    <3> QED
      BY <2>3, <3>1 DEF Range
  <2> QED
    BY <1>10, <2>4
<1> QED
  BY <1>11, <1>12 DEF t, f, idx, lens, size, ls

\* What the first fields of a structure come to is where the next one lies.
LEMMA SubSeqIs ==
  ASSUME NEW s, IsSeq(s), NEW k \in 0 .. Len(s)
  PROVE  /\ IsSeq(SubSeq(s, 1, k)) /\ Len(SubSeq(s, 1, k)) = k /\ DOMAIN SubSeq(s, 1, k) = 1 .. k
         /\ \A i \in 1 .. k : SubSeq(s, 1, k)[i] = s[i]
<1> DEFINE p == SubSeq(s, 1, k)
<1>1. Len(s) \in Nat /\ s \in Seq(Range(s)) /\ k \in Nat /\ k <= Len(s)
  <2>1. Len(s) \in Nat
    BY SeqIs
  <2> QED
    BY <2>1 DEF IsSeq
<1>2. p = [i \in 1 .. k |-> p[i]] /\ \A i \in 1 .. k : p[i] = s[i]
  BY <1>1
<1> HIDE DEF p
<1>3. IsSeq(p) /\ Len(p) = k /\ DOMAIN p = 1 .. k
  BY <1>1, <1>2, FunctionIsSeq
<1> QED
  BY <1>2, <1>3 DEF p

LEMMA ReadySizes ==
  ASSUME NEW types, NEW N, AllReady(types, N), NEW n \in 1 .. N
  PROVE  Sizes(types)[n] = TypeSize(types[n], Sizes(types))
<1>1. N \in Nat /\ DOMAIN types = 1 .. N
  BY DEF AllReady
<1>2. FoundFirst(types)
  <2>1. ASSUME NEW m \in 1 .. N PROVE FieldsBack(types[m], m)
    <3> DEFINE u == types[m]
    <3>1. ReadyType(u, m)
      BY DEF AllReady
    <3> HIDE DEF u
    <3>2. IsSeq(u.fields)
      BY <3>1 DEF ReadyType
    <3>3. Len(u.fields) \in Nat /\ DOMAIN u.fields = 1 .. Len(u.fields)
      BY <3>2, SeqIs
    <3>4. HasMembers(u) => \A i \in DOMAIN u.fields : u.fields[i].type.index \in 1 .. (m - 1)
      BY <3>1, <3>3 DEF ReadyType
    <3>5. FieldsBack(u, m)
      BY <3>3, <3>4 DEF FieldsBack
    <3> QED
      BY <3>5 DEF u
  <2> QED
    BY <1>1, <2>1 DEF FoundFirst
<1> QED
  BY <1>1, <1>2, SizesAre

\* How far the fields of a structure reach.
Reaches(h, types, t, l) == MembersFold!FoldsTo(h, Sizes(types), 0, t.fields, l)

LEMMA FieldOffsetsAre ==
  ASSUME NEW types, NEW N, AllReady(types, N), NEW n \in 1 .. N, HasMembers(types[n])
  PROVE  \E h : /\ Reaches(h, types, types[n], Len(types[n].fields))
                /\ \A k \in 1 .. Len(types[n].fields) : FieldOffset(types, types[n], k) = h[k - 1]
                /\ h[Len(types[n].fields)] = Sizes(types)[n]
<1> DEFINE t == types[n]
           l == Len(t.fields)
           sizes == Sizes(types)
<1>1. /\ n \in Nat /\ N \in Nat /\ DOMAIN types = 1 .. N
      /\ t = TypeObj(t.name, t.kind, t.fields) /\ IsSeq(t.fields)
  BY DEF AllReady, ReadyType
<1>2. l \in Nat /\ DOMAIN t.fields = 1 .. l
  BY <1>1, SeqIs
<1>4. sizes[n] = TypeSize(t, sizes)
  BY ReadySizes
<1>5. HasMembers(t)
  OBVIOUS
<1> HIDE DEF t, l, sizes
<1>6. TypeSize(t, sizes) = MembersSize(sizes, t.fields)
  BY <1>5 DEF TypeSize, HasMembers
<1>7. PICK h : /\ DOMAIN h = 0 .. l
               /\ MembersFold!FoldsTo(h, sizes, 0, t.fields, l)
               /\ MembersFold!Fold(sizes, 0, t.fields) = h[l]
  BY <1>2, MembersFold!FoldHas
<1>8. h[l] = sizes[n]
  BY <1>4, <1>6, <1>7, MembersIsFold
<1>9. ASSUME NEW k \in 1 .. l PROVE FieldOffset(types, t, k) = h[k - 1]
  <2> DEFINE p == SubSeq(t.fields, 1, k - 1)
             u == TypeObj(t.name, t.kind, p)
  <2>1. k - 1 \in 0 .. Len(t.fields) /\ k - 1 \in Nat /\ k - 1 <= l
    BY <1>2 DEF l
  <2>2. DOMAIN p = 1 .. (k - 1) /\ \A i \in 1 .. (k - 1) : p[i] = t.fields[i]
    BY <1>1, <2>1, SubSeqIs
  <2>3. FieldOffset(types, t, k) = TypeSize([t EXCEPT !.fields = p], sizes)
    BY DEF FieldOffset, sizes
  <2> HIDE DEF p
  <2>4. [t EXCEPT !.fields = p] = u
    BY <1>1, FieldsReplaced
  <2>5. u.kind = t.kind /\ u.fields = p
    BY DEF TypeObj
  <2> HIDE DEF u
  <2>6. TypeSize(u, sizes) = MembersSize(sizes, p)
    BY <1>5, <2>5 DEF TypeSize, HasMembers
  <2>7. MembersFold!FoldsTo(h, sizes, 0, p, k - 1)
    <3>1. ASSUME NEW i \in 1 .. (k - 1)
          PROVE  h[i] = h[i - 1] + ArraySize(sizes[p[i].type.index], p[i].lens)
      <4>1. i \in 1 .. l /\ p[i] = t.fields[i]
        BY <1>2, <2>1, <2>2
      <4> QED
        BY <1>7, <4>1 DEF MembersFold!FoldsTo
    <3> QED
      BY <1>7, <3>1 DEF MembersFold!FoldsTo
  <2>8. MembersFold!Fold(sizes, 0, p) = h[k - 1]
    BY <2>1, <2>2, <2>7, MembersFold!FoldIs
  <2> QED
    BY <2>3, <2>4, <2>6, <2>8, MembersIsFold
<1> QED
  BY <1>7, <1>8, <1>9 DEF Reaches, t, l, sizes

\* A leaf seen from the message around it.
Enter(l, n) == [l EXCEPT !.frames = <<[at |-> 0, type |-> n]>> \o @]

LEMMA EnterIs ==
  ASSUME NEW l, IsLeaf(l), NEW n
  PROVE  /\ IsLeaf(Enter(l, n))
         /\ Enter(l, n).offset = l.offset /\ Enter(l, n).size = l.size
         /\ Enter(l, n).enum = l.enum /\ Enter(l, n).header = l.header
         /\ Len(Enter(l, n).frames) >= 1
         /\ Enter(l, n).frames[1] = [at |-> 0, type |-> n]
<1> DEFINE first == <<[at |-> 0, type |-> n]>>
           frames == first \o l.frames
           m == Enter(l, n)
<1>1. m = [offset |-> l.offset, size |-> l.size, enum |-> l.enum, header |-> l.header,
           frames |-> frames]
  <2> DEFINE o == l.offset
             s == l.size
             e == l.enum
             h == l.header
             f == l.frames
  <2>1. l = [offset |-> o, size |-> s, enum |-> e, header |-> h, frames |-> f]
    BY DEF IsLeaf
  <2>2. m = [l EXCEPT !.frames = frames]
    BY DEF Enter
  <2> HIDE DEF o, s, e, h, f, frames, m
  <2>3. m = [offset |-> o, size |-> s, enum |-> e, header |-> h, frames |-> frames]
    BY ONLY <2>1, <2>2
  <2> QED
    BY <2>3 DEF o, s, e, h
<1>2. IsSeq(first) /\ Len(first) = 1 /\ first[1] = [at |-> 0, type |-> n]
  BY DEF IsSeq, Range
<1>3. IsSeq(l.frames) /\ l.enum \in BOOLEAN /\ l.header \in {"none", "own", "user"}
  BY DEF IsLeaf
<1> HIDE DEF first, m
<1>4. IsSeq(frames) /\ Len(frames) >= 1 /\ frames[1] = [at |-> 0, type |-> n]
  <2> DEFINE f == l.frames
  <2>0. IsSeq(first) /\ IsSeq(f)
    BY <1>2, <1>3
  <2> HIDE DEF f
  <2>1. /\ IsSeq(first \o f) /\ Len(first \o f) = Len(first) + Len(f)
        /\ DOMAIN (first \o f) = 1 .. (Len(first) + Len(f))
        /\ \A i \in 1 .. Len(first) : (first \o f)[i] = first[i]
        /\ \A i \in 1 .. Len(f) : (first \o f)[Len(first) + i] = f[i]
    BY ONLY <2>0, ConcatIs
  <2>2. Len(f) \in Nat
    BY <2>0, SeqIs
  <2> QED
    BY <1>2, <2>1, <2>2 DEF f
<1> HIDE DEF frames
<1>5. /\ m.offset = l.offset /\ m.size = l.size /\ m.enum = l.enum /\ m.header = l.header
      /\ m.frames = frames
  BY <1>1
<1>6. IsLeaf(m)
  BY <1>1, <1>3, <1>4, <1>5 DEF IsLeaf
<1> QED
  BY <1>4, <1>5, <1>6 DEF m

\* Only the leaves of a message are known to lie within it.
Enclosed(ls, n) == \A l \in Range(ls) : Len(l.frames) >= 1 /\ l.frames[1] = [at |-> 0, type |-> n]

LEMMA MembersAre ==
  ASSUME NEW types, NEW N, AllReady(types, N), NEW n \in 1 .. N, HasMembers(types[n]),
         NEW before, \A m \in 1 .. (n - 1) : Laid(before[m], types, m),
         NEW parts, parts = [k \in DOMAIN types[n].fields |->
           FieldLeaves(types, types[n], k, FieldOffset(types, types[n], k), before)]
  PROVE  /\ Tiles(FlattenSeq(parts), 0, Sizes(types)[n])
         /\ \A l \in Range(FlattenSeq(parts)) :
              FieldLeafOK(l, types[n]) /\ (n <= NumBuiltins => ~l.enum)
<1> DEFINE t == types[n]
           L == Len(t.fields)
           sizes == Sizes(types)
           size(k) == ArraySize(sizes[t.fields[k].type.index], t.fields[k].lens)
<1>1. n \in Nat /\ IsSeq(t.fields)
  <2>1. n \in Nat /\ ReadyType(t, n)
    BY DEF AllReady
  <2> QED
    BY <2>1 DEF ReadyType
<1>2. L \in Nat /\ DOMAIN t.fields = 1 .. L
  BY <1>1, SeqIs
<1>3. PICK h : /\ Reaches(h, types, t, L)
               /\ \A k \in 1 .. L : FieldOffset(types, t, k) = h[k - 1]
               /\ h[L] = sizes[n]
  BY FieldOffsetsAre
<1>4. h[0] = 0 /\ \A k \in 1 .. L : h[k] = h[k - 1] + size(k)
  BY <1>3 DEF Reaches, MembersFold!FoldsTo
<1>5. \A k \in 1 .. L : size(k) \in Nat
  <2>1. ASSUME NEW k \in 1 .. L PROVE size(k) \in Nat
    <3> DEFINE idx == t.fields[k].type.index
               lens == t.fields[k].lens
               s == sizes[idx]
    <3>1. ReadyType(t, n) /\ HasMembers(t)
      BY DEF AllReady
    <3>2. idx \in 1 .. (n - 1) /\ lens \in Seq(Int) /\ \A l \in DOMAIN lens : lens[l] >= 1
      BY <3>1 DEF ReadyType
    <3>3. Laid(before[idx], types, idx)
      BY <3>2
    <3> HIDE DEF t, idx, lens, sizes
    <3>4. s \in Nat
      BY <3>3 DEF Laid, Tiles, sizes
    <3> HIDE DEF s
    <3>5. Stride(ArrayOffsets(s, lens), s, ArraySize(s, lens))
      BY <3>2, <3>4, OffsetsAre
    <3>6. ArraySize(s, lens) \in Nat
      BY <3>5 DEF Stride, Tiles
    <3> QED
      BY <3>6 DEF s, idx, lens
  <2> QED
    BY <2>1
<1> DEFINE part(k) == FieldLeaves(types, t, k, h[k - 1], before)
<1>6. IsSeq(parts) /\ Len(parts) = L /\ \A k \in 1 .. L : parts[k] = part(k)
  <2>1. parts = [k \in 1 .. L |-> parts[k]] /\ \A k \in 1 .. L : parts[k] = part(k)
    <3>1. parts = [k \in 1 .. L |-> FieldLeaves(types, t, k, FieldOffset(types, t, k), before)]
      BY <1>2
    <3> HIDE DEF t, L
    <3> QED
      BY <1>3, <3>1
  <2> HIDE DEF part, t, L
  <2> QED
    BY <1>2, <2>1, FunctionIsSeq
<1>7. \A k \in 0 .. L : h[k] \in Nat
  <2> HIDE DEF size, L
  <2> DEFINE K == {k \in Nat : k <= L => h[k] \in Nat}
  <2>1. 0 \in K
    BY <1>4
  <2>2. ASSUME NEW k \in Nat, k \in K PROVE k + 1 \in K
    <3> SUFFICES ASSUME k + 1 <= L PROVE h[k + 1] \in Nat
      OBVIOUS
    <3>1. k + 1 \in 1 .. L /\ (k + 1) - 1 = k /\ h[k] \in Nat
      BY <1>2, <2>2
    <3> QED
      BY <1>4, <1>5, <3>1
  <2>3. \A k \in Nat : k \in K
    <3> HIDE DEF K
    <3> QED
      BY <2>1, <2>2, BitFold!Induction
  <2> QED
    BY <2>3
<1>8. ASSUME NEW k \in 1 .. L
      PROVE  /\ Tiles(part(k), h[k - 1], h[k])
             /\ \A l \in Range(part(k)) : FieldLeafOK(l, t) /\ (n <= NumBuiltins => ~l.enum)
  <2> DEFINE base == h[k - 1]
             ls == FieldLeaves(types, types[n], k, base, before)
             f == types[n].fields[k]
  <2>1. k - 1 \in 0 .. L
    BY <1>2
  <2>2. base \in Nat
    BY <1>7, <2>1
  <2>3. h[k] = base + size(k)
    BY <1>4
  <2> HIDE DEF base
  <2>4. /\ Tiles(ls, base, base + ArraySize(Sizes(types)[f.type.index], f.lens))
        /\ \A l \in Range(ls) : FieldLeafOK(l, types[n]) /\ (n <= NumBuiltins => ~l.enum)
    BY <2>2, FieldLeavesAre
  <2>5. part(k) = ls
    BY DEF base
  <2> HIDE DEF ls, part
  <2> QED
    BY <2>3, <2>4, <2>5 DEF base
<1> HIDE DEF part, size, t, L, sizes
<1> DEFINE cut == [k \in 1 .. (L + 1) |-> h[k - 1]]
<1>9. /\ cut[1] = 0 /\ cut[L + 1] = h[L]
      /\ \A k \in 1 .. L : cut[k] = h[k - 1] /\ cut[k + 1] = h[k]
  BY <1>2, <1>4
<1> HIDE DEF cut
<1>10. \A k \in 1 .. Len(parts) : Tiles(parts[k], cut[k], cut[k + 1])
  BY <1>6, <1>8, <1>9
<1>11. Tiles(FlattenSeq(parts), cut[1], cut[Len(parts) + 1])
  <2>1. IsSeq(parts) /\ cut[1] \in Nat
    BY <1>6, <1>9
  <2> QED
    BY ONLY <2>1, <1>10, FlattenTiles
<1>12. ASSUME NEW l \in Range(FlattenSeq(parts))
       PROVE  FieldLeafOK(l, t) /\ (n <= NumBuiltins => ~l.enum)
  <2>1. \A k \in 1 .. Len(parts) : IsSeq(parts[k])
    BY <1>10 DEF Tiles
  <2>2. Joined(FlattenSeq(parts), parts, Len(parts))
    BY <1>6, <2>1, FlattenRange
  <2>3. PICK k \in 1 .. L : l \in Range(part(k))
    BY <1>6, <2>2 DEF Joined
  <2> QED
    BY <1>8, <2>3
<1> QED
  BY <1>3, <1>6, <1>9, <1>11, <1>12 DEF t, sizes

LEMMA TypeLeavesAre ==
  ASSUME NEW types, NEW N, AllReady(types, N), NEW n \in 1 .. N,
         NEW before, \A m \in 1 .. (n - 1) : Laid(before[m], types, m)
  PROVE  /\ Laid(TypeLeaves(types, n, before), types, n)
         /\ types[n].kind = "Message" => Enclosed(TypeLeaves(types, n, before), n)
<1> DEFINE t == types[n]
           parts == [k \in DOMAIN t.fields |->
                       FieldLeaves(types, t, k, FieldOffset(types, t, k), before)]
           leaves == FlattenSeq(parts)
           ls == TypeLeaves(types, n, before)
<1>1. t.kind \in {"Bitfield", "Enum", "Struct", "Message", "Primitive"}
  <2>1. ReadyType(t, n)
    BY DEF AllReady
  <2> QED
    BY <2>1 DEF ReadyType, Kinds
<1>2. CASE HasMembers(t)
  <2>1. /\ Tiles(leaves, 0, Sizes(types)[n])
        /\ \A l \in Range(leaves) : FieldLeafOK(l, t) /\ (n <= NumBuiltins => ~l.enum)
    <3> DEFINE p == parts
    <3> HIDE DEF p
    <3>1. /\ Tiles(FlattenSeq(p), 0, Sizes(types)[n])
          /\ \A l \in Range(FlattenSeq(p)) :
               FieldLeafOK(l, types[n]) /\ (n <= NumBuiltins => ~l.enum)
      <4>1. p = [k \in DOMAIN types[n].fields |->
              FieldLeaves(types, types[n], k, FieldOffset(types, types[n], k), before)]
        BY DEF p
      <4> HIDE DEF t, parts, leaves, ls
      <4> QED
        BY <1>2, <4>1, MembersAre DEF t
    <3> QED
      BY <3>1 DEF p
  <2> DEFINE size == Sizes(types)[n]
  <2>2. CASE t.kind = "Struct"
    <3>1. ls = leaves
      BY <2>2 DEF TypeLeaves
    <3> HIDE DEF leaves, ls, t, size
    <3>2. \A l \in Range(ls) : LeafOK(l) /\ (n <= NumBuiltins => ~l.enum)
      BY <2>1, <2>2, <3>1 DEF FieldLeafOK, LeafOK
    <3> QED
      BY <2>1, <2>2, <3>1, <3>2 DEF Laid, t, ls, size
  <2>3. CASE t.kind = "Message"
    <3>1. ls = [i \in DOMAIN leaves |-> Enter(leaves[i], n)]
      BY <2>3 DEF TypeLeaves, Enter
    <3> HIDE DEF leaves, ls, t, size
    <3>2. IsSeq(leaves) /\ size \in Nat
      BY <2>1 DEF Tiles, size
    <3>3. DOMAIN leaves = 1 .. Len(leaves) /\ Len(leaves) \in Nat
      BY <3>2, SeqIs
    <3>4. ls = [i \in 1 .. Len(leaves) |-> ls[i]] /\ \A i \in 1 .. Len(leaves) : ls[i] = Enter(leaves[i], n)
      BY <3>1, <3>3
    <3>5. IsSeq(ls) /\ Len(ls) = Len(leaves) /\ DOMAIN ls = 1 .. Len(leaves)
      BY <3>3, <3>4, FunctionIsSeq
    <3>6. ASSUME NEW i \in 1 .. Len(leaves)
          PROVE  /\ LeafOK(ls[i]) /\ (n <= NumBuiltins => ~ls[i].enum)
                 /\ ls[i].offset = leaves[i].offset + 0 /\ ls[i].size = leaves[i].size
                 /\ Len(ls[i].frames) >= 1 /\ ls[i].frames[1] = [at |-> 0, type |-> n]
      <4> DEFINE l == leaves[i]
                 m == ls[i]
      <4>1. l \in Range(leaves) /\ m = Enter(l, n)
        BY <3>3, <3>4 DEF Range
      <4>2. l.offset \in Nat
        BY <2>1, <3>3 DEF Tiles
      <4> HIDE DEF l, m
      <4>3. FieldLeafOK(l, t) /\ (n <= NumBuiltins => ~l.enum)
        BY <2>1, <4>1
      <4>4. IsLeaf(l) /\ (l.header = "own" => ~l.enum)
        BY <4>3 DEF FieldLeafOK
      <4>5. /\ IsLeaf(Enter(l, n))
            /\ Enter(l, n).offset = l.offset /\ Enter(l, n).size = l.size
            /\ Enter(l, n).enum = l.enum /\ Enter(l, n).header = l.header
            /\ Len(Enter(l, n).frames) >= 1
            /\ Enter(l, n).frames[1] = [at |-> 0, type |-> n]
        BY <4>4, EnterIs
      <4>6. LeafOK(m)
        BY <4>1, <4>4, <4>5 DEF LeafOK
      <4>7. m.offset = l.offset + 0
        BY <4>1, <4>2, <4>5 DEF l
      <4> QED
        BY <4>1, <4>3, <4>5, <4>6, <4>7 DEF l, m
    <3>7. Moved(ls, leaves, 0)
      BY <3>5, <3>6 DEF Moved
    <3>8. Tiles(leaves, 0, size)
      BY <2>1 DEF size
    <3>9. Tiles(ls, 0, size)
      <4>1. Tiles(ls, 0 + 0, size + 0)
        BY <3>7, <3>8, TilesMoved
      <4> QED
        BY <3>2, <4>1
    <3>10. \A l \in Range(ls) : \E i \in 1 .. Len(leaves) : l = ls[i]
      BY <3>5 DEF Range
    <3>11. Laid(ls, types, n)
      BY <3>6, <3>9, <3>10 DEF Laid, size
    <3>12. Enclosed(ls, n)
      BY <3>6, <3>10 DEF Enclosed
    <3> QED
      BY <3>11, <3>12 DEF ls
  <2> QED
    BY <1>1, <1>2, <2>2, <2>3 DEF HasMembers
<1>3. CASE ~HasMembers(t)
  <2> DEFINE size == Sizes(types)[n]
             x == Leaf(size, t.kind = "Enum")
  <2>1. ls = <<x>> /\ t.kind # "Message"
    BY <1>1, <1>3 DEF HasMembers, TypeLeaves
  <2>2. size \in Nat /\ (n <= NumBuiltins => t.kind # "Enum")
    <3>1. size = TypeSize(t, Sizes(types))
      BY ReadySizes
    <3>2. ReadyType(t, n)
      BY DEF AllReady
    <3> HIDE DEF t, size
    <3> QED
      BY <1>3, <3>1, <3>2 DEF ReadyType
  <2> HIDE DEF ls, t, size
  <2>3. LeafOK(x) /\ x.offset = 0 /\ x.size = size /\ (n <= NumBuiltins => ~x.enum)
    <3>1. IsSeq(<<>>)
      BY DEF IsSeq
    <3> DEFINE enum == t.kind = "Enum"
    <3>2. enum \in BOOLEAN /\ (n <= NumBuiltins => ~enum)
      BY <2>2
    <3> HIDE DEF enum
    <3>3. LeafOK(Leaf(size, enum)) /\ Leaf(size, enum).offset = 0 /\ Leaf(size, enum).size = size
          /\ (n <= NumBuiltins => ~Leaf(size, enum).enum)
      BY <3>1, <3>2 DEF Leaf, LeafOK, IsLeaf
    <3> QED
      BY <3>3 DEF enum
  <2> HIDE DEF x
  <2>4. IsSeq(<<x>>) /\ Len(<<x>>) = 1 /\ <<x>>[1] = x /\ Range(<<x>>) = {x}
    BY DEF IsSeq, Range
  <2> DEFINE y == <<x>>
  <2> HIDE DEF y
  <2>5. Tiles(y, 0, size)
    <3>1. IsSeq(y) /\ Len(y) = 1 /\ y[1] = x
      BY <2>4 DEF y
    <3> QED
      BY <2>2, <2>3, <3>1 DEF Tiles
  <2>6. Laid(y, types, n)
    BY <2>3, <2>4, <2>5 DEF Laid, size, y
  <2> QED
    BY <2>1, <2>6 DEF y, t, ls
<1> QED
  BY <1>2, <1>3

-----------------------------------------------------------------------------
(* The layout of the message.                                              *)

LayoutFold == INSTANCE FoldTheorems WITH
  Op <- LAMBDA types, before, n : Append(before, TypeLeaves(types, n, before))

LayoutOf(types) == LayoutFold!Fold(types, <<>>, [n \in DOMAIN types |-> n])
LEMMA LayoutIsFold ==
  ASSUME NEW types
  PROVE  Layout(types) = Last(LayoutOf(types))
BY DEF Layout, LayoutOf, FoldLeft, MapThenFoldSet, LayoutFold!Fold, LayoutFold!Rec,
       LayoutFold!Step, Max, LayoutFold!Max

\* The leaves of the last type lie end to end and are as many bytes as its packed size.
LEMMA LayoutIs ==
  ASSUME NEW types, NEW N, AllReady(types, N), N >= 1
  PROVE  /\ Laid(Layout(types), types, N)
         /\ types[N].kind = "Message" => Enclosed(Layout(types), N)
<1> DEFINE ns == [n \in DOMAIN types |-> n]
<1>1. N \in Nat /\ DOMAIN types = 1 .. N
  BY DEF AllReady
<1>2. DOMAIN ns = 1 .. N /\ \A n \in 1 .. N : ns[n] = n
  BY <1>1
<1> HIDE DEF ns
<1>3. PICK h : LayoutFold!FoldsTo(h, types, <<>>, ns, N) /\ LayoutFold!Fold(types, <<>>, ns) = h[N]
  BY <1>1, <1>2, LayoutFold!FoldHas
<1> DEFINE p == [i \in 1 .. N |-> TypeLeaves(types, i, h[i - 1])]
<1>4. \A i \in 1 .. N : p[i] = TypeLeaves(types, i, h[i - 1])
  OBVIOUS
<1> HIDE DEF p
<1>5. h[0] = <<>> /\ \A i \in 1 .. N : h[i] = Append(h[i - 1], p[i])
  BY <1>2, <1>3, <1>4 DEF LayoutFold!FoldsTo
<1>6. \A n \in 0 .. N : Appended(h[n], n, p)
  BY <1>1, <1>5, Appends
<1> DEFINE Good(i) == /\ Laid(p[i], types, i)
                      /\ types[i].kind = "Message" => Enclosed(p[i], i)
           K == {k \in Nat : k <= N => \A i \in 1 .. k : Good(i)}
<1>7. 0 \in K
  OBVIOUS
<1>8. ASSUME NEW k \in Nat, k \in K PROVE k + 1 \in K
  <2> SUFFICES ASSUME k + 1 <= N PROVE \A i \in 1 .. (k + 1) : Good(i)
    OBVIOUS
  <2> DEFINE n == k + 1
             before == h[k]
  <2>1. n \in 1 .. N /\ n - 1 = k /\ k \in 0 .. N /\ \A i \in 1 .. k : Good(i)
    BY <1>1, <1>8
  <2> HIDE DEF n, K
  <2>2. Appended(before, k, p)
    BY <1>6, <2>1
  <2>3. \A i \in 1 .. k : before[i] = p[i]
    BY <2>2 DEF Appended
  <2> HIDE DEF before
  <2>4. \A m \in 1 .. (n - 1) : Laid(before[m], types, m)
    BY <2>1, <2>3
  <2>5. /\ Laid(TypeLeaves(types, n, before), types, n)
        /\ types[n].kind = "Message" => Enclosed(TypeLeaves(types, n, before), n)
    BY <2>1, <2>4, TypeLeavesAre
  <2>6. Good(n)
    BY <1>4, <2>1, <2>5 DEF before
  <2> HIDE DEF Good
  <2>7. \A i \in 1 .. (k + 1) : i \in 1 .. k \/ i = n
    BY DEF n
  <2> QED
    BY <2>1, <2>6, <2>7
<1>9. \A k \in Nat : k \in K
  <2> HIDE DEF K
  <2> QED
    BY <1>7, <1>8, BitFold!Induction
<1>10. Good(N)
  <2> HIDE DEF Good
  <2>1. N \in 1 .. N
    BY <1>1
  <2> QED
    BY <1>1, <1>9, <2>1
<1>11. Layout(types) = p[N]
  <2>1. Appended(h[N], N, p)
    BY <1>1, <1>6
  <2>2. Layout(types) = Last(h[N])
    BY <1>3, LayoutIsFold DEF LayoutOf, ns
  <2>3. Len(h[N]) = N /\ h[N][N] = p[N]
    BY <1>1, <2>1 DEF Appended
  <2> QED
    BY <2>2, <2>3 DEF Last
<1> QED
  BY <1>10, <1>11

LEMMA SizesAreSeq ==
  ASSUME NEW types, NEW N, AllReady(types, N)
  PROVE  IsSeq(Sizes(types)) /\ Len(Sizes(types)) = N
<1>1. N \in Nat /\ DOMAIN types = 1 .. N
  BY DEF AllReady
<1>2. PICK h : SizeFold!FoldsTo(h, 0, <<>>, types, N) /\ Sizes(types) = h[N]
  BY <1>1, SizesIsFold, SizeFold!FoldHas
<1> DEFINE p == [i \in 1 .. N |-> TypeSize(types[i], h[i - 1])]
<1>3. h[0] = <<>> /\ \A i \in 1 .. N : h[i] = Append(h[i - 1], p[i])
  BY <1>2 DEF SizeFold!FoldsTo
<1> HIDE DEF p
<1>4. \A n \in 0 .. N : Appended(h[n], n, p)
  BY <1>1, <1>3, Appends
<1>5. Appended(h[N], N, p)
  BY <1>1, <1>4
<1> QED
  BY <1>2, <1>5 DEF Appended

-----------------------------------------------------------------------------
(* A packed object.                                                        *)

PackFold == INSTANCE FoldTheorems WITH
  Op <- LAMBDA obj, buf, i : Write(buf, layout[i], Raw(layout[i], obj[i]))

Blank == [b \in 0 .. (PackedSize - 1) |-> Unset]
LEMMA PackBodyIsFold ==
  ASSUME NEW obj
  PROVE  PackBody(obj) = PackFold!Fold(obj, Blank, [i \in DOMAIN layout |-> i])
BY DEF PackBody, Blank, FoldLeft, MapThenFoldSet, PackFold!Fold, PackFold!Rec,
       PackFold!Step, Max, PackFold!Max

LEMMA PackHas ==
  ASSUME NEW obj, NEW n \in Nat, DOMAIN layout = 1 .. n
  PROVE  \E h : /\ PackFold!FoldsTo(h, obj, Blank, [i \in DOMAIN layout |-> i], n)
                /\ PackBody(obj) = h[n]
<1> DEFINE ns == [i \in DOMAIN layout |-> i]
<1>1. DOMAIN ns = 1 .. n
  OBVIOUS
<1>2. PackBody(obj) = PackFold!Fold(obj, Blank, ns)
  BY PackBodyIsFold
<1> HIDE DEF ns
<1>3. PICK h : PackFold!FoldsTo(h, obj, Blank, ns, n) /\ PackFold!Fold(obj, Blank, ns) = h[n]
  BY <1>1, PackFold!FoldHas
<1>4. PackFold!FoldsTo(h, obj, Blank, ns, n) /\ PackBody(obj) = h[n]
  BY <1>2, <1>3
<1> QED
  BY <1>4 DEF ns

\* Leaves that lie end to end do not overlap.
LEMMA TilesOrder ==
  ASSUME NEW ls, NEW a, NEW b, Tiles(ls, a, b)
  PROVE  /\ \A i, j \in 1 .. Len(ls) : i < j => ls[i].offset + ls[i].size <= ls[j].offset
         /\ \A i \in 1 .. Len(ls) : ls[i].offset + ls[i].size <= b
<1> DEFINE n == Len(ls)
           end(i) == ls[i].offset + ls[i].size
<1>1. n \in Nat
  BY SeqIs DEF Tiles
<1>2. /\ b \in Nat
      /\ \A i \in 1 .. n : ls[i].offset \in Nat /\ ls[i].size \in Nat
      /\ n > 0 => end(n) = b
      /\ \A i \in 1 .. (n - 1) : ls[i + 1].offset = end(i)
  BY DEF Tiles
<1>3. \A i \in 1 .. n : end(i) \in Nat /\ ls[i].offset \in Nat /\ ls[i].offset <= end(i)
  BY <1>2
<1> HIDE DEF n, end
<1> DEFINE K == {k \in Nat : k + 1 <= n => \A i \in 1 .. k : end(i) <= ls[k + 1].offset}
<1>4. 0 \in K
  OBVIOUS
<1>5. ASSUME NEW k \in Nat, k \in K PROVE k + 1 \in K
  <2> SUFFICES ASSUME (k + 1) + 1 <= n, NEW i \in 1 .. (k + 1) PROVE end(i) <= ls[(k + 1) + 1].offset
    OBVIOUS
  <2> DEFINE j == k + 1
  <2>1. j \in 1 .. (n - 1) /\ j \in 1 .. n /\ i \in 1 .. n /\ (i \in 1 .. k \/ i = j)
    BY <1>1
  <2>2. i \in 1 .. k => end(i) <= ls[j].offset
    BY <1>1, <1>5
  <2> HIDE DEF j, K
  <2>3. ls[j + 1].offset = end(j)
    BY <1>2, <2>1
  <2>4. end(i) <= end(j)
    <3>1. ls[j].offset <= end(j) /\ ls[j].offset \in Nat /\ end(j) \in Nat /\ end(i) \in Nat
      BY <1>3, <2>1
    <3> QED
      BY <2>1, <2>2, <3>1
  <2> QED
    BY <2>3, <2>4 DEF j
<1>6. \A k \in Nat : k \in K
  <2> HIDE DEF K
  <2> QED
    BY <1>4, <1>5, BitFold!Induction
<1>7. ASSUME NEW i \in 1 .. n, NEW j \in 1 .. n, i < j PROVE end(i) <= ls[j].offset
  <2>1. j - 1 \in Nat /\ i \in 1 .. (j - 1) /\ (j - 1) + 1 = j
    BY <1>1, <1>7
  <2>2. j - 1 \in K
    BY <1>6, <2>1
  <2> QED
    BY <2>1, <2>2
<1>8. ASSUME NEW i \in 1 .. n PROVE end(i) <= b
  <2>1. n \in 1 .. n /\ (i = n \/ i < n) /\ n > 0
    BY <1>1
  <2>2. i < n => end(i) <= ls[n].offset
    BY <1>7, <2>1
  <2>3. ls[n].offset <= end(n) /\ ls[n].offset \in Nat /\ end(n) \in Nat /\ end(i) \in Nat /\ end(n) = b
    BY <1>2, <1>3, <2>1
  <2> QED
    BY <2>1, <2>2, <2>3
<1> QED
  BY <1>7, <1>8 DEF n, end

\* Nor do they leave a gap.
LEMMA TilesCover ==
  ASSUME NEW ls, NEW b, Tiles(ls, 0, b), NEW x \in 0 .. (b - 1)
  PROVE  \E i \in 1 .. Len(ls) : x \in ls[i].offset .. (ls[i].offset + ls[i].size - 1)
<1> DEFINE n == Len(ls)
           end(i) == ls[i].offset + ls[i].size
<1>1. n \in Nat
  BY SeqIs DEF Tiles
<1>2. /\ b \in Nat
      /\ \A i \in 1 .. n : ls[i].offset \in Nat /\ ls[i].size \in Nat
      /\ n = 0 => 0 = b
      /\ n > 0 => ls[1].offset = 0 /\ end(n) = b
      /\ \A i \in 1 .. (n - 1) : ls[i + 1].offset = end(i)
  BY DEF Tiles
<1>3. \A i \in 1 .. n : end(i) \in Nat
  BY <1>2
<1>4. n > 0
  BY <1>1, <1>2
<1> SUFFICES ASSUME \A i \in 1 .. n : ~(ls[i].offset <= x /\ x < end(i)) PROVE FALSE
  <2>1. PICK i \in 1 .. n : ls[i].offset <= x /\ x < end(i)
    OBVIOUS
  <2>2. x \in ls[i].offset .. (ls[i].offset + ls[i].size - 1)
    <3> DEFINE o == ls[i].offset
               s == ls[i].size
    <3>1. o \in Nat /\ s \in Nat /\ o <= x /\ x < o + s
      BY <1>2, <2>1
    <3> HIDE DEF o, s
    <3>2. x \in o .. (o + s - 1)
      BY <3>1
    <3> QED
      BY <3>2 DEF o, s
  <2> QED
    BY <2>2
<1> HIDE DEF n, end
<1> DEFINE K == {k \in Nat : k + 1 <= n => end(k + 1) <= x}
<1>5. 0 \in K
  <2>1. 1 \in 1 .. n /\ ls[1].offset = 0
    BY <1>1, <1>2, <1>4
  <2>2. end(1) <= x
    BY <1>2, <1>3, <2>1
  <2> QED
    BY <2>2
<1>6. ASSUME NEW k \in Nat, k \in K PROVE k + 1 \in K
  <2> SUFFICES ASSUME (k + 1) + 1 <= n PROVE end((k + 1) + 1) <= x
    OBVIOUS
  <2> DEFINE j == k + 1
  <2>1. j \in 1 .. (n - 1) /\ j + 1 \in 1 .. n /\ j \in 1 .. n /\ end(j) <= x
    BY <1>1, <1>6
  <2> HIDE DEF j, K
  <2>2. ls[j + 1].offset = end(j)
    BY <1>2, <2>1
  <2>3. end(j + 1) <= x
    BY <1>3, <2>1, <2>2
  <2> QED
    BY <2>3 DEF j
<1>7. \A k \in Nat : k \in K
  <2> HIDE DEF K
  <2> QED
    BY <1>5, <1>6, BitFold!Induction
<1>8. n - 1 \in Nat /\ (n - 1) + 1 = n
  BY <1>1, <1>4
<1>9. end(n) <= x
  BY <1>7, <1>8
<1> QED
  BY <1>2, <1>4, <1>9

\* An object has at least the bytes that are packed of each leaf.
Fits(ls, obj) == \A i \in 1 .. Len(ls) : IsSeq(obj[i]) /\ Len(obj[i]) >= ls[i].size

LEMMA RawIs ==
  ASSUME NEW l, l.size \in Nat, NEW v, IsSeq(v), Len(v) >= l.size
  PROVE  /\ IsSeq(Raw(l, v)) /\ Len(Raw(l, v)) = l.size
         /\ \A b \in 1 .. l.size : Raw(l, v)[b] = v[b]
<1>1. l.size \in 0 .. Len(v)
  BY SeqIs
<1> QED
  BY <1>1, SubSeqIs DEF Raw

Packs(ls, buf, obj, k) ==
  \A i \in 1 .. k : \A b \in 1 .. ls[i].size :
    buf[(ls[i].offset + ls[i].size) - b] = obj[i][b]

IsBuffer(buf, total) == buf = [x \in 0 .. (total - 1) |-> buf[x]]
Packed(ls, total, buf, obj) == IsBuffer(buf, total) /\ Packs(ls, buf, obj, Len(ls))

LEMMA PackedSizeIsFold == PackedSize = LeafFold!Fold(0, 0, layout)
BY DEF PackedSize, FoldLeft, MapThenFoldSet, LeafFold!Fold, LeafFold!Rec, LeafFold!Step, Max,
       LeafFold!Max

LEMMA PackedSizeIs ==
  ASSUME NEW total, Tiles(layout, 0, total)
  PROVE  PackedSize = total
<1>1. SizeOf(layout) = total
  BY TilesSize
<1> QED
  BY <1>1, PackedSizeIsFold, SizeOfIsFold

\* Every leaf of a packed object is in its place.
LEMMA PackedIs ==
  ASSUME NEW total, Tiles(layout, 0, total), NEW obj, Fits(layout, obj)
  PROVE  Packed(layout, total, PackBody(obj), obj)
<1> DEFINE n == Len(layout)
           ns == [i \in DOMAIN layout |-> i]
<1>1. n \in Nat /\ DOMAIN layout = 1 .. n
  BY SeqIs DEF Tiles
<1>2. PackedSize = total
  BY PackedSizeIs
<1>3. total \in Nat /\ \A i \in 1 .. n : layout[i].offset \in Nat /\ layout[i].size \in Nat
  BY DEF Tiles
<1>4. /\ \A i, j \in 1 .. n : i < j => layout[i].offset + layout[i].size <= layout[j].offset
      /\ \A i \in 1 .. n : layout[i].offset + layout[i].size <= total
  BY TilesOrder
<1>5. \A i \in 1 .. n : IsSeq(obj[i]) /\ Len(obj[i]) >= layout[i].size
  BY DEF Fits
<1>6. PICK h : PackFold!FoldsTo(h, obj, Blank, ns, n) /\ PackBody(obj) = h[n]
  <2> HIDE DEF n
  <2> QED
    BY <1>1, PackHas
<1>7. h[0] = Blank /\ \A k \in 1 .. n : h[k] = Write(h[k - 1], layout[k], Raw(layout[k], obj[k]))
  BY <1>1, <1>6 DEF PackFold!FoldsTo
<1> HIDE DEF n
<1> DEFINE Good(k) == IsBuffer(h[k], total) /\ Packs(layout, h[k], obj, k)
           K == {k \in Nat : k <= n => Good(k)}
<1>8. 0 \in K
  <2>1. h[0] = [x \in 0 .. (total - 1) |-> Unset]
    BY <1>2, <1>7 DEF Blank
  <2>2. IsBuffer(h[0], total)
    BY <2>1 DEF IsBuffer
  <2> QED
    BY <2>2 DEF Packs
<1>9. ASSUME NEW k \in Nat, k \in K PROVE k + 1 \in K
  <2> SUFFICES ASSUME k + 1 <= n PROVE Good(k + 1)
    OBVIOUS
  <2> DEFINE m == k + 1
             o == layout[m].offset
             s == layout[m].size
             raw == Raw(layout[m], obj[m])
             buf == h[k]
             new == h[m]
  <2>1. m \in 1 .. n /\ m - 1 = k /\ Good(k)
    BY <1>1, <1>9
  <2>2. /\ o \in Nat /\ s \in Nat /\ IsSeq(obj[m]) /\ Len(obj[m]) >= s /\ o + s <= total
        /\ \A i \in 1 .. k : layout[i].offset + layout[i].size <= o
    <3>1. \A i \in 1 .. k : i \in 1 .. n /\ i < m
      BY <1>1, <2>1
    <3> HIDE DEF m
    <3> QED
      BY <1>3, <1>4, <1>5, <2>1, <3>1
  <2>3. \A b \in 1 .. s : raw[b] = obj[m][b]
    <3> DEFINE l == layout[m]
               v == obj[m]
    <3>1. l.size \in Nat /\ IsSeq(v) /\ Len(v) >= l.size
      BY <2>2
    <3> HIDE DEF l, v
    <3>2. \A b \in 1 .. l.size : Raw(l, v)[b] = v[b]
      BY <3>1, RawIs
    <3> QED
      BY <3>2 DEF l, v
  <2>4. new = [x \in DOMAIN buf |-> IF x \in o .. (o + s - 1) THEN raw[s - (x - o)] ELSE buf[x]]
    <3> HIDE DEF m
    <3>1. h[m] = Write(h[m - 1], layout[m], Raw(layout[m], obj[m]))
      BY <1>7, <2>1
    <3> HIDE DEF raw
    <3>2. new = Write(buf, layout[m], raw)
      BY <2>1, <3>1 DEF raw
    <3> HIDE DEF buf, new
    <3> QED
      BY <3>2 DEF Write
  <2>5. DOMAIN buf = 0 .. (total - 1) /\ Packs(layout, buf, obj, k)
    <3>1. IsBuffer(buf, total) /\ Packs(layout, buf, obj, k)
      BY <2>1
    <3> HIDE DEF buf
    <3> QED
      BY <3>1 DEF IsBuffer
  <2> HIDE DEF raw, buf, new, Good, K
  <2>6. IsBuffer(new, total)
    BY <2>4, <2>5 DEF IsBuffer
  <2>7. ASSUME NEW b \in 1 .. s PROVE new[(o + s) - b] = obj[m][b]
    <3> HIDE DEF m, o, s
    <3> DEFINE x == (o + s) - b
    <3>1. x \in 0 .. (total - 1) /\ x \in o .. (o + s - 1) /\ s - (x - o) = b
      BY <1>3, <2>2
    <3> HIDE DEF x
    <3>2. new[x] = raw[b]
      BY <2>4, <2>5, <3>1
    <3> QED
      BY <2>3, <3>2 DEF x
  <2>8. ASSUME NEW i \in 1 .. k, NEW b \in 1 .. layout[i].size
        PROVE  new[(layout[i].offset + layout[i].size) - b] = obj[i][b]
    <3> DEFINE p == layout[i].offset
               q == layout[i].size
               x == (p + q) - b
    <3>1. i \in 1 .. n
      BY <1>1, <2>1
    <3>2. p \in Nat /\ q \in Nat /\ p + q <= o /\ b \in 1 .. q
      BY <1>3, <2>2, <3>1
    <3>3. buf[x] = obj[i][b]
      BY <2>5 DEF Packs
    <3> HIDE DEF o, s, p, q, m
    <3>4. x \in 0 .. (total - 1) /\ x \notin o .. (o + s - 1)
      BY <1>3, <2>2, <3>2
    <3> HIDE DEF x
    <3>5. new[x] = buf[x]
      BY <2>4, <2>5, <3>4
    <3> QED
      BY <3>3, <3>5 DEF x, p, q
  <2>9. Packs(layout, new, obj, m)
    <3>1. \A i \in 1 .. m : i \in 1 .. k \/ i = m
      BY <2>1
    <3> HIDE DEF m
    <3> QED
      BY <2>7, <2>8, <3>1 DEF Packs, o, s
  <2> QED
    BY <2>6, <2>9 DEF Good, new, m
<1>10. \A k \in Nat : k \in K
  <2> HIDE DEF K
  <2> QED
    BY <1>8, <1>9, BitFold!Induction
<1>11. Good(n)
  BY <1>1, <1>10
<1> QED
  BY <1>6, <1>11 DEF n, Packed

\* What is read of a leaf is what was packed of it.
LEMMA ReadIs ==
  ASSUME NEW ls, NEW total, Tiles(ls, 0, total), NEW obj, Fits(ls, obj),
         NEW buf, Packed(ls, total, buf, obj), NEW i \in 1 .. Len(ls)
  PROVE  /\ Read(buf, ls[i]) = Raw(ls[i], obj[i])
         /\ IsSeq(Raw(ls[i], obj[i])) /\ Len(Raw(ls[i], obj[i])) = ls[i].size
<1> DEFINE l == ls[i]
           v == obj[i]
           r == Read(buf, l)
           raw == Raw(l, v)
<1>1. l.offset \in Nat /\ l.size \in Nat /\ IsSeq(v) /\ Len(v) >= l.size
  BY DEF Tiles, Fits
<1>2. \A b \in 1 .. l.size : buf[(l.offset + l.size) - b] = v[b]
  BY DEF Packed, Packs
<1> HIDE DEF l, v
<1>3. r = [b \in 1 .. l.size |-> r[b]] /\ \A b \in 1 .. l.size : r[b] = v[b]
  <2> DEFINE o == l.offset
             s == l.size
  <2>1. o \in Nat /\ s \in Nat /\ \A b \in 1 .. s : buf[(o + s) - b] = v[b]
    BY <1>1, <1>2
  <2>2. r = [b \in 1 .. s |-> buf[o + s - b]]
    BY DEF Read
  <2> HIDE DEF o, s, r
  <2>3. \A b \in 1 .. s : o + s - b = (o + s) - b
    BY <2>1
  <2>4. \A b \in 1 .. s : r[b] = v[b]
    BY <2>1, <2>2, <2>3
  <2>5. r = [b \in 1 .. s |-> r[b]]
    BY <2>2
  <2> QED
    BY <2>4, <2>5 DEF s
<1>4. IsSeq(raw) /\ Len(raw) = l.size /\ \A b \in 1 .. l.size : raw[b] = v[b]
  BY <1>1, RawIs
<1> HIDE DEF r, raw
<1>5. IsSeq(r) /\ Len(r) = l.size
  BY <1>1, <1>3, FunctionIsSeq
<1>6. r = raw
  <2>1. IsSeq(r) /\ IsSeq(raw) /\ Len(r) = Len(raw) /\ \A b \in 1 .. Len(r) : r[b] = raw[b]
    BY <1>3, <1>4, <1>5
  <2> QED
    BY ONLY <2>1, SameSeq
<1> QED
  BY <1>4, <1>6 DEF r, raw, l, v

\* Objects of which the same bytes are packed make the same buffer.
LEMMA BufferSame ==
  ASSUME NEW ls, NEW total, Tiles(ls, 0, total), NEW x, NEW y,
         Fits(ls, x), Fits(ls, y), \A i \in 1 .. Len(ls) : Raw(ls[i], x[i]) = Raw(ls[i], y[i]),
         NEW a, Packed(ls, total, a, x), NEW b, Packed(ls, total, b, y)
  PROVE  a = b
<1>1. a = [w \in 0 .. (total - 1) |-> a[w]] /\ b = [w \in 0 .. (total - 1) |-> b[w]]
  BY DEF Packed, IsBuffer
<1>2. ASSUME NEW w \in 0 .. (total - 1) PROVE a[w] = b[w]
  <2>1. PICK i \in 1 .. Len(ls) : w \in ls[i].offset .. (ls[i].offset + ls[i].size - 1)
    BY TilesCover
  <2> DEFINE o == ls[i].offset
             s == ls[i].size
             c == (o + s) - w
             l == ls[i]
  <2>2. o \in Nat /\ s \in Nat
    BY DEF Tiles
  <2>3. c \in 1 .. s /\ (o + s) - c = w
    <3>1. w \in o .. (o + s - 1)
      BY <2>1
    <3> HIDE DEF o, s
    <3> QED
      BY <2>2, <3>1
  <2> HIDE DEF c
  <2>4. a[w] = x[i][c] /\ b[w] = y[i][c]
    BY <2>3 DEF Packed, Packs
  <2>5. x[i][c] = Raw(l, x[i])[c] /\ y[i][c] = Raw(l, y[i])[c]
    <3> DEFINE u == x[i]
               v == y[i]
    <3>1. IsSeq(u) /\ Len(u) >= l.size /\ IsSeq(v) /\ Len(v) >= l.size
      BY DEF Fits
    <3>2. l.size \in Nat /\ c \in 1 .. l.size
      BY <2>2, <2>3
    <3> HIDE DEF u, v, l
    <3>3. \A d \in 1 .. l.size : Raw(l, u)[d] = u[d]
      BY <3>1, <3>2, RawIs
    <3>4. \A d \in 1 .. l.size : Raw(l, v)[d] = v[d]
      BY <3>1, <3>2, RawIs
    <3> QED
      BY <3>2, <3>3, <3>4 DEF u, v
  <2> QED
    BY <2>4, <2>5
<1> QED
  BY <1>1, <1>2

\* The dynamic types read each leaf where it was packed.
DynOffset(i) == LeafFold!Fold(0, 0, SubSeq(layout, 1, i - 1))
LEMMA DynLeafIs ==
  ASSUME NEW i
  PROVE  DynLeaf(i) = [layout[i] EXCEPT !.offset = DynOffset(i)]
BY DEF DynLeaf, DynOffset, FoldLeft, MapThenFoldSet, LeafFold!Fold, LeafFold!Rec, LeafFold!Step,
       Max, LeafFold!Max

LEMMA DynReadIs ==
  ASSUME NEW total, Tiles(layout, 0, total), NEW i \in 1 .. Len(layout), IsLeaf(layout[i]), NEW buf
  PROVE  Read(buf, DynLeaf(i)) = Read(buf, layout[i])
<1> DEFINE ms == SubSeq(layout, 1, i - 1)
<1>1. IsSeq(layout)
  BY DEF Tiles
<1>2. i - 1 \in 0 .. Len(layout)
  BY <1>1, SeqIs
<1>3. IsSeq(ms) /\ Len(ms) = i - 1 /\ \A k \in 1 .. (i - 1) : ms[k] = layout[k]
  BY <1>1, <1>2, SubSeqIs
<1> HIDE DEF ms
<1>4. Tiles(ms, 0, layout[i].offset)
  BY <1>3, TilesFirst
<1>5. DynOffset(i) = layout[i].offset
  <2>1. SizeOf(ms) = layout[i].offset
    BY <1>4, TilesSize
  <2>2. SizeOf(ms) = LeafFold!Fold(0, 0, ms)
    BY SizeOfIsFold
  <2>3. DynOffset(i) = LeafFold!Fold(0, 0, ms)
    BY DEF DynOffset, ms
  <2> QED
    BY <2>1, <2>2, <2>3
<1> DEFINE l == layout[i]
           o == DynOffset(i)
<1>6. [l EXCEPT !.offset = o].offset = l.offset /\ [l EXCEPT !.offset = o].size = l.size
  <2>1. l = [offset |-> l.offset, size |-> l.size, enum |-> l.enum, header |-> l.header,
             frames |-> l.frames]
    BY DEF IsLeaf
  <2>2. o = l.offset
    BY <1>5
  <2> DEFINE a == l.offset
             b == l.size
             c == l.enum
             d == l.header
             e == l.frames
  <2> HIDE DEF o, a, b, c, d, e
  <2>3. l = [offset |-> a, size |-> b, enum |-> c, header |-> d, frames |-> e]
    BY <2>1 DEF a, b, c, d, e
  <2> HIDE DEF l
  <2>4. [l EXCEPT !.offset = o].offset = o /\ [l EXCEPT !.offset = o].size = b /\ l.size = b
    BY ONLY <2>3
  <2> QED
    BY <2>2, <2>4
<1> DEFINE m == DynLeaf(i)
<1>7. m.offset = l.offset /\ m.size = l.size
  BY <1>6, DynLeafIs
<1> HIDE DEF l, m
<1>8. Read(buf, m) = Read(buf, l)
  BY <1>7 DEF Read
<1> QED
  BY <1>8 DEF l, m

-----------------------------------------------------------------------------
(* Values in memory.                                                       *)

LEMMA BytesAreSeq ==
  ASSUME NEW n \in Int, NEW byte
  PROVE  IsSeq(Bytes(n, byte)) /\ (n \in Nat => Len(Bytes(n, byte)) = n) /\ Len(Bytes(n, byte)) \in Nat
<1> DEFINE s == Bytes(n, byte)
           m == IF n \in Nat THEN n ELSE 0
<1>1. m \in Nat /\ 1 .. n = 1 .. m /\ (n \in Nat => m = n)
  OBVIOUS
<1>2. s = [b \in 1 .. m |-> s[b]]
  BY <1>1 DEF Bytes
<1> HIDE DEF s, m
<1>3. IsSeq(s) /\ Len(s) = m
  BY <1>1, <1>2, FunctionIsSeq
<1> QED
  BY <1>1, <1>3 DEF s

\* A value of leaf l: an enum may take more bytes in memory than are packed.
ValueOf(l, v) == IsSeq(v) /\ Len(v) >= l.size /\ (~l.enum => Len(v) = l.size)

LEMMA InMemoryIs ==
  ASSUME NEW p, NEW l, l.size \in Nat, l.enum \in BOOLEAN, NEW raw, IsSeq(raw), Len(raw) = l.size
  PROVE  ValueOf(l, InMemory(p, l, raw)) /\ Raw(l, InMemory(p, l, raw)) = raw
<1> DEFINE zeros == Bytes(IntSize - l.size, Zero)
           v == InMemory(p, l, raw)
<1>1. IsSeq(zeros) /\ Len(zeros) \in Nat
  <2>1. IntSize - l.size \in Int
    BY DEF IntSize
  <2> QED
    BY <2>1, BytesAreSeq
<1> HIDE DEF zeros
<1>2. /\ IsSeq(raw \o zeros) /\ Len(raw \o zeros) = Len(raw) + Len(zeros)
      /\ DOMAIN (raw \o zeros) = 1 .. (Len(raw) + Len(zeros))
      /\ \A n \in 1 .. Len(raw) : (raw \o zeros)[n] = raw[n]
      /\ \A n \in 1 .. Len(zeros) : (raw \o zeros)[Len(raw) + n] = zeros[n]
  <2>1. IsSeq(raw) /\ IsSeq(zeros)
    BY <1>1
  <2> QED
    BY ONLY <2>1, ConcatIs
<1>3. (v = raw \o zeros /\ l.enum) \/ v = raw
  BY DEF InMemory, zeros
<1> HIDE DEF v
<1>4. /\ IsSeq(v) /\ Len(v) >= l.size /\ (~l.enum => Len(v) = l.size)
      /\ \A b \in 1 .. l.size : v[b] = raw[b]
  <2>1. CASE v = raw
    BY <2>1
  <2>2. CASE v = raw \o zeros /\ l.enum
    BY <1>1, <1>2, <2>2
  <2> QED
    BY <1>3, <2>1, <2>2
<1>5. IsSeq(Raw(l, v)) /\ Len(Raw(l, v)) = l.size /\ \A b \in 1 .. l.size : Raw(l, v)[b] = v[b]
  BY <1>4, RawIs
<1> DEFINE r == Raw(l, v)
<1> HIDE DEF r
<1>6. r = raw
  <2>1. IsSeq(r) /\ IsSeq(raw) /\ Len(r) = Len(raw) /\ \A b \in 1 .. Len(r) : r[b] = raw[b]
    BY <1>4, <1>5 DEF r
  <2> QED
    BY ONLY <2>1, SameSeq
<1> QED
  BY <1>4, <1>6 DEF ValueOf, r, v

-----------------------------------------------------------------------------
(* The message of a specification.                                         *)

LaidOut(ls, total) ==
  /\ Tiles(ls, 0, total)
  /\ \A i \in 1 .. Len(ls) : /\ LeafOK(ls[i]) /\ Len(ls[i].frames) >= 1
                             /\ ls[i].frames[1] = ls[1].frames[1]

LEMMA MessageLaid ==
  ASSUME NEW s, Acceptable(s), s # <<>>, s[Len(s)].kind = "Message", NEW t
  PROVE  LaidOut(Layout(Meaning(s, t, 1)), Last(Sizes(Meaning(s, t, 1))))
<1> DEFINE types == Meaning(s, t, 1)
           N == NumBuiltins + Len(s)
           ls == Layout(types)
           total == Last(Sizes(types))
<1>1. IsSeq(s)
  BY DEF Acceptable, IsSeq
<1>2. NumBuiltins \in Nat /\ NumBuiltins >= 1 /\ Len(s) \in Nat
  BY <1>1, SeqIs, BuiltinsAre
<1>3. Len(s) # 0
  <2>1. s = [n \in 1 .. Len(s) |-> s[n]]
    BY <1>1, SeqIs
  <2>2. Len(s) = 0 => s = <<>>
    BY <1>1 DEF IsSeq
  <2> QED
    BY <2>2
<1>4. types[N].kind = "Message"
  <2> DEFINE m == Len(s)
             e == s[m]
  <2>1. types[N] = ObjectOf(e, Len(e.items), t, 1, Builtins(1) \o s)
    <3>1. m \in 1 .. Len(s)
      BY <1>2, <1>3
    <3> QED
      BY <1>1, <3>1, MeaningIs
  <2> QED
    BY <2>1 DEF ObjectOf, TypeObj
<1>5. AllReady(types, N) /\ N \in Nat /\ N >= 1
  BY <1>2, MeaningReady
<1> HIDE DEF types, N
<1>6. Laid(Layout(types), types, N) /\ Enclosed(Layout(types), N)
  BY <1>4, <1>5, LayoutIs
<1>7. total = Sizes(types)[N]
  BY <1>5, SizesAreSeq DEF Last
<1> HIDE DEF ls, total
<1>8. Tiles(ls, 0, total) /\ \A l \in Range(ls) : LeafOK(l)
  BY <1>6, <1>7 DEF Laid, ls
<1>9. \A l \in Range(ls) : Len(l.frames) >= 1 /\ l.frames[1] = [at |-> 0, type |-> N]
  BY <1>6 DEF Enclosed, ls
<1>10. Len(ls) \in Nat /\ DOMAIN ls = 1 .. Len(ls)
  BY <1>8, SeqIs DEF Tiles
<1>11. ASSUME NEW i \in 1 .. Len(ls)
       PROVE  /\ LeafOK(ls[i]) /\ Len(ls[i].frames) >= 1
              /\ ls[i].frames[1] = ls[1].frames[1]
  <2>1. ls[i] \in Range(ls) /\ ls[1] \in Range(ls)
    BY <1>10 DEF Range
  <2> QED
    BY <1>8, <1>9, <2>1
<1>12. LaidOut(ls, total)
  BY <1>8, <1>11 DEF LaidOut
<1> QED
  BY <1>12 DEF ls, total, types

MessageSize(s) == Last(Sizes(Meaning(s, "", 1)))

LEMMA LayoutOfSpec ==
  ASSUME NEW s \in SpecFile
  PROVE  LaidOut(Layout(Meaning(s, "", 1)), MessageSize(s))
<1>1. Acceptable(s) /\ s # <<>> /\ s[Len(s)].kind = "Message"
  BY CodecAssumption DEF CodecAssumption
<1>2. \A t : LaidOut(Layout(Meaning(s, t, 1)), Last(Sizes(Meaning(s, t, 1))))
  BY <1>1, MessageLaid
<1>3. LaidOut(Layout(Meaning(s, "", 1)), Last(Sizes(Meaning(s, "", 1))))
  BY <1>2, Zenon
<1> QED
  BY <1>3, Zenon DEF MessageSize

LEMMA LeavesAre ==
  ASSUME NEW ls, NEW total, LaidOut(ls, total)
  PROVE  /\ IsSeq(ls) /\ Len(ls) \in Nat /\ DOMAIN ls = 1 .. Len(ls)
         /\ \A i \in 1 .. Len(ls) :
              /\ ls[i].size \in Nat /\ IsLeaf(ls[i]) /\ ls[i].enum \in BOOLEAN
              /\ ls[i].header \in {"none", "own", "user"}
              /\ ls[i].header = "own" => ~ls[i].enum
              /\ IsSeq(ls[i].frames) /\ Len(ls[i].frames) >= 1
              /\ Len(ls[i].frames) \in Nat /\ DOMAIN ls[i].frames = 1 .. Len(ls[i].frames)
              /\ ls[i].frames[1] = ls[1].frames[1]
<1>1. IsSeq(ls) /\ Tiles(ls, 0, total)
  BY DEF LaidOut, Tiles
<1>2. Len(ls) \in Nat /\ DOMAIN ls = 1 .. Len(ls)
  BY <1>1, SeqIs
<1>3. ASSUME NEW i \in 1 .. Len(ls)
      PROVE  /\ ls[i].size \in Nat /\ IsLeaf(ls[i]) /\ ls[i].enum \in BOOLEAN
             /\ ls[i].header \in {"none", "own", "user"}
             /\ ls[i].header = "own" => ~ls[i].enum
             /\ IsSeq(ls[i].frames) /\ Len(ls[i].frames) >= 1
             /\ Len(ls[i].frames) \in Nat /\ DOMAIN ls[i].frames = 1 .. Len(ls[i].frames)
             /\ ls[i].frames[1] = ls[1].frames[1]
  <2> DEFINE l == ls[i]
  <2>1. l.size \in Nat
    BY <1>1 DEF Tiles
  <2>2. LeafOK(l) /\ Len(l.frames) >= 1 /\ l.frames[1] = ls[1].frames[1]
    BY DEF LaidOut
  <2> HIDE DEF l
  <2>3. IsLeaf(l) /\ (l.header = "own" => ~l.enum)
    BY <2>2 DEF LeafOK
  <2>4. l.enum \in BOOLEAN /\ l.header \in {"none", "own", "user"} /\ IsSeq(l.frames)
    BY <2>3 DEF IsLeaf
  <2>5. Len(l.frames) \in Nat /\ DOMAIN l.frames = 1 .. Len(l.frames)
    BY <2>4, SeqIs
  <2> QED
    BY <2>1, <2>2, <2>3, <2>4, <2>5 DEF l
<1> QED
  BY <1>1, <1>2, <1>3

\* An object of the message, in the memory of any program.
Shape(ls, obj) ==
  DOMAIN obj = DOMAIN ls /\ \A i \in 1 .. Len(ls) : ValueOf(ls[i], obj[i])

LEMMA ShapeFits ==
  ASSUME NEW ls, NEW obj, Shape(ls, obj)
  PROVE  Fits(ls, obj)
BY DEF Shape, ValueOf, Fits

LEMMA ObjectShape ==
  ASSUME NEW total, LaidOut(layout, total), NEW p, NEW byte
  PROVE  Shape(layout, Object(p, byte))
<1>1. /\ DOMAIN layout = 1 .. Len(layout)
      /\ \A i \in 1 .. Len(layout) : layout[i].size \in Nat /\ layout[i].enum \in BOOLEAN
  BY LeavesAre
<1> DEFINE obj == Object(p, byte)
<1>2. ASSUME NEW i \in 1 .. Len(layout) PROVE ValueOf(layout[i], obj[i])
  <2> DEFINE l == layout[i]
             raw == Bytes(l.size, byte)
  <2>1. obj[i] = InMemory(p, l, raw)
    BY <1>1 DEF Object
  <2>2. l.size \in Nat /\ l.enum \in BOOLEAN
    BY <1>1
  <2> HIDE DEF l, raw, obj
  <2>3. IsSeq(raw) /\ Len(raw) = l.size
    BY <2>2, BytesAreSeq DEF raw
  <2>4. ValueOf(l, InMemory(p, l, raw))
    BY <2>2, <2>3, InMemoryIs
  <2> QED
    BY <2>1, <2>4 DEF l
<1>3. DOMAIN obj = DOMAIN layout
  BY DEF Object
<1> QED
  BY <1>2, <1>3 DEF Shape

\* What the application fills in.
Filled(p, v) ==
  [i \in DOMAIN layout |->
     InMemory(p, layout[i], IF layout[i].header = "own"
                            THEN Bytes(layout[i].size, Zero) ELSE UserField(v, i))]
LEMMA FilledShape ==
  ASSUME NEW total, LaidOut(layout, total), NEW p, NEW v
  PROVE  Shape(layout, Filled(p, v))
<1>1. /\ DOMAIN layout = 1 .. Len(layout)
      /\ \A i \in 1 .. Len(layout) : layout[i].size \in Nat /\ layout[i].enum \in BOOLEAN
  BY LeavesAre
<1> DEFINE obj == Filled(p, v)
<1>2. ASSUME NEW i \in 1 .. Len(layout) PROVE ValueOf(layout[i], obj[i])
  <2> DEFINE l == layout[i]
             user == UserField(v, i)
             zero == Bytes(l.size, Zero)
             raw == IF l.header = "own" THEN zero ELSE user
  <2>1. obj[i] = InMemory(p, l, raw)
    BY <1>1 DEF Filled
  <2>2. l.size \in Nat /\ l.enum \in BOOLEAN
    BY <1>1
  <2>3. user = [b \in 1 .. l.size |-> user[b]]
    BY DEF UserField
  <2> HIDE DEF l, user, zero, obj
  <2>4. IsSeq(user) /\ Len(user) = l.size
    BY <2>2, <2>3, FunctionIsSeq
  <2>5. IsSeq(zero) /\ Len(zero) = l.size
    BY <2>2, BytesAreSeq DEF zero
  <2>6. IsSeq(raw) /\ Len(raw) = l.size
    BY <2>4, <2>5
  <2> HIDE DEF raw
  <2>7. ValueOf(l, InMemory(p, l, raw))
    BY <2>2, <2>6, InMemoryIs
  <2> QED
    BY <2>1, <2>7 DEF l
<1>3. DOMAIN obj = DOMAIN layout
  BY DEF Filled
<1> QED
  BY <1>2, <1>3 DEF Shape

LEMMA OwnHeaderIs ==
  ASSUME NEW l, l.size \in Nat, ~l.enum
  PROVE  ValueOf(l, OwnHeader(l)) /\ Raw(l, OwnHeader(l)) = OwnHeader(l)
<1> DEFINE v == OwnHeader(l)
           r == Raw(l, v)
<1>1. v = [b \in 1 .. l.size |-> v[b]]
  BY DEF OwnHeader, HeaderField
<1> HIDE DEF v
<1>2. IsSeq(v) /\ Len(v) = l.size
  BY <1>1, FunctionIsSeq
<1>3. Len(v) >= l.size
  BY <1>2
<1>4. IsSeq(r) /\ Len(r) = l.size /\ \A b \in 1 .. l.size : r[b] = v[b]
  BY <1>2, <1>3, RawIs
<1> HIDE DEF r
<1>5. IsSeq(r) /\ IsSeq(v) /\ Len(r) = Len(v) /\ \A b \in 1 .. Len(r) : r[b] = v[b]
  BY <1>2, <1>4
<1>6. r = v
  BY ONLY <1>5, SameSeq
<1> QED
  BY <1>2, <1>3, <1>6 DEF r, v, ValueOf

LEMMA HeadersShape ==
  ASSUME NEW total, LaidOut(layout, total), NEW p, NEW obj, Shape(layout, obj)
  PROVE  /\ Shape(layout, WithHeaders(p, obj))
         /\ \A i \in 1 .. Len(layout) :
              WithHeaders(p, obj)[i] = IF FillsIn(p, layout[i]) THEN OwnHeader(layout[i]) ELSE obj[i]
<1>1. /\ DOMAIN layout = 1 .. Len(layout)
      /\ \A i \in 1 .. Len(layout) : /\ layout[i].size \in Nat
                                     /\ layout[i].header = "own" => ~layout[i].enum
  BY LeavesAre
<1> DEFINE new == WithHeaders(p, obj)
<1>2. /\ DOMAIN new = DOMAIN layout
      /\ \A i \in 1 .. Len(layout) :
           new[i] = IF FillsIn(p, layout[i]) THEN OwnHeader(layout[i]) ELSE obj[i]
  BY <1>1 DEF WithHeaders
<1> HIDE DEF new
<1>3. ASSUME NEW i \in 1 .. Len(layout) PROVE ValueOf(layout[i], new[i])
  <2> DEFINE l == layout[i]
  <2>1. l.size \in Nat /\ (l.header = "own" => ~l.enum) /\ ValueOf(l, obj[i])
    BY <1>1 DEF Shape
  <2>2. new[i] = IF FillsIn(p, l) THEN OwnHeader(l) ELSE obj[i]
    BY <1>2
  <2>3. FillsIn(p, l) => l.header = "own"
    BY DEF FillsIn
  <2> HIDE DEF l
  <2>4. FillsIn(p, l) => ValueOf(l, OwnHeader(l))
    BY <2>1, <2>3, OwnHeaderIs
  <2> QED
    BY <2>1, <2>2, <2>4 DEF l
<1> QED
  BY <1>2, <1>3 DEF Shape, new

-----------------------------------------------------------------------------
(* The invariant.                                                          *)

\* What is on the wire was packed from an object with its headers filled in.
WireOK ==
  wire # Nothing =>
    /\ wire.by \in Program /\ lang[wire.by] # "dyn"
    /\ Shape(layout, wire.obj)
    /\ Packed(layout, MessageSize(spec), wire.bytes, wire.obj)
    /\ \A i \in 1 .. Len(layout) :
         FillsIn(wire.by, layout[i]) => wire.obj[i] = OwnHeader(layout[i])

IInv ==
  /\ spec \in SpecFile /\ lang \in Langs
  /\ LaidOut(layout, MessageSize(spec))
  /\ DOMAIN mem = Program /\ \A p \in Program : Shape(layout, mem[p])
  /\ WireOK
  /\ got # Nothing => got.by \in Program /\ wire # Nothing
  /\ DeliveredOrKept

\* What a header is on the wire.
LEMMA HeaderRead ==
  ASSUME IInv, wire # Nothing, NEW i \in 1 .. Len(layout)
  PROVE  /\ Read(wire.bytes, layout[i]) = Raw(layout[i], wire.obj[i])
         /\ IsSeq(Read(wire.bytes, layout[i])) /\ Len(Read(wire.bytes, layout[i])) = layout[i].size
         /\ layout[i].header = "own" => Read(wire.bytes, layout[i]) = wire.obj[i]
         /\ FillsIn(wire.by, layout[i]) => Read(wire.bytes, layout[i]) = OwnHeader(layout[i])
<1> DEFINE total == MessageSize(spec)
           obj == wire.obj
           buf == wire.bytes
           l == layout[i]
           v == obj[i]
<1>1. /\ LaidOut(layout, total) /\ Shape(layout, obj) /\ Packed(layout, total, buf, obj)
      /\ FillsIn(wire.by, l) => v = OwnHeader(l)
  BY DEF IInv, WireOK
<1> HIDE DEF total, obj, buf
<1>2. l.size \in Nat /\ (l.header = "own" => ~l.enum)
  BY <1>1, LeavesAre
<1>3. Tiles(layout, 0, total) /\ Fits(layout, obj)
  BY <1>1, ShapeFits DEF LaidOut
<1>4. Read(buf, l) = Raw(l, v) /\ IsSeq(Raw(l, v)) /\ Len(Raw(l, v)) = l.size
  BY <1>1, <1>3, ReadIs
<1>5. ValueOf(l, v)
  BY <1>1 DEF Shape
<1> HIDE DEF l, v
<1>6. ASSUME ~l.enum PROVE Raw(l, v) = v
  <2> DEFINE r == Raw(l, v)
  <2>1. IsSeq(v) /\ Len(v) >= l.size /\ Len(v) = l.size
    BY <1>5, <1>6 DEF ValueOf
  <2>2. IsSeq(r) /\ Len(r) = l.size /\ \A b \in 1 .. l.size : r[b] = v[b]
    BY <1>2, <2>1, RawIs
  <2> HIDE DEF r
  <2>3. IsSeq(r) /\ IsSeq(v) /\ Len(r) = Len(v) /\ \A b \in 1 .. Len(r) : r[b] = v[b]
    BY <2>1, <2>2
  <2>4. r = v
    BY ONLY <2>3, SameSeq
  <2> QED
    BY <2>4 DEF r
<1>7. FillsIn(wire.by, l) => l.header = "own"
  BY DEF FillsIn
<1> QED
  BY <1>1, <1>2, <1>4, <1>6, <1>7 DEF l, v, buf, obj

\* A header that was filled in matches, wherever a message begins.
LEMMA FilledMatch ==
  ASSUME IInv, wire # Nothing, lang[wire.by] \in {"c", "py"}, NEW frame
  PROVE  HeaderMatches(wire.bytes, frame)
<1>1. DOMAIN layout = 1 .. Len(layout)
  BY LeavesAre DEF IInv
<1>2. ASSUME NEW i \in 1 .. Len(layout), layout[i].header = "own"
      PROVE  Read(wire.bytes, layout[i]) = OwnHeader(layout[i])
  <2>1. FillsIn(wire.by, layout[i])
    BY <1>2 DEF FillsIn
  <2> QED
    BY <2>1, HeaderRead
<1>3. \A l \in Range(layout) : \E i \in 1 .. Len(layout) : l = layout[i]
  BY <1>1 DEF Range
<1> QED
  BY <1>2, <1>3 DEF HeaderMatches

\* Which leaves an unpack sets, and where it reads them.
Sets(p, buf, i) == CASE lang[p] \in {"c", "py"} -> SetsC(buf, layout[i])
                     [] lang[p] = "cc" -> SetsCc(buf, layout[i])
                     [] lang[p] = "dyn" -> TRUE
From(p, i) == IF lang[p] = "dyn" THEN DynLeaf(i) ELSE layout[i]

LEMMA UnpackedIs ==
  ASSUME IInv, wire # Nothing, NEW p, NEW obj, Shape(layout, obj)
  PROVE  /\ Shape(layout, Unpacked(p, wire.bytes, obj))
         /\ \A i \in 1 .. Len(layout) :
              \/ Sets(p, wire.bytes, i)
                 /\ Raw(layout[i], Unpacked(p, wire.bytes, obj)[i]) = Raw(layout[i], wire.obj[i])
              \/ ~Sets(p, wire.bytes, i) /\ Unpacked(p, wire.bytes, obj)[i] = obj[i]
<1> DEFINE buf == wire.bytes
           new == Unpacked(p, buf, obj)
           n == Len(layout)
<1>1. new = [i \in DOMAIN layout |->
               IF Sets(p, buf, i) THEN InMemory(p, layout[i], Read(buf, From(p, i))) ELSE obj[i]]
  BY DEF Unpacked, Sets, From
<1>2. /\ DOMAIN layout = 1 .. n /\ LaidOut(layout, MessageSize(spec))
      /\ \A i \in 1 .. n : layout[i].size \in Nat /\ layout[i].enum \in BOOLEAN /\ IsLeaf(layout[i])
  BY LeavesAre DEF IInv
<1>3. ASSUME NEW i \in 1 .. n PROVE Read(buf, From(p, i)) = Read(buf, layout[i])
  <2>1. Tiles(layout, 0, MessageSize(spec)) /\ IsLeaf(layout[i])
    BY <1>2 DEF LaidOut
  <2>2. Read(buf, DynLeaf(i)) = Read(buf, layout[i])
    BY <2>1, DynReadIs
  <2> QED
    BY <2>2 DEF From
<1>4. ASSUME NEW i \in 1 .. n
      PROVE  LET v == InMemory(p, layout[i], Read(buf, layout[i]))
             IN  ValueOf(layout[i], v) /\ Raw(layout[i], v) = Raw(layout[i], wire.obj[i])
  <2> DEFINE l == layout[i]
             raw == Read(buf, l)
  <2>1. IsSeq(raw) /\ Len(raw) = l.size /\ raw = Raw(l, wire.obj[i])
    BY HeaderRead
  <2>2. l.size \in Nat /\ l.enum \in BOOLEAN
    BY <1>2
  <2> HIDE DEF l, raw
  <2>3. ValueOf(l, InMemory(p, l, raw)) /\ Raw(l, InMemory(p, l, raw)) = raw
    BY <2>1, <2>2, InMemoryIs
  <2> QED
    BY <2>1, <2>3 DEF l, raw
<1> HIDE DEF buf, new, n
<1>5. \A i \in 1 .. n :
        \/ Sets(p, buf, i) /\ new[i] = InMemory(p, layout[i], Read(buf, layout[i]))
        \/ ~Sets(p, buf, i) /\ new[i] = obj[i]
  BY <1>1, <1>2, <1>3
<1>6. \A i \in 1 .. n : ValueOf(layout[i], new[i])
  <2>1. \A i \in 1 .. n : ValueOf(layout[i], obj[i])
    BY DEF Shape, n
  <2> QED
    BY <1>4, <1>5, <2>1
<1>7. DOMAIN new = DOMAIN layout
  BY <1>1
<1>8. Shape(layout, new)
  BY <1>6, <1>7 DEF Shape, n
<1>9. ASSUME NEW i \in 1 .. n
      PROVE  \/ Sets(p, buf, i) /\ Raw(layout[i], new[i]) = Raw(layout[i], wire.obj[i])
             \/ ~Sets(p, buf, i) /\ new[i] = obj[i]
  BY <1>4, <1>5
<1> QED
  BY <1>8, <1>9 DEF new, buf, n

\* The leaves that an unpack which reports success may leave as they were.
Keeps(p, l) ==
  CASE lang[p] = "dyn" -> FALSE
    [] lang[p] = "cc" -> l.header = "user" \/ (l.header = "own" /\ Nested(l))
    [] OTHER -> l.header = "user" \/ (Nested(l) /\ lang[wire.by] = "cc")

LEMMA SetsUnlessKept ==
  ASSUME IInv, wire # Nothing, HeaderMatches(wire.bytes, layout[1].frames[1]),
         NEW p \in Program, NEW i \in 1 .. Len(layout), ~Sets(p, wire.bytes, i)
  PROVE  Keeps(p, layout[i])
<1> DEFINE l == layout[i]
           buf == wire.bytes
<1>1. lang[p] \in {"c", "cc", "py", "dyn"} /\ lang[wire.by] \in {"c", "cc", "py"}
  <2>1. lang \in [Program -> Lang]
    BY LangsAssumption DEF LangsAssumption, IInv
  <2>2. wire.by \in Program /\ lang[wire.by] # "dyn"
    BY DEF IInv, WireOK
  <2> QED
    BY <2>1, <2>2 DEF Lang
<1>2. /\ l.header \in {"none", "own", "user"} /\ Len(l.frames) \in Nat /\ Len(l.frames) >= 1
      /\ DOMAIN l.frames = 1 .. Len(l.frames)
      /\ l.frames[1] = layout[1].frames[1]
  BY LeavesAre DEF IInv
<1>3. HeaderMatches(buf, l.frames[1])
  BY <1>2
<1>4. CASE lang[p] \in {"c", "py"}
  <2>1. ~SetsC(buf, l)
    BY <1>4 DEF Sets
  <2>2. l.header = "user" \/ \E j \in DOMAIN l.frames : ~HeaderMatches(buf, l.frames[j])
    BY <2>1 DEF SetsC
  <2>3. ASSUME NEW j \in DOMAIN l.frames, ~HeaderMatches(buf, l.frames[j])
        PROVE  Nested(l) /\ lang[wire.by] = "cc"
    <3>1. lang[wire.by] = "cc"
      BY <1>1, <2>3, FilledMatch
    <3>2. j # 1
      BY <1>3, <2>3
    <3> HIDE DEF l
    <3>3. Len(l.frames) > 1
      BY <1>2, <2>3, <3>2
    <3> QED
      BY <3>1, <3>3 DEF Nested
  <2> HIDE DEF l
  <2>4. l.header = "user" \/ (Nested(l) /\ lang[wire.by] = "cc")
    BY <2>2, <2>3
  <2>5. lang[p] # "dyn" /\ lang[p] # "cc"
    BY <1>4
  <2>6. Keeps(p, l)
    BY <2>4, <2>5 DEF Keeps
  <2> QED
    BY <2>6 DEF l
<1>5. CASE lang[p] = "cc"
  <2>1. ~SetsCc(buf, l)
    BY <1>5 DEF Sets
  <2> HIDE DEF l, buf
  <2>2. l.header = "user" \/ (l.header = "own" /\ Nested(l))
    BY <1>2, <1>3, <2>1 DEF SetsCc
  <2>3. Keeps(p, l)
    BY <1>5, <2>2 DEF Keeps
  <2> QED
    BY <2>3 DEF l
<1>6. CASE lang[p] = "dyn"
  <2>1. lang[p] \notin {"c", "py"} /\ lang[p] # "cc"
    BY <1>6
  <2> QED
    BY <1>6, <2>1 DEF Sets
<1> QED
  BY <1>1, <1>4, <1>5, <1>6

LEMMA InitInv == Init => IInv
<1> SUFFICES ASSUME Init PROVE IInv
  OBVIOUS
<1>1. layout = Layout(Meaning(spec, "", 1))
  BY Zenon DEF Init
<1>2. /\ spec \in SpecFile /\ lang \in Langs /\ wire = Nothing /\ got = Nothing
      /\ mem = [p \in Program |-> Object(p, Unset)]
  BY Zenon DEF Init
<1>3. LaidOut(layout, MessageSize(spec))
  <2>1. LaidOut(Layout(Meaning(spec, "", 1)), MessageSize(spec))
    BY <1>2, LayoutOfSpec, Zenon
  <2> QED
    BY <1>1, <2>1, Zenon
<1>4. \A p \in Program : Shape(layout, mem[p])
  BY <1>2, <1>3, ObjectShape
<1>5. DOMAIN mem = Program
  BY <1>2
<1> QED
  BY <1>2, <1>3, <1>4, <1>5 DEF IInv, WireOK, DeliveredOrKept

\* What was packed stays as it was.
LEMMA WireKept ==
  ASSUME WireOK, UNCHANGED <<spec, layout, lang, wire>>
  PROVE  WireOK'
<1>1. MessageSize(spec)' = MessageSize(spec)
  BY DEF MessageSize
<1> QED
  BY <1>1 DEF WireOK, FillsIn

LEMMA ComposeInv ==
  ASSUME IInv, NEW p \in Program, Compose(p)
  PROVE  IInv'
<1>1. UNCHANGED <<spec, layout, lang, wire>> /\ got' = Nothing
  BY DEF Compose
<1>2. PICK v \in Value : mem' = [mem EXCEPT ![p] = Filled(p, v)]
  BY DEF Compose, Filled
<1>3. /\ spec' \in SpecFile /\ lang' \in Langs
      /\ LaidOut(layout', MessageSize(spec'))
  BY <1>1 DEF IInv
<1>4. Shape(layout, Filled(p, v))
  BY FilledShape DEF IInv
<1>5. DOMAIN mem' = Program /\ \A q \in Program : Shape(layout', mem'[q])
  BY <1>1, <1>2, <1>4 DEF IInv
<1>6. WireOK'
  BY <1>1, WireKept DEF IInv
<1> QED
  BY <1>1, <1>3, <1>5, <1>6 DEF IInv, DeliveredOrKept

\* What a program packs.
LEMMA PackIs ==
  ASSUME IInv, NEW p \in Program, Pack(p)
  PROVE  /\ Shape(layout, mem'[p]) /\ Packed(layout, MessageSize(spec), wire'.bytes, mem'[p])
         /\ \A i \in 1 .. Len(layout) :
              mem'[p][i] = IF FillsIn(p, layout[i]) THEN OwnHeader(layout[i]) ELSE mem[p][i]
         /\ wire'.by = p /\ wire'.obj = mem'[p]
         /\ mem' = [mem EXCEPT ![p] = WithHeaders(p, mem[p])]
<1> DEFINE obj == WithHeaders(p, mem[p])
<1>1. mem' = [mem EXCEPT ![p] = WithHeaders(p, mem[p])]
      /\ wire' = [by |-> p, bytes |-> PackBody(mem'[p]), obj |-> mem'[p]]
  BY DEF Pack
<1>2. LaidOut(layout, MessageSize(spec)) /\ Shape(layout, mem[p]) /\ DOMAIN mem = Program
  BY DEF IInv
<1>3. Shape(layout, obj)
      /\ \A i \in 1 .. Len(layout) :
           obj[i] = IF FillsIn(p, layout[i]) THEN OwnHeader(layout[i]) ELSE mem[p][i]
  BY <1>2, HeadersShape
<1> HIDE DEF obj
<1>4. mem'[p] = obj
  BY <1>1, <1>2 DEF obj
<1>5. Packed(layout, MessageSize(spec), PackBody(obj), obj)
  BY <1>2, <1>3, ShapeFits, PackedIs DEF LaidOut
<1>6. wire'.bytes = PackBody(mem'[p]) /\ wire'.by = p /\ wire'.obj = mem'[p]
  BY <1>1
<1> QED
  BY <1>1, <1>3, <1>4, <1>5, <1>6

LEMMA PackInv ==
  ASSUME IInv, NEW p \in Program, Pack(p)
  PROVE  IInv'
<1>1. UNCHANGED <<spec, layout, lang>> /\ got' = Nothing /\ lang[p] # "dyn"
  BY DEF Pack
<1>2. /\ Shape(layout, mem'[p]) /\ Packed(layout, MessageSize(spec), wire'.bytes, mem'[p])
      /\ \A i \in 1 .. Len(layout) :
           mem'[p][i] = IF FillsIn(p, layout[i]) THEN OwnHeader(layout[i]) ELSE mem[p][i]
      /\ wire'.by = p /\ wire'.obj = mem'[p]
      /\ mem' = [mem EXCEPT ![p] = WithHeaders(p, mem[p])]
  BY PackIs
<1>3. /\ spec' \in SpecFile /\ lang' \in Langs
      /\ LaidOut(layout', MessageSize(spec'))
  BY <1>1 DEF IInv
<1>4. DOMAIN mem' = Program /\ \A q \in Program : Shape(layout', mem'[q])
  <2>1. DOMAIN mem' = Program /\ \A q \in Program : q # p => mem'[q] = mem[q]
    BY <1>2 DEF IInv
  <2> QED
    BY <1>1, <1>2, <2>1 DEF IInv
<1>5. WireOK'
  <2>1. wire'.by \in Program /\ lang'[wire'.by] # "dyn"
    BY <1>1, <1>2
  <2>2. Shape(layout', wire'.obj) /\ Packed(layout', MessageSize(spec'), wire'.bytes, wire'.obj)
    BY <1>1, <1>2
  <2>3. ASSUME NEW i \in 1 .. Len(layout), FillsIn(p, layout[i])'
        PROVE  wire'.obj[i] = OwnHeader(layout[i])
    <3>1. FillsIn(p, layout[i])
      BY <1>1, <2>3 DEF FillsIn
    <3> QED
      BY <1>2, <3>1
  <2> QED
    BY <1>1, <1>2, <2>1, <2>2, <2>3 DEF WireOK, FillsIn
<1> QED
  BY <1>1, <1>3, <1>4, <1>5 DEF IInv, DeliveredOrKept

LEMMA UnpackInv ==
  ASSUME IInv, NEW p \in Program, Unpack(p)
  PROVE  IInv'
<1>1. /\ UNCHANGED <<spec, layout, lang, wire>> /\ wire # Nothing
      /\ HeaderMatches(wire.bytes, layout[1].frames[1])
  BY DEF Unpack
<1>2. PICK obj \in Targets(p) : /\ mem' = [mem EXCEPT ![p] = Unpacked(p, wire.bytes, obj)]
                                /\ got' = [by |-> p, into |-> obj]
  BY DEF Unpack
<1>3. LaidOut(layout, MessageSize(spec)) /\ Shape(layout, mem[p]) /\ DOMAIN mem = Program
  BY DEF IInv
<1>4. Shape(layout, obj)
  BY <1>3, ObjectShape DEF Targets
<1> DEFINE new == Unpacked(p, wire.bytes, obj)
<1>5. /\ Shape(layout, new)
      /\ \A i \in 1 .. Len(layout) :
           \/ Sets(p, wire.bytes, i) /\ Raw(layout[i], new[i]) = Raw(layout[i], wire.obj[i])
           \/ ~Sets(p, wire.bytes, i) /\ new[i] = obj[i]
  BY <1>1, <1>4, UnpackedIs
<1>6. \A i \in 1 .. Len(layout) : ~Sets(p, wire.bytes, i) => Keeps(p, layout[i])
  BY <1>1, SetsUnlessKept
<1> HIDE DEF new
<1>7. mem'[p] = new /\ DOMAIN mem' = Program /\ \A q \in Program : q # p => mem'[q] = mem[q]
  BY <1>2, <1>3 DEF new
<1>8. \A q \in Program : Shape(layout', mem'[q])
  BY <1>1, <1>5, <1>7 DEF IInv
<1>9. got'.by = p /\ got'.into = obj
  BY <1>2
<1>10. DeliveredOrKept'
  <2> SUFFICES ASSUME NEW i \in DOMAIN layout
               PROVE  \/ Raw(layout[i], mem'[got'.by][i]) = Raw(layout[i], wire.obj[i])
                      \/ MayKeep(layout[i])' /\ mem'[got'.by][i] = got'.into[i]
    BY <1>1 DEF DeliveredOrKept
  <2>1. i \in 1 .. Len(layout)
    BY <1>3, LeavesAre
  <2>2. CASE Raw(layout[i], new[i]) = Raw(layout[i], wire.obj[i])
    BY <1>7, <1>9, <2>2
  <2>3. CASE ~Sets(p, wire.bytes, i) /\ new[i] = obj[i]
    <3>1. Keeps(p, layout[i])
      BY <1>6, <2>1, <2>3
    <3> DEFINE l == layout[i]
    <3>2. Keeps(p, l) /\ l' = l
      BY <1>1, <3>1
    <3>3. MayKeep(l)'
      <4> HIDE DEF l
      <4> QED
        BY <1>1, <1>9, <3>2 DEF Keeps, MayKeep
    <3> QED
      BY <1>7, <1>9, <2>3, <3>2, <3>3
  <2> QED
    BY <1>5, <2>1, <2>2, <2>3
<1>11. WireOK'
  BY <1>1, WireKept DEF IInv
<1>12. spec' \in SpecFile /\ lang' \in Langs /\ LaidOut(layout', MessageSize(spec'))
  BY <1>1 DEF IInv
<1>13. got'.by \in Program /\ wire' # Nothing
  BY <1>1, <1>9
<1> QED
  BY <1>7, <1>8, <1>10, <1>11, <1>12, <1>13 DEF IInv

LEMMA StepInv == IInv /\ [Next]_vars => IInv'
<1> SUFFICES ASSUME IInv, [Next]_vars PROVE IInv'
  OBVIOUS
<1>1. CASE UNCHANGED vars
  <2>1. UNCHANGED <<spec, layout, lang, wire, mem, got>>
    BY <1>1 DEF vars
  <2>2. WireOK'
    BY <2>1, WireKept DEF IInv
  <2>3. DeliveredOrKept'
    BY <2>1 DEF IInv, DeliveredOrKept, MayKeep
  <2>4. LaidOut(layout', MessageSize(spec'))
    BY <2>1 DEF IInv
  <2> QED
    BY <2>1, <2>2, <2>3, <2>4 DEF IInv
<1>2. CASE Next
  BY <1>2, ComposeInv, PackInv, UnpackInv DEF Next
<1> QED
  BY <1>1, <1>2

-----------------------------------------------------------------------------
(* What holds of the two programs.                                         *)

\* The invariant holds of all specifications that were accepted, all pairs of
\* libraries and all values that applications fill in.
THEOREM BodiesInvariant == Spec => []IInv
BY InitInv, StepInv, PTL DEF Spec

LEMMA InvType == IInv => TypeOK
<1> SUFFICES ASSUME IInv PROVE TypeOK
  OBVIOUS
<1>1. LaidOut(layout, MessageSize(spec))
  BY DEF IInv
<1>2. PackedSize = MessageSize(spec) /\ DOMAIN layout = 1 .. Len(layout)
  BY <1>1, PackedSizeIs, LeavesAre DEF LaidOut
<1>3. PackedSize = Last(Sizes(Meaning(spec, "", 1)))
  BY <1>2, Zenon DEF MessageSize
<1>4. ASSUME NEW p \in Program
      PROVE  /\ DOMAIN mem[p] = DOMAIN layout
             /\ \A i \in DOMAIN layout : Len(mem[p][i]) >= layout[i].size
  <2>1. Shape(layout, mem[p])
    BY DEF IInv
  <2> QED
    BY <1>2, <2>1 DEF Shape, ValueOf
<1>5. wire # Nothing => wire.by \in Program /\ DOMAIN wire.bytes = 0 .. (PackedSize - 1)
  BY <1>2 DEF IInv, WireOK, Packed, IsBuffer
<1>6. spec \in SpecFile /\ lang \in Langs /\ (got # Nothing => got.by \in Program /\ wire # Nothing)
  BY DEF IInv
<1> QED
  BY <1>3, <1>4, <1>5, <1>6, Zenon DEF TypeOK

\* Objects keep their shape, and a buffer is as long as the packed size of its type.
THEOREM BodiesTypeCorrect == Spec => []TypeOK
BY BodiesInvariant, InvType, PTL

LEMMA InvWritten == IInv => WholeBufferWritten
<1> SUFFICES ASSUME IInv, wire # Nothing, \A i \in DOMAIN layout : Unset \notin Range(wire.obj[i]),
                    NEW x \in DOMAIN wire.bytes
             PROVE  wire.bytes[x] # Unset
  BY DEF WholeBufferWritten
<1> DEFINE total == MessageSize(spec)
           buf == wire.bytes
           obj == wire.obj
<1>1. LaidOut(layout, total) /\ Shape(layout, obj) /\ Packed(layout, total, buf, obj)
  BY DEF IInv, WireOK
<1> HIDE DEF total
<1>2. Tiles(layout, 0, total) /\ DOMAIN layout = 1 .. Len(layout)
  BY <1>1, LeavesAre DEF LaidOut
<1>3. x \in 0 .. (total - 1)
  BY <1>1 DEF Packed, IsBuffer
<1>4. PICK i \in 1 .. Len(layout) : x \in layout[i].offset .. (layout[i].offset + layout[i].size - 1)
  BY <1>2, <1>3, TilesCover
<1> DEFINE o == layout[i].offset
           s == layout[i].size
           c == (o + s) - x
           v == obj[i]
<1>5. o \in Nat /\ s \in Nat
  BY <1>2 DEF Tiles
<1>6. c \in 1 .. s /\ (o + s) - c = x
  <2>1. x \in o .. (o + s - 1)
    BY <1>4
  <2> HIDE DEF o, s
  <2> QED
    BY <1>5, <2>1
<1> HIDE DEF c
<1>7. buf[x] = v[c]
  BY <1>1, <1>6 DEF Packed, Packs
<1>8. IsSeq(v) /\ Len(v) >= s
  BY <1>1 DEF Shape, ValueOf
<1>9. Unset \notin Range(v)
  BY <1>2
<1> HIDE DEF s, v, buf
<1>10. c \in DOMAIN v
  BY <1>5, <1>6, <1>8, SeqIs
<1>11. v[c] # Unset
  BY <1>9, <1>10 DEF Range
<1> QED
  BY <1>7, <1>11 DEF buf

\* A packed object of which every leaf was set leaves no byte of the buffer as it was.
THEOREM BuffersWritten == Spec => []WholeBufferWritten
BY BodiesInvariant, InvWritten, PTL

\* What an unpack reports as received is what was packed, by whichever libraries,
\* apart from the leaves that the library is known to leave as they were.
THEOREM BodiesDelivered == Spec => []DeliveredOrKept
<1>1. IInv => DeliveredOrKept
  BY DEF IInv
<1> QED
  BY <1>1, BodiesInvariant, PTL

LEMMA InvPopulated == IInv => HeadersPopulated
<1> SUFFICES ASSUME IInv, wire # Nothing, NEW i \in DOMAIN layout, layout[i].header = "own"
             PROVE  Read(wire.bytes, layout[i]) = IF lang[wire.by] = "cc" /\ Nested(layout[i])
                                                  THEN wire.obj[i] ELSE OwnHeader(layout[i])
  BY DEF HeadersPopulated
<1>1. i \in 1 .. Len(layout)
  BY LeavesAre DEF IInv
<1>2. /\ Read(wire.bytes, layout[i]) = wire.obj[i]
      /\ FillsIn(wire.by, layout[i]) => Read(wire.bytes, layout[i]) = OwnHeader(layout[i])
  BY <1>1, HeaderRead
<1>3. lang[wire.by] \in {"c", "cc", "py"}
  <2>1. lang \in [Program -> Lang]
    BY LangsAssumption DEF LangsAssumption, IInv
  <2>2. wire.by \in Program /\ lang[wire.by] # "dyn"
    BY DEF IInv, WireOK
  <2> QED
    BY <2>1, <2>2 DEF Lang
<1>4. ~(lang[wire.by] = "cc" /\ Nested(layout[i])) => FillsIn(wire.by, layout[i])
  BY <1>3 DEF FillsIn
<1> QED
  BY <1>2, <1>4

\* Every header of a message is populated when it is packed, except that C++ sends
\* that of a message inside another as the application left it.
THEOREM BodiesHeadersPopulated == Spec => []HeadersPopulated
BY BodiesInvariant, InvPopulated, PTL

LEMMA RelayStep ==
  ASSUME IInv, NEW p \in Program, Pack(p), got # Nothing, got.by = p,
         \A l \in Range(layout) : l.header # "user" /\ ~Nested(l)
  PROVE  wire'.bytes = wire.bytes
<1> DEFINE total == MessageSize(spec)
           x == mem'[p]
           y == wire.obj
<1>1. wire # Nothing /\ LaidOut(layout, total) /\ DOMAIN layout = 1 .. Len(layout)
  BY LeavesAre DEF IInv
<1>2. /\ Shape(layout, x) /\ Packed(layout, total, wire'.bytes, x)
      /\ \A i \in 1 .. Len(layout) :
           x[i] = IF FillsIn(p, layout[i]) THEN OwnHeader(layout[i]) ELSE mem[p][i]
  BY PackIs
<1>3. /\ Shape(layout, y) /\ Packed(layout, total, wire.bytes, y)
      /\ \A i \in 1 .. Len(layout) : FillsIn(wire.by, layout[i]) => y[i] = OwnHeader(layout[i])
  BY <1>1 DEF IInv, WireOK
<1> HIDE DEF total, x, y
<1>4. ASSUME NEW i \in 1 .. Len(layout) PROVE Raw(layout[i], x[i]) = Raw(layout[i], y[i])
  <2> DEFINE l == layout[i]
  <2>1. l.header # "user" /\ ~Nested(l)
    BY <1>1 DEF Range
  <2>2. CASE l.header = "own"
    <3>1. FillsIn(p, l) /\ FillsIn(wire.by, l)
      BY <2>1, <2>2 DEF FillsIn
    <3> QED
      BY <1>2, <1>3, <3>1
  <2>3. CASE l.header # "own"
    <3>1. ~FillsIn(p, l)
      BY <2>3 DEF FillsIn
    <3>2. x[i] = mem[p][i]
      BY <1>2, <3>1
    <3>3. Raw(l, mem[p][i]) = Raw(l, y[i]) \/ MayKeep(l)
      <4>1. DeliveredOrKept
        BY DEF IInv
      <4> QED
        BY <1>1, <4>1 DEF DeliveredOrKept, y
    <3>4. ~MayKeep(l)
      <4> HIDE DEF l
      <4> QED
        BY <2>1 DEF MayKeep
    <3> QED
      BY <3>2, <3>3, <3>4
  <2> QED
    BY <2>2, <2>3
<1>5. Tiles(layout, 0, total) /\ Fits(layout, x) /\ Fits(layout, y)
  BY <1>1, <1>2, <1>3, ShapeFits DEF LaidOut
<1>6. \A i \in 1 .. Len(layout) : Raw(layout[i], x[i]) = Raw(layout[i], y[i])
  BY <1>4
<1> DEFINE a == wire'.bytes
           b == wire.bytes
<1>7. Packed(layout, total, a, x) /\ Packed(layout, total, b, y)
  BY <1>2, <1>3
<1> HIDE DEF a, b
<1>8. a = b
  BY ONLY <1>5, <1>6, <1>7, BufferSame
<1> QED
  BY <1>8 DEF a, b

\* A program that packs again what it unpacked passes on the bytes it received, for
\* messages with neither a message nor a field of type SsHeader in them.
THEOREM BodiesRelayed == Spec => RelayIsExact
<1>1. IInv /\ [Next]_vars =>
        [\A p \in Program :
           /\ Pack(p) /\ got # Nothing /\ got.by = p
           /\ \A l \in Range(layout) : l.header # "user" /\ ~Nested(l)
           => wire'.bytes = wire.bytes]_vars
  BY RelayStep
<1> QED
  BY <1>1, BodiesInvariant, PTL DEF Spec, RelayIsExact
=============================================================================
