----------------------------- MODULE MCBitfields -----------------------------
(***************************************************************************)
(* Instances of Bitfields for TLC, with bytes of two bits: words have 2,   *)
(* 4, 8 and 16 bits, an int has 8.                                         *)
(***************************************************************************)
EXTENDS Bitfields

Sizes == {2, 5, 8, 9}
SumOf(sizes) == FoldLeft(LAMBDA sum, n : sum + n, 0, sizes)

\* The fields of a specification, from their sizes.
Laid(sizes) == [i \in DOMAIN sizes |->
  [bits |-> sizes[i], offset |-> SumOf(SubSeq(sizes, 1, i - 1)), signed |-> FALSE]]
Struct(sizes) == [writer |-> "struct", bytes |-> BytesFor(SumOf(sizes)), fields |-> Laid(sizes)]

OfSpecifications ==
  {Struct(f) : f \in {g \in UNION {[1 .. k -> Sizes] : k \in 1 .. 3} : SumOf(g) <= 16}}

\* Fields that a caller puts anywhere.
Caller(bits, offset, signed) == [bits |-> bits, offset |-> offset, signed |-> signed]
CallerFields ==
  {Caller(bits, offset, signed) : bits \in {1, 2, 5}, offset \in {0, 2, 3}, signed \in BOOLEAN}

OfCallers ==
  {[writer |-> "PackBitfield", bytes |-> b, fields |-> f] :
     b \in {1, 2, 4}, f \in UNION {[1 .. k -> CallerFields] : k \in 1 .. 2}}
Fit(s) ==
  /\ \A f \in Range(s.fields) : PositionsOf(f) \subseteq Positions(s.bytes)
  /\ \A i, j \in DOMAIN s.fields :
       i # j => PositionsOf(s.fields[i]) \cap PositionsOf(s.fields[j]) = {}

Setups == {s \in OfSpecifications \cup {c \in OfCallers : Fit(c)} : Narrow(s)}

\* The mask of a field as wide as its word is undefined in words of four bytes.
WholeWords == {s \in OfSpecifications : ~Narrow(s)}
=============================================================================
