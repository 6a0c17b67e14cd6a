----------------------------- MODULE SpecTypes -----------------------------
(***************************************************************************)
(* The types of a stuff_sack specification: the objects that parse_yaml    *)
(* builds for them, their UIDs and packed sizes, and what a specification  *)
(* means apart from any order of parsing.                                  *)
(*                                                                         *)
(* A specification is the sequence of its entries.  What YAML can get      *)
(* wrong in the shape of a node (a list for a map, an unknown key, a       *)
(* string for an integer) is one value of its "shape": "ok", "bad", or     *)
(* "bare" for a member that has metadata keys only.                        *)
(***************************************************************************)
EXTENDS Integers, Sequences, SequencesExt, FiniteSets

CONSTANTS
  Primitive,    \* the sequence of primitive type names
  PrimSize,     \* the size of each in bytes
  Hash(_)       \* the CRC-32 of a description

Kinds == {"Bitfield", "Enum", "Struct", "Message"}
\* The registry holds each primitive under its name, and next to them the header.
ASSUME PrimitiveAssumption ==
  /\ Primitive \in Seq(STRING) /\ IsInjective(Primitive)
  /\ {"uint16", "uint32"} \subseteq Range(Primitive) /\ "SsHeader" \notin Range(Primitive)

ASSUME SizeAssumption == \A name \in Range(Primitive) : PrimSize[name] \in Nat

Reserved == Range(Primitive) \cup {"SsHeader"}
MaxBits == 64

-----------------------------------------------------------------------------
(* Type objects.                                                           *)

\* A reference to the n-th type object of dict d.
Ref(d, n) == [dict |-> d, index |-> n]

TypeObj(name, kind, fields) == [name |-> name, kind |-> kind, fields |-> fields]

\* Members of a type: bits is that of a bitfield, type, lens (array lengths,
\* the innermost first) and alias are those of a structure.
NoRef == Ref(0, 0)
Member(name, type, lens, bits, alias) ==
  [name |-> name, type |-> type, lens |-> lens, bits |-> bits, alias |-> alias]
Scalar(name, ref) == Member(name, ref, <<>>, 0, FALSE)

Names(types) == {types[n].name : n \in DOMAIN types}
IndexOf(types, name) == CHOOSE n \in DOMAIN types : types[n].name = name

\* The types of some kinds, in order.
OfKind(types, kinds) ==
  FoldLeft(LAMBDA some, t : IF t.kind \in kinds THEN Append(some, t) ELSE some, <<>>, types)
Messages(types) == OfKind(types, {"Message"})
NameSeq(ts) == [n \in DOMAIN ts |-> ts[n].name]

\* The dict d as reset_types fills it.
Builtins(d) ==
  LET prims == [n \in DOMAIN Primitive |-> TypeObj(Primitive[n], "Primitive", <<>>)]
      ref(name) == Ref(d, IndexOf(prims, name))
  IN  Append(prims, TypeObj("SsHeader", "Struct",
                <<Scalar("uid", ref("uint32")), Scalar("len", ref("uint16"))>>))

Bits(fields) == FoldLeft(LAMBDA sum, f : sum + f.bits, 0, fields)

-----------------------------------------------------------------------------
(* UIDs.  A hash is taken of a name or a hash, a number, and hashes.  The  *)
(* kind of a type is not part of what is hashed.                           *)

PrimitiveHash(name, size) == Hash([name |-> name, n |-> size, parts |-> <<>>])
ArrayHash(uid, length) == Hash([name |-> "", n |-> length, parts |-> <<uid>>])
ValueHash(name, number) == Hash([name |-> name, n |-> number, parts |-> <<>>])
FieldHash(name, uid) == Hash([name |-> name, n |-> 0, parts |-> <<uid>>])
TypeHash(name, uids) == Hash([name |-> name, n |-> 0, parts |-> uids])

ArrayUid(uid, lens) == FoldLeft(ArrayHash, uid, lens)

\* The UID of a type, given those of the types before it in its dict.
TypeUid(t, before) ==
  LET part(n) ==
        LET f == t.fields[n]
        IN CASE t.kind = "Enum" -> ValueHash(f.name, n - 1)
             [] t.kind = "Bitfield" -> ValueHash(f.name, f.bits)
             [] OTHER -> FieldHash(f.name, ArrayUid(before[f.type.index], f.lens))
  IN  IF t.kind = "Primitive" THEN PrimitiveHash(t.name, PrimSize[t.name])
      ELSE TypeHash(t.name, [n \in DOMAIN t.fields |-> part(n)])

Uids(types) ==
  FoldLeft(LAMBDA before, t : Append(before, TypeUid(t, before)), <<>>, types)

-----------------------------------------------------------------------------
(* Packed sizes.                                                           *)

\* _bytes_for_bits: the smallest of 1, 2, 4 and 8 bytes that hold the bits.
BytesForBits(bits) ==
  CHOOSE x \in {1, 2, 4, 8} :
    /\ x >= (bits - 1) \div 8 + 1
    /\ \A y \in {1, 2, 4, 8} : y >= (bits - 1) \div 8 + 1 => x <= y

\* int.bit_length of a number below 2^64.
BitLength(v) == CHOOSE k \in 0 .. 64 : v < 2^k /\ (k = 0 \/ v >= 2^(k - 1))

\* An enum is signed, and has to hold the number of its values.
EnumBytes(count) == BytesForBits(BitLength(count) + 1)

ArraySize(base, lens) == FoldLeft(LAMBDA size, n : size * n, base, lens)
MembersSize(before, fields) ==
  FoldLeft(LAMBDA sum, f : sum + ArraySize(before[f.type.index], f.lens), 0, fields)

\* The bytes attribute of a bitfield or enum is 1 until something is added.
TypeSize(t, before) ==
  CASE t.kind = "Primitive" -> PrimSize[t.name]
    [] t.kind = "Enum" -> IF t.fields = <<>> THEN 1 ELSE EnumBytes(Len(t.fields))
    [] t.kind = "Bitfield" -> IF t.fields = <<>> THEN 1 ELSE BytesForBits(Bits(t.fields))
    [] OTHER -> MembersSize(before, t.fields)

Sizes(types) ==
  FoldLeft(LAMBDA before, t : Append(before, TypeSize(t, before)), <<>>, types)

-----------------------------------------------------------------------------
(* What a specification means.                                             *)

MemberOK(e, n, earlier) ==
  LET f == e.items[n]
  IN  /\ f.shape = "ok"
      /\ \A m \in 1 .. (n - 1) : e.items[m].name # f.name
      /\ e.kind = "Message" => f.name # "ss_header"
      /\ e.kind = "Bitfield" => f.bits >= 1
      /\ e.kind \in {"Struct", "Message"} =>
           f.type \in earlier /\ \A m \in DOMAIN f.lens : f.lens[m] >= 1

WellFormed(s) ==
  \A m \in DOMAIN s :
    LET e == s[m]
        earlier == Reserved \cup {s[n].name : n \in 1 .. (m - 1)}
    IN  /\ e.shape = "ok" /\ e.kind \in Kinds /\ e.name \notin earlier
        /\ \A n \in DOMAIN e.items : MemberOK(e, n, earlier)
        /\ e.kind = "Bitfield" => Bits(e.items) <= MaxBits

\* A specification that the generators accept, and the C compiler: an enum has no more
\* values than its type in C, an int, can tell apart.
IntMax == 2147483647
Acceptable(s) ==
  /\ s \in Seq(Range(s)) /\ WellFormed(s)
  /\ \A m \in DOMAIN s :
       /\ s[m].items \in Seq(Range(s[m].items)) /\ Len(s[m].items) <= IntMax
       /\ \A i \in Range(s[m].items) : i.bits \in Int /\ i.lens \in Seq(Int)

\* The member and the type object that an item and an entry of a specification stand
\* for in dict d, where types are the types that have names so far.
HeaderOf(d, types) == Scalar("ss_header", Ref(d, IndexOf(types, "SsHeader")))
MemberOf(e, f, t, d, types) ==
  CASE e.kind = "Bitfield" -> Member(f.name, NoRef, <<>>, f.bits, FALSE)
    [] e.kind = "Enum" -> Member(f.name, NoRef, <<>>, 0, FALSE)
    [] OTHER -> Member(f.name, Ref(d, IndexOf(types, f.type)), f.lens, 0, t \in f.tags)

\* The object with the first n items of its entry.
ObjectOf(e, n, t, d, types) ==
  TypeObj(e.name, e.kind,
          (IF e.kind = "Message" THEN <<HeaderOf(d, types)>> ELSE <<>>)
            \o [i \in 1 .. n |-> MemberOf(e, e.items[i], t, d, types)])

\* The type objects that a well-formed specification stands for, in dict d.
Meaning(s, t, d) ==
  Builtins(d) \o
    [m \in DOMAIN s |-> ObjectOf(s[m], Len(s[m].items), t, d, Builtins(d) \o s)]
=============================================================================
