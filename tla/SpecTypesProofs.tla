--------------------------- MODULE SpecTypesProofs ---------------------------
(***************************************************************************)
(* Facts about SpecTypes, for any primitive types and hash: what the       *)
(* registry begins with, the bits of a bitfield, the UIDs of a list of     *)
(* types, and where the names of an accepted specification are found.      *)
(* Every proof about a reader of specifications rests on them.             *)
(***************************************************************************)
EXTENDS SpecTypes, SequenceTheorems, FiniteSetTheorems, TLAPS

-----------------------------------------------------------------------------
(* Sequences of anything.                                                  *)

IsSeq(s) == s \in Seq(Range(s))

LEMMA SeqIs ==
  ASSUME NEW s, IsSeq(s)
  PROVE  /\ Len(s) \in Nat /\ DOMAIN s = 1 .. Len(s)
         /\ s = [n \in 1 .. Len(s) |-> s[n]]
BY LenProperties DEF IsSeq

LEMMA FunctionIsSeq ==
  ASSUME NEW n \in Nat, NEW f, f = [i \in 1 .. n |-> f[i]]
  PROVE  IsSeq(f) /\ Len(f) = n /\ DOMAIN f = 1 .. n
<1>1. DOMAIN f = 1 .. n
  OBVIOUS
<1>2. \A i \in 1 .. n : f[i] \in Range(f)
  BY <1>1 DEF Range
<1>3. f \in Seq(Range(f))
  BY <1>2
<1>4. Len(f) = n
  BY <1>1, <1>3, LenProperties
<1> QED
  BY <1>1, <1>3, <1>4 DEF IsSeq

LEMMA SeqOver ==
  ASSUME NEW s, IsSeq(s), NEW S, Range(s) \subseteq S
  PROVE  s \in Seq(S)
<1>1. DOMAIN s = 1 .. Len(s) /\ Len(s) \in Nat /\ s = [n \in 1 .. Len(s) |-> s[n]]
  BY SeqIs
<1>2. \A n \in 1 .. Len(s) : s[n] \in S
  BY <1>1 DEF Range
<1> QED
  BY <1>1, <1>2

LEMMA SeqOfSome ==
  ASSUME NEW S, NEW s \in Seq(S)
  PROVE  IsSeq(s)
<1>1. Len(s) \in Nat /\ s = [n \in 1 .. Len(s) |-> s[n]]
  BY LenProperties
<1> QED
  BY <1>1, FunctionIsSeq

LEMMA AppendIs ==
  ASSUME NEW s, IsSeq(s), NEW e
  PROVE  /\ IsSeq(Append(s, e)) /\ Len(Append(s, e)) = Len(s) + 1
         /\ DOMAIN Append(s, e) = 1 .. (Len(s) + 1)
         /\ \A n \in 1 .. Len(s) : Append(s, e)[n] = s[n]
         /\ Append(s, e)[Len(s) + 1] = e
<1> DEFINE S == Range(s) \cup {e}
<1>1. s \in Seq(S) /\ e \in S
  BY SeqOver
<1> HIDE DEF S
<1>2. /\ Append(s, e) \in Seq(S) /\ Len(Append(s, e)) = Len(s) + 1
      /\ \A n \in 1 .. Len(s) : Append(s, e)[n] = s[n]
      /\ Append(s, e)[Len(s) + 1] = e
  BY <1>1, AppendProperties
<1>3. IsSeq(Append(s, e))
  BY <1>2, SeqOfSome
<1>4. DOMAIN Append(s, e) = 1 .. (Len(s) + 1)
  BY <1>2, <1>3, SeqIs
<1> QED
  BY <1>2, <1>3, <1>4

LEMMA ConcatIs ==
  ASSUME NEW s, IsSeq(s), NEW t, IsSeq(t)
  PROVE  /\ IsSeq(s \o t) /\ Len(s \o t) = Len(s) + Len(t)
         /\ DOMAIN (s \o t) = 1 .. (Len(s) + Len(t))
         /\ \A n \in 1 .. Len(s) : (s \o t)[n] = s[n]
         /\ \A n \in 1 .. Len(t) : (s \o t)[Len(s) + n] = t[n]
<1> DEFINE S == Range(s) \cup Range(t)
<1>1. s \in Seq(S) /\ t \in Seq(S)
  BY SeqOver
<1> HIDE DEF S
<1>2. /\ s \o t \in Seq(S) /\ Len(s \o t) = Len(s) + Len(t)
      /\ \A n \in 1 .. Len(s) + Len(t) : (s \o t)[n] = IF n <= Len(s) THEN s[n] ELSE t[n - Len(s)]
  BY <1>1, ConcatProperties
<1>3. IsSeq(s \o t)
  BY <1>2, SeqOfSome
<1>4. DOMAIN (s \o t) = 1 .. (Len(s) + Len(t))
  BY <1>2, <1>3, SeqIs
<1>5. Len(s) \in Nat /\ Len(t) \in Nat
  BY SeqIs
<1>6. \A n \in 1 .. Len(s) : (s \o t)[n] = s[n]
  BY <1>2, <1>5
<1>7. \A n \in 1 .. Len(t) : (s \o t)[Len(s) + n] = t[n]
  BY <1>2, <1>5
<1> QED
  BY <1>2, <1>3, <1>4, <1>6, <1>7

LEMMA ExceptIs ==
  ASSUME NEW s, IsSeq(s), NEW i \in 1 .. Len(s), NEW e
  PROVE  /\ IsSeq([s EXCEPT ![i] = e]) /\ Len([s EXCEPT ![i] = e]) = Len(s)
         /\ DOMAIN [s EXCEPT ![i] = e] = 1 .. Len(s)
         /\ [s EXCEPT ![i] = e][i] = e
         /\ \A n \in 1 .. Len(s) : n # i => [s EXCEPT ![i] = e][n] = s[n]
<1>1. Len(s) \in Nat /\ DOMAIN s = 1 .. Len(s)
  BY SeqIs
<1>2. [s EXCEPT ![i] = e] = [n \in 1 .. Len(s) |-> [s EXCEPT ![i] = e][n]]
  BY <1>1
<1>3. /\ IsSeq([s EXCEPT ![i] = e]) /\ Len([s EXCEPT ![i] = e]) = Len(s)
      /\ DOMAIN [s EXCEPT ![i] = e] = 1 .. Len(s)
  BY <1>1, <1>2, FunctionIsSeq
<1> QED
  BY <1>1, <1>3

LEMMA SameSeq ==
  ASSUME NEW s, IsSeq(s), NEW t, IsSeq(t), Len(s) = Len(t), \A n \in 1 .. Len(s) : s[n] = t[n]
  PROVE  s = t
<1>1. s = [n \in 1 .. Len(s) |-> s[n]] /\ t = [n \in 1 .. Len(s) |-> t[n]]
  BY SeqIs
<1> QED
  BY <1>1

\* Nothing but the empty sequence has no elements.
LEMMA EmptyHasNone ==
  ASSUME NEW s, IsSeq(s)
  PROVE  s = <<>> <=> Len(s) = 0
<1>1. Len(s) = 0 => s = <<>>
  <2> SUFFICES ASSUME Len(s) = 0 PROVE s = <<>>
    OBVIOUS
  <2>1. <<>> \in Seq({}) /\ Len(<<>>) = 0
    OBVIOUS
  <2>2. IsSeq(<<>>)
    BY <2>1, SeqOfSome
  <2>3. \A n \in 1 .. Len(s) : s[n] = <<>>[n]
    OBVIOUS
  <2> QED
    BY <2>1, <2>2, <2>3, SameSeq
<1> QED
  BY <1>1

-----------------------------------------------------------------------------
(* The types that are always there.                                        *)

NumBuiltins == Len(Primitive) + 1

\* No two types of one name, so that a name finds its type.
Distinct(types) == \A m, n \in DOMAIN types : types[m].name = types[n].name => m = n

LEMMA IndexIs ==
  ASSUME NEW types, Distinct(types), NEW n \in DOMAIN types
  PROVE  IndexOf(types, types[n].name) = n
BY DEF IndexOf, Distinct

LEMMA IndexOfName ==
  ASSUME NEW types, NEW name \in Names(types)
  PROVE  IndexOf(types, name) \in DOMAIN types /\ types[IndexOf(types, name)].name = name
BY DEF IndexOf, Names

\* References of the types of dict d.
BackIn(types, d) ==
  \A n \in DOMAIN types : \A f \in Range(types[n].fields) :
    f.type # NoRef => f.type.dict = d /\ f.type.index \in 1 .. (n - 1)

LEMMA ObjIs ==
  ASSUME NEW name, NEW kind, NEW fields
  PROVE  /\ TypeObj(name, kind, fields).name = name
         /\ TypeObj(name, kind, fields).kind = kind
         /\ TypeObj(name, kind, fields).fields = fields
BY DEF TypeObj

LEMMA FieldsReplaced ==
  ASSUME NEW o, NEW name, NEW kind, NEW fields, o = TypeObj(name, kind, fields), NEW new
  PROVE  [o EXCEPT !.fields = new] = TypeObj(name, kind, new)
BY DEF TypeObj

LEMMA BuiltinsAre ==
  ASSUME NEW d
  PROVE  /\ IsSeq(Builtins(d)) /\ Len(Builtins(d)) = NumBuiltins
         /\ NumBuiltins \in Nat /\ NumBuiltins >= 1
         /\ \A n \in 1 .. (NumBuiltins - 1) : Builtins(d)[n].name = Primitive[n]
         /\ Builtins(d)[NumBuiltins].name = "SsHeader"
         /\ Distinct(Builtins(d)) /\ BackIn(Builtins(d), d)
<1> DEFINE prims == [n \in DOMAIN Primitive |-> TypeObj(Primitive[n], "Primitive", <<>>)]
           ref(name) == Ref(d, IndexOf(prims, name))
           header == TypeObj("SsHeader", "Struct",
                       <<Scalar("uid", ref("uint32")), Scalar("len", ref("uint16"))>>)
           N == Len(Primitive)
<1>1. N \in Nat /\ DOMAIN Primitive = 1 .. N
  BY PrimitiveAssumption, LenProperties DEF PrimitiveAssumption
<1>2. \A n \in 1 .. N : prims[n] = TypeObj(Primitive[n], "Primitive", <<>>)
  BY <1>1
<1>3. IsSeq(prims) /\ Len(prims) = N /\ DOMAIN prims = 1 .. N
  <2>1. prims = [n \in 1 .. N |-> prims[n]]
    BY <1>1
  <2> HIDE DEF prims
  <2> QED
    BY <1>1, <2>1, FunctionIsSeq
<1>4. Builtins(d) = Append(prims, header)
  BY DEF Builtins
<1>5. ASSUME NEW name \in {"uint16", "uint32"}
      PROVE  ref(name).dict = d /\ ref(name).index \in 1 .. N
  <2>1. PICK n \in DOMAIN Primitive : Primitive[n] = name
    BY PrimitiveAssumption DEF PrimitiveAssumption, Range
  <2>2. prims[n].name = name
    BY <1>1, <1>2, <2>1 DEF TypeObj
  <2>3. name \in Names(prims)
    BY <1>1, <1>3, <2>1, <2>2 DEF Names
  <2> HIDE DEF prims
  <2>4. IndexOf(prims, name) \in 1 .. N
    BY <1>3, <2>3, IndexOfName
  <2> QED
    BY <2>4 DEF Ref
<1> HIDE DEF prims
<1>6. /\ IsSeq(Builtins(d)) /\ Len(Builtins(d)) = N + 1 /\ DOMAIN Builtins(d) = 1 .. (N + 1)
      /\ \A n \in 1 .. N : Builtins(d)[n] = prims[n]
      /\ Builtins(d)[N + 1] = header
  BY <1>3, <1>4, AppendIs
<1>7. \A n \in 1 .. N : Builtins(d)[n].name = Primitive[n] /\ Builtins(d)[n].fields = <<>>
  <2> HIDE DEF header, N
  <2>1. \A n \in 1 .. N : Builtins(d)[n] = TypeObj(Primitive[n], "Primitive", <<>>)
    BY <1>2, <1>6
  <2> QED
    BY <2>1, ObjIs
<1>8. Builtins(d)[N + 1].name = "SsHeader"
  BY <1>6 DEF TypeObj
<1>9. \A n \in 1 .. N : Primitive[n] # "SsHeader"
  BY <1>1, PrimitiveAssumption DEF PrimitiveAssumption, Range
<1>10. \A m, n \in 1 .. N : Primitive[m] = Primitive[n] => m = n
  BY <1>1, PrimitiveAssumption DEF PrimitiveAssumption, IsInjective
<1> HIDE DEF N, header
<1>11. Distinct(Builtins(d))
  BY <1>1, <1>6, <1>7, <1>8, <1>9, <1>10 DEF Distinct
<1>12. \A f \in Range(header.fields) : f.type.dict = d /\ f.type.index \in 1 .. N
  <2>1. Range(header.fields) = {Scalar("uid", ref("uint32")), Scalar("len", ref("uint16"))}
    <3> HIDE DEF ref
    <3> QED
      BY DEF header, TypeObj, Range
  <2> HIDE DEF ref
  <2> QED
    BY <1>5, <2>1 DEF Scalar, Member
<1>13. BackIn(Builtins(d), d)
  <2>1. ASSUME NEW n \in 1 .. (N + 1), NEW f \in Range(Builtins(d)[n].fields)
        PROVE  f.type.dict = d /\ f.type.index \in 1 .. (n - 1)
    <3>1. n \notin 1 .. N
      BY <1>7, <2>1 DEF Range
    <3>2. n = N + 1 /\ n - 1 = N
      BY <1>1, <3>1
    <3> QED
      BY <1>6, <1>12, <2>1, <3>2
  <2> QED
    BY <1>6, <2>1 DEF BackIn
<1> QED
  BY <1>1, <1>6, <1>7, <1>8, <1>11, <1>13 DEF NumBuiltins, N

\* The primitive types, and the header with its two integers.
LEMMA BuiltinsAreTypes ==
  ASSUME NEW d
  PROVE  /\ \A n \in 1 .. (NumBuiltins - 1) :
              Builtins(d)[n] = TypeObj(Primitive[n], "Primitive", <<>>)
         /\ \E a, b \in 1 .. (NumBuiltins - 1) :
              /\ Primitive[a] = "uint32" /\ Primitive[b] = "uint16"
              /\ Builtins(d)[NumBuiltins] =
                   TypeObj("SsHeader", "Struct", <<Scalar("uid", Ref(d, a)), Scalar("len", Ref(d, b))>>)
<1> DEFINE prims == [n \in DOMAIN Primitive |-> TypeObj(Primitive[n], "Primitive", <<>>)]
           ref(name) == Ref(d, IndexOf(prims, name))
           header == TypeObj("SsHeader", "Struct",
                       <<Scalar("uid", ref("uint32")), Scalar("len", ref("uint16"))>>)
           N == Len(Primitive)
<1>1. N \in Nat /\ DOMAIN Primitive = 1 .. N /\ NumBuiltins = N + 1 /\ NumBuiltins - 1 = N
  BY PrimitiveAssumption, LenProperties DEF PrimitiveAssumption, NumBuiltins
<1>2. \A n \in 1 .. N : prims[n] = TypeObj(Primitive[n], "Primitive", <<>>)
  BY <1>1
<1>3. IsSeq(prims) /\ Len(prims) = N /\ DOMAIN prims = 1 .. N
  <2>1. prims = [n \in 1 .. N |-> prims[n]]
    BY <1>1
  <2> HIDE DEF prims
  <2> QED
    BY <1>1, <2>1, FunctionIsSeq
<1>4. Builtins(d) = Append(prims, header)
  BY DEF Builtins
<1>5. ASSUME NEW name \in {"uint16", "uint32"}
      PROVE  IndexOf(prims, name) \in 1 .. N /\ Primitive[IndexOf(prims, name)] = name
  <2>1. PICK n \in DOMAIN Primitive : Primitive[n] = name
    BY PrimitiveAssumption DEF PrimitiveAssumption, Range
  <2>2. prims[n].name = name
    BY <1>1, <1>2, <2>1 DEF TypeObj
  <2>3. name \in Names(prims)
    BY <1>1, <1>3, <2>1, <2>2 DEF Names
  <2>4. \A m \in 1 .. N : prims[m].name = Primitive[m]
    BY <1>2 DEF TypeObj
  <2> HIDE DEF prims
  <2>5. IndexOf(prims, name) \in 1 .. N /\ prims[IndexOf(prims, name)].name = name
    BY <1>3, <2>3, IndexOfName
  <2> QED
    BY <2>4, <2>5
<1> DEFINE a == IndexOf(prims, "uint32")
           b == IndexOf(prims, "uint16")
<1>6. header = TypeObj("SsHeader", "Struct", <<Scalar("uid", Ref(d, a)), Scalar("len", Ref(d, b))>>)
  OBVIOUS
<1> HIDE DEF prims, header, N
<1>7. \A n \in 1 .. N : Builtins(d)[n] = prims[n]
  BY <1>3, <1>4, AppendIs
<1>8. Builtins(d)[N + 1] = header
  BY <1>3, <1>4, AppendIs
<1>9. a \in 1 .. N /\ b \in 1 .. N /\ Primitive[a] = "uint32" /\ Primitive[b] = "uint16"
  BY <1>5
<1> HIDE DEF a, b
<1> QED
  BY <1>1, <1>2, <1>6, <1>7, <1>8, <1>9

-----------------------------------------------------------------------------
(* The bits of a bitfield.                                                 *)

BitFold == INSTANCE FoldTheorems WITH Op <- LAMBDA c, sum, f : sum + f.bits

LEMMA BitsIsFold ==
  ASSUME NEW fields
  PROVE  Bits(fields) = BitFold!Fold(0, 0, fields)
BY DEF Bits, FoldLeft, MapThenFoldSet, BitFold!Fold, BitFold!Rec, BitFold!Step, Max, BitFold!Max

First(s, n) == [i \in 1 .. n |-> s[i]]

LEMMA BitsOfNone == ASSUME NEW fields, DOMAIN fields = {} PROVE Bits(fields) = 0
BY BitsIsFold, BitFold!FoldNone

LEMMA BitsOneMore ==
  ASSUME NEW fields, NEW n \in Nat, DOMAIN fields = 1 .. n,
         NEW more, DOMAIN more = 1 .. (n + 1), \A i \in 1 .. n : more[i] = fields[i]
  PROVE  Bits(more) = Bits(fields) + more[n + 1].bits
BY BitsIsFold, BitFold!FoldOneMore

\* Only the bits of the fields count.
LEMMA BitsSame ==
  ASSUME NEW fields, NEW n \in Nat, DOMAIN fields = 1 .. n,
         NEW other, DOMAIN other = 1 .. n, \A i \in 1 .. n : other[i].bits = fields[i].bits
  PROVE  Bits(other) = Bits(fields)
BY BitsIsFold, BitFold!FoldSame

\* The first fields of a bitfield have no more bits than all of them.
LEMMA BitsGrow ==
  ASSUME NEW fields, NEW n \in Nat, DOMAIN fields = 1 .. n,
         \A i \in 1 .. n : fields[i].bits \in Int /\ fields[i].bits >= 1
  PROVE  \A m \in 0 .. n : /\ Bits(First(fields, m)) \in Nat
                           /\ Bits(First(fields, m)) <= Bits(First(fields, n))
<1> DEFINE b(m) == Bits(First(fields, m))
           K == {m \in Nat : m <= n => \A l \in 0 .. m : b(l) \in Nat /\ b(l) <= b(m)}
<1>1. ASSUME NEW m \in Nat, m < n PROVE b(m + 1) = b(m) + fields[m + 1].bits
  BY <1>1, BitsOneMore DEF First
<1>2. b(0) = 0
  BY BitsOfNone DEF First
<1> HIDE DEF b
<1>3. 0 \in K
  BY <1>2
<1>4. ASSUME NEW m \in Nat, m \in K PROVE m + 1 \in K
  <2> SUFFICES ASSUME m + 1 <= n PROVE \A l \in 0 .. (m + 1) : b(l) \in Nat /\ b(l) <= b(m + 1)
    OBVIOUS
  <2>1. \A l \in 0 .. m : b(l) \in Nat /\ b(l) <= b(m)
    BY <1>4
  <2>2. b(m + 1) = b(m) + fields[m + 1].bits /\ fields[m + 1].bits \in Int /\ fields[m + 1].bits >= 1
    BY <1>1
  <2>3. ASSUME NEW l \in 0 .. (m + 1) PROVE b(l) \in Nat /\ b(l) <= b(m + 1)
    <3>1. b(m) \in Nat
      BY <2>1
    <3>2. CASE l = m + 1
      BY <2>2, <3>1, <3>2
    <3>3. CASE l \in 0 .. m
      BY <2>1, <2>2, <3>1, <3>3
    <3> QED
      BY <3>2, <3>3
  <2> QED
    BY <2>3
<1>5. \A m \in Nat : m \in K
  <2> HIDE DEF K
  <2> QED
    BY <1>3, <1>4, BitFold!Induction
<1> QED
  BY <1>5 DEF b

-----------------------------------------------------------------------------
(* Powers of two.                                                          *)

\* The subsets of j elements are a power of two in number, which gives its recurrence
\* and, as there is one for each element, its bound.
LEMMA PowersOfTwo ==
  ASSUME NEW j \in Nat
  PROVE  2 ^ j \in Nat /\ 2 ^ (j + 1) = 2 * 2 ^ j /\ j <= 2 ^ j
<1> DEFINE S == 1 .. j
           more == j + 1
           With == {s \cup {more} : s \in SUBSET S}
           f == [s \in SUBSET S |-> s \cup {more}]
           g == [i \in S |-> {i}]
<1>1. /\ IsFiniteSet(S) /\ Cardinality(S) = j
      /\ IsFiniteSet(S \cup {more}) /\ Cardinality(S \cup {more}) = j + 1
  <2>1. IsFiniteSet(S) /\ Cardinality(S) = j
    BY FS_Interval
  <2>2. more \notin S
    OBVIOUS
  <2> QED
    BY <2>1, <2>2, FS_AddElement
<1>2. /\ IsFiniteSet(SUBSET S) /\ Cardinality(SUBSET S) = 2 ^ j
      /\ IsFiniteSet(SUBSET (S \cup {more})) /\ Cardinality(SUBSET (S \cup {more})) = 2 ^ (j + 1)
  BY <1>1, FS_SUBSET
<1>3. IsFiniteSet(With) /\ Cardinality(With) = 2 ^ j
  <2>1. f \in [SUBSET S -> With]
    OBVIOUS
  <2>2. ASSUME NEW s \in SUBSET S, NEW t \in SUBSET S, f[s] = f[t] PROVE s = t
    <3>1. more \notin s /\ more \notin t /\ s \cup {more} = t \cup {more}
      BY <2>2
    <3> QED
      BY <3>1
  <2>3. \A u \in With : \E s \in SUBSET S : f[s] = u
    OBVIOUS
  <2> HIDE DEF f, With, S
  <2>4. f \in Bijection(SUBSET S, With)
    BY <2>1, <2>2, <2>3 DEF Bijection, Injection, Surjection, IsInjective
  <2>5. ExistsBijection(SUBSET S, With)
    BY <2>4 DEF ExistsBijection
  <2> QED
    BY <1>2, <2>5, FS_Bijection
<1>4. SUBSET (S \cup {more}) = (SUBSET S) \cup With /\ (SUBSET S) \cap With = {}
  <2>1. more \notin S
    OBVIOUS
  <2> HIDE DEF S, more
  <2>2. ASSUME NEW s \in SUBSET (S \cup {more}) PROVE s \in (SUBSET S) \cup With
    <3>1. CASE more \in s
      <4>1. s \ {more} \in SUBSET S /\ s = (s \ {more}) \cup {more}
        BY <3>1
      <4> QED
        BY <4>1
    <3>2. CASE more \notin s
      BY <3>2
    <3> QED
      BY <3>1, <3>2
  <2> QED
    BY <2>1, <2>2
<1>5. Cardinality((SUBSET S) \cup With) = 2 ^ j + 2 ^ j /\ 2 ^ j \in Nat
  <2> HIDE DEF S, With
  <2>1. Cardinality((SUBSET S) \cup With) = 2 ^ j + 2 ^ j - Cardinality((SUBSET S) \cap With)
    BY <1>2, <1>3, FS_Union
  <2>2. Cardinality((SUBSET S) \cap With) = 0
    BY <1>4, FS_EmptySet
  <2>3. 2 ^ j \in Nat
    BY <1>2, FS_CardinalityType
  <2> QED
    BY <2>1, <2>2, <2>3
<1>6. j <= 2 ^ j
  <2>1. g \in Injection(S, SUBSET S)
    BY DEF Injection, IsInjective
  <2> HIDE DEF g, S
  <2> QED
    BY <1>1, <1>2, <2>1, FS_Injection
<1>7. 2 ^ (j + 1) = 2 ^ j + 2 ^ j
  BY <1>2, <1>4, <1>5
<1> QED
  BY <1>5, <1>6, <1>7

\* They grow with their exponents.
LEMMA PowersGrow ==
  ASSUME NEW j \in Nat, NEW m \in Nat, j <= m
  PROVE  2 ^ j <= 2 ^ m
<1> DEFINE K == {d \in Nat : 2 ^ j <= 2 ^ (j + d)}
<1>1. 0 \in K
  <2>1. j + 0 = j /\ 2 ^ j \in Nat
    BY PowersOfTwo
  <2> QED
    BY <2>1
<1>2. ASSUME NEW d \in Nat, d \in K PROVE d + 1 \in K
  <2> DEFINE x == j + d
  <2>1. x \in Nat /\ j + (d + 1) = x + 1 /\ 2 ^ j <= 2 ^ x
    BY <1>2
  <2> HIDE DEF x
  <2>2. 2 ^ (x + 1) = 2 * 2 ^ x /\ 2 ^ x \in Nat /\ 2 ^ j \in Nat
    BY <2>1, PowersOfTwo
  <2>3. 2 ^ j <= 2 ^ (x + 1)
    BY <2>1, <2>2
  <2> QED
    BY <2>1, <2>3
<1>3. \A d \in Nat : d \in K
  <2> HIDE DEF K
  <2> QED
    BY <1>1, <1>2, BitFold!Induction
<1>4. m - j \in Nat /\ j + (m - j) = m
  OBVIOUS
<1>5. 2 ^ j <= 2 ^ (j + (m - j))
  BY <1>3, <1>4
<1> QED
  BY <1>4, <1>5

-----------------------------------------------------------------------------
(* Arrays.                                                                 *)

ArrayUidFold == INSTANCE FoldTheorems WITH Op <- LAMBDA c, uid, length : ArrayHash(uid, length)
ArraySizeFold == INSTANCE FoldTheorems WITH Op <- LAMBDA c, size, n : size * n

LEMMA ArrayUidIsFold ==
  ASSUME NEW uid, NEW lens
  PROVE  ArrayUid(uid, lens) = ArrayUidFold!Fold(0, uid, lens)
BY DEF ArrayUid, FoldLeft, MapThenFoldSet, ArrayUidFold!Fold, ArrayUidFold!Rec,
       ArrayUidFold!Step, Max, ArrayUidFold!Max

LEMMA ArraySizeIsFold ==
  ASSUME NEW base, NEW lens
  PROVE  ArraySize(base, lens) = ArraySizeFold!Fold(0, base, lens)
BY DEF ArraySize, FoldLeft, MapThenFoldSet, ArraySizeFold!Fold, ArraySizeFold!Rec,
       ArraySizeFold!Step, Max, ArraySizeFold!Max

\* No array, and an array of arrays.
LEMMA ArrayOfNone ==
  ASSUME NEW base, NEW uid, NEW lens, DOMAIN lens = {}
  PROVE  ArraySize(base, lens) = base /\ ArrayUid(uid, lens) = uid
BY ArrayUidIsFold, ArraySizeIsFold, ArrayUidFold!FoldNone, ArraySizeFold!FoldNone

LEMMA ArraySizeOneMore ==
  ASSUME NEW base, NEW lens, NEW n \in Nat, DOMAIN lens = 1 .. n,
         NEW more, DOMAIN more = 1 .. (n + 1), \A i \in 1 .. n : more[i] = lens[i]
  PROVE  ArraySize(base, more) = ArraySize(base, lens) * more[n + 1]
BY ArraySizeIsFold, ArraySizeFold!FoldOneMore

LEMMA ArrayUidOneMore ==
  ASSUME NEW uid, NEW lens, NEW n \in Nat, DOMAIN lens = 1 .. n,
         NEW more, DOMAIN more = 1 .. (n + 1), \A i \in 1 .. n : more[i] = lens[i]
  PROVE  ArrayUid(uid, more) = ArrayHash(ArrayUid(uid, lens), more[n + 1])
BY ArrayUidIsFold, ArrayUidFold!FoldOneMore

LEMMA ArraySizeInt ==
  ASSUME NEW base \in Int, NEW lens \in Seq(Int)
  PROVE  ArraySize(base, lens) \in Int
<1>1. Len(lens) \in Nat /\ DOMAIN lens = 1 .. Len(lens) /\ \A i \in 1 .. Len(lens) : lens[i] \in Int
  BY LenProperties, ElementOfSeq
<1>2. \A d \in Int : \A i \in 1 .. Len(lens) : d * lens[i] \in Int
  BY <1>1
<1> QED
  BY <1>1, <1>2, ArraySizeIsFold, ArraySizeFold!FoldStays

\* An array of larger elements is larger.
LEMMA ArraySizeGrows ==
  ASSUME NEW a \in Int, NEW b \in Int, a <= b, NEW lens \in Seq(Int),
         \A i \in DOMAIN lens : lens[i] >= 1
  PROVE  /\ ArraySize(a, lens) \in Int /\ ArraySize(b, lens) \in Int
         /\ ArraySize(a, lens) <= ArraySize(b, lens)
         /\ ArraySize(a, lens) = ArraySize(b, lens) <=> a = b
<1> DEFINE N == Len(lens)
<1>1. N \in Nat /\ DOMAIN lens = 1 .. N /\ \A i \in 1 .. N : lens[i] \in Int /\ lens[i] >= 1
  BY LenProperties, ElementOfSeq
<1> HIDE DEF N
<1>2. PICK g : ArraySizeFold!FoldsTo(g, 0, a, lens, N) /\ ArraySize(a, lens) = g[N]
  BY <1>1, ArraySizeIsFold, ArraySizeFold!FoldHas
<1>3. PICK h : ArraySizeFold!FoldsTo(h, 0, b, lens, N) /\ ArraySize(b, lens) = h[N]
  BY <1>1, ArraySizeIsFold, ArraySizeFold!FoldHas
<1> DEFINE Good(n) == /\ g[n] \in Int /\ h[n] \in Int /\ g[n] <= h[n]
                      /\ g[n] = h[n] <=> a = b
           K == {n \in Nat : n <= N => Good(n)}
<1>4. 0 \in K
  BY <1>2, <1>3 DEF ArraySizeFold!FoldsTo
<1>5. ASSUME NEW n \in Nat, n \in K PROVE n + 1 \in K
  <2> SUFFICES ASSUME n + 1 <= N PROVE Good(n + 1)
    OBVIOUS
  <2>1. n + 1 \in 1 .. N /\ (n + 1) - 1 = n /\ Good(n)
    BY <1>1, <1>5
  <2>2. g[n + 1] = g[n] * lens[n + 1] /\ h[n + 1] = h[n] * lens[n + 1]
    BY <1>2, <1>3, <2>1 DEF ArraySizeFold!FoldsTo
  <2>3. lens[n + 1] \in Int /\ lens[n + 1] >= 1
    BY <1>1, <2>1
  <2> DEFINE x == g[n]
             y == h[n]
             l == lens[n + 1]
  <2>4. x \in Int /\ y \in Int /\ l \in Int /\ x <= y /\ l >= 1 /\ (x = y <=> a = b)
    BY <2>1, <2>3
  <2> HIDE DEF x, y, l
  <2>5. x * l \in Int /\ y * l \in Int
    BY <2>4
  <2>6. x < y => x * l < y * l
    BY <2>4
  <2>7. g[n + 1] = x * l /\ h[n + 1] = y * l
    BY <2>2 DEF x, y, l
  <2>8. x = y => x * l = y * l
    OBVIOUS
  <2> QED
    BY <2>4, <2>5, <2>6, <2>7, <2>8
<1>6. \A n \in Nat : n \in K
  <2> HIDE DEF K
  <2> QED
    BY <1>4, <1>5, BitFold!Induction
<1> QED
  BY <1>1, <1>2, <1>3, <1>6

-----------------------------------------------------------------------------
(* The UIDs of a list of types.                                            *)

UidFold == INSTANCE FoldTheorems WITH Op <- LAMBDA c, before, t : Append(before, TypeUid(t, before))

LEMMA UidsIsFold ==
  ASSUME NEW types
  PROVE  Uids(types) = UidFold!Fold(0, <<>>, types)
BY DEF Uids, FoldLeft, MapThenFoldSet, UidFold!Fold, UidFold!Rec, UidFold!Step, Max, UidFold!Max

\* Types that differ only in the dict that they refer to have the same UID.
Alike(t, u) ==
  /\ u.name = t.name /\ u.kind = t.kind
  /\ DOMAIN u.fields = DOMAIN t.fields
  /\ \A n \in DOMAIN t.fields :
       LET f == t.fields[n]  g == u.fields[n]
       IN  /\ g.name = f.name /\ g.bits = f.bits /\ g.lens = f.lens
           /\ g.type.index = f.type.index

LEMMA UidAlike ==
  ASSUME NEW t, NEW u, Alike(t, u), NEW before
  PROVE  TypeUid(u, before) = TypeUid(t, before)
BY DEF TypeUid, Alike

LEMMA UidsAlike ==
  ASSUME NEW types, NEW n \in Nat, DOMAIN types = 1 .. n,
         NEW other, DOMAIN other = 1 .. n, \A i \in 1 .. n : Alike(types[i], other[i])
  PROVE  Uids(other) = Uids(types)
<1>1. \A i \in 1 .. n : \A a : Append(a, TypeUid(other[i], a)) = Append(a, TypeUid(types[i], a))
  BY UidAlike
<1> QED
  BY <1>1, UidsIsFold, UidFold!FoldSame

-----------------------------------------------------------------------------
(* What a specification means.                                             *)

LEMMA OneOrNone ==
  ASSUME NEW x, NEW A
  PROVE  IsSeq(IF A THEN <<x>> ELSE <<>>)
<1>1. <<x>> \in Seq({x}) /\ <<>> \in Seq({x})
  OBVIOUS
<1>2. IsSeq(<<x>>) /\ IsSeq(<<>>)
  BY <1>1, SeqOfSome
<1>3. CASE A
  BY <1>2, <1>3
<1>4. CASE ~A
  BY <1>2, <1>4
<1> QED
  BY <1>3, <1>4

\* The fields that an object has, in terms of the items of its entry.
HeaderCount(e) == IF e.kind = "Message" THEN 1 ELSE 0
LEMMA FieldsAre ==
  ASSUME NEW e, NEW c \in Nat, NEW t, NEW d, NEW R
  PROVE  /\ DOMAIN ObjectOf(e, c, t, d, R).fields = 1 .. (HeaderCount(e) + c)
         /\ HeaderCount(e) = 1 => ObjectOf(e, c, t, d, R).fields[1] = HeaderOf(d, R)
         /\ \A i \in 1 .. c :
              ObjectOf(e, c, t, d, R).fields[HeaderCount(e) + i] = MemberOf(e, e.items[i], t, d, R)
<1> DEFINE header == IF e.kind = "Message" THEN <<HeaderOf(d, R)>> ELSE <<>>
           members == [i \in 1 .. c |-> MemberOf(e, e.items[i], t, d, R)]
           h == HeaderCount(e)
<1>1. ObjectOf(e, c, t, d, R).fields = header \o members
  BY DEF ObjectOf, TypeObj
<1>2. IsSeq(members) /\ Len(members) = c
  <2>1. members = [i \in 1 .. c |-> members[i]]
    OBVIOUS
  <2> HIDE DEF members
  <2> QED
    BY <2>1, FunctionIsSeq
<1>3. IsSeq(header)
  BY OneOrNone
<1>4. Len(header) = h /\ (h = 1 => header[1] = HeaderOf(d, R))
  BY DEF HeaderCount
<1>5. \A i \in 1 .. c : members[i] = MemberOf(e, e.items[i], t, d, R)
  OBVIOUS
<1>6. h \in {0, 1}
  BY DEF HeaderCount
<1> HIDE DEF header, members, h
<1>7. /\ DOMAIN (header \o members) = 1 .. (h + c)
      /\ \A n \in 1 .. h : (header \o members)[n] = header[n]
      /\ \A n \in 1 .. c : (header \o members)[h + n] = members[n]
  <2>1. /\ DOMAIN (header \o members) = 1 .. (Len(header) + Len(members))
        /\ \A n \in 1 .. Len(header) : (header \o members)[n] = header[n]
        /\ \A n \in 1 .. Len(members) : (header \o members)[Len(header) + n] = members[n]
    <3>1. IsSeq(header) /\ IsSeq(members)
      BY <1>2, <1>3
    <3> QED
      BY ONLY <3>1, ConcatIs
  <2> QED
    BY <1>2, <1>4, <2>1
<1> QED
  BY <1>1, <1>4, <1>5, <1>6, <1>7 DEF h

LEMMA FieldsAreSeq ==
  ASSUME NEW e, NEW c \in Nat, NEW t, NEW d, NEW R
  PROVE  IsSeq(ObjectOf(e, c, t, d, R).fields)
<1> DEFINE header == IF e.kind = "Message" THEN <<HeaderOf(d, R)>> ELSE <<>>
           members == [i \in 1 .. c |-> MemberOf(e, e.items[i], t, d, R)]
<1>1. ObjectOf(e, c, t, d, R).fields = header \o members
  BY DEF ObjectOf, TypeObj
<1>2. IsSeq(header)
  BY OneOrNone
<1>3. members = [i \in 1 .. c |-> members[i]]
  OBVIOUS
<1> HIDE DEF header, members
<1>4. IsSeq(members)
  BY <1>3, FunctionIsSeq
<1>5. IsSeq(header \o members)
  BY ONLY <1>2, <1>4, ConcatIs
<1> QED
  BY <1>1, <1>5

Taking(e, c) ==
  {e.items[i].name : i \in 1 .. c} \cup (IF e.kind = "Message" THEN {"ss_header"} ELSE {})
LEMMA FieldNames ==
  ASSUME NEW e, e.kind \in Kinds, NEW c \in Nat, NEW t, NEW d, NEW R
  PROVE  Names(ObjectOf(e, c, t, d, R).fields) = Taking(e, c)
<1> DEFINE fields == ObjectOf(e, c, t, d, R).fields
           h == HeaderCount(e)
<1>1. /\ DOMAIN fields = 1 .. (h + c)
      /\ h = 1 => fields[1] = HeaderOf(d, R)
      /\ \A i \in 1 .. c : fields[h + i] = MemberOf(e, e.items[i], t, d, R)
  BY FieldsAre
<1>2. \A i \in 1 .. c : MemberOf(e, e.items[i], t, d, R).name = e.items[i].name
  BY DEF MemberOf, Member, Kinds
<1>3. HeaderOf(d, R).name = "ss_header"
  BY DEF HeaderOf, Scalar, Member
<1>4. h \in {0, 1} /\ (h = 1 <=> e.kind = "Message")
  BY DEF HeaderCount
<1> HIDE DEF fields, h
<1>5. ASSUME NEW n \in 1 .. (h + c), NEW name, fields[n].name = name
      PROVE  (h = 1 /\ name = "ss_header") \/ \E i \in 1 .. c : e.items[i].name = name
  <2>1. CASE n <= h
    BY <1>1, <1>3, <1>4, <1>5, <2>1
  <2>2. CASE n > h
    <3>1. n - h \in 1 .. c /\ h + (n - h) = n
      BY <1>4, <2>2
    <3> QED
      BY <1>1, <1>2, <1>5, <3>1
  <2> QED
    BY <1>4, <2>1, <2>2
<1>6. ASSUME h = 1 PROVE \E n \in 1 .. (h + c) : fields[n].name = "ss_header"
  BY <1>1, <1>3, <1>6
<1>7. ASSUME NEW i \in 1 .. c PROVE \E n \in 1 .. (h + c) : fields[n].name = e.items[i].name
  <2>1. h + i \in 1 .. (h + c)
    BY <1>4
  <2> QED
    BY <1>1, <1>2, <1>7, <2>1
<1>8. Names(fields) = Taking(e, c)
  <2>1. ASSUME NEW name \in Names(fields) PROVE name \in Taking(e, c)
    <3>1. PICK n \in 1 .. (h + c) : fields[n].name = name
      BY <1>1 DEF Names
    <3>2. CASE h = 1 /\ name = "ss_header"
      BY <1>4, <3>2 DEF Taking
    <3>3. CASE \E i \in 1 .. c : e.items[i].name = name
      BY <3>3 DEF Taking
    <3> QED
      BY <1>5, <3>1, <3>2, <3>3
  <2>2. ASSUME NEW name \in Taking(e, c) PROVE name \in Names(fields)
    <3>1. CASE h = 1 /\ name = "ss_header"
      BY <1>1, <1>6, <3>1 DEF Names
    <3>2. CASE \E i \in 1 .. c : e.items[i].name = name
      BY <1>1, <1>7, <3>2 DEF Names
    <3> QED
      BY <1>4, <3>1, <3>2 DEF Taking
  <2> QED
    BY <2>1, <2>2
<1> QED
  BY <1>8 DEF fields

LEMMA FieldBits ==
  ASSUME NEW e, e.kind = "Bitfield", NEW c \in Nat, NEW t, NEW d, NEW R
  PROVE  Bits(ObjectOf(e, c, t, d, R).fields) = Bits(First(e.items, c))
<1> DEFINE fields == ObjectOf(e, c, t, d, R).fields
           items == First(e.items, c)
<1>1. DOMAIN fields = 1 .. c /\ \A i \in 1 .. c : fields[i] = MemberOf(e, e.items[i], t, d, R)
  <2>1. HeaderCount(e) = 0 /\ \A i \in 1 .. c : 0 + i = i
    BY DEF HeaderCount
  <2> QED
    BY <2>1, FieldsAre
<1>2. DOMAIN items = 1 .. c /\ \A i \in 1 .. c : items[i] = e.items[i]
  BY DEF First
<1>3. \A i \in 1 .. c : MemberOf(e, e.items[i], t, d, R).bits = e.items[i].bits
  BY DEF MemberOf, Member
<1> HIDE DEF fields, items
<1>4. Bits(fields) = Bits(items)
  BY <1>1, <1>2, <1>3, BitsSame
<1> QED
  BY <1>4 DEF fields, items

\* The names of the types that are always there, and those of a specification.
LEMMA NamesAre ==
  ASSUME NEW s, IsSeq(s), NEW d
  PROVE  /\ IsSeq(Builtins(d) \o s)
         /\ DOMAIN (Builtins(d) \o s) = 1 .. (NumBuiltins + Len(s))
         /\ \A n \in 1 .. NumBuiltins : (Builtins(d) \o s)[n] = Builtins(d)[n]
         /\ \A n \in 1 .. Len(s) : (Builtins(d) \o s)[NumBuiltins + n] = s[n]
<1> DEFINE b == Builtins(d)
<1>1. IsSeq(b) /\ Len(b) = NumBuiltins
  BY BuiltinsAre
<1> HIDE DEF b
<1>2. /\ IsSeq(b \o s) /\ DOMAIN (b \o s) = 1 .. (Len(b) + Len(s))
      /\ \A n \in 1 .. Len(b) : (b \o s)[n] = b[n]
      /\ \A n \in 1 .. Len(s) : (b \o s)[Len(b) + n] = s[n]
  <2>1. IsSeq(b) /\ IsSeq(s)
    BY <1>1
  <2> QED
    BY ONLY <2>1, ConcatIs
<1> QED
  BY <1>1, <1>2 DEF b

\* The types that a specification means: those that are always there, and its own.
LEMMA MeaningIs ==
  ASSUME NEW s, IsSeq(s), NEW t, NEW d
  PROVE  /\ IsSeq(Meaning(s, t, d)) /\ Len(Meaning(s, t, d)) = NumBuiltins + Len(s)
         /\ DOMAIN Meaning(s, t, d) = 1 .. (NumBuiltins + Len(s))
         /\ \A i \in 1 .. NumBuiltins : Meaning(s, t, d)[i] = Builtins(d)[i]
         /\ \A m \in 1 .. Len(s) :
              Meaning(s, t, d)[NumBuiltins + m] =
                ObjectOf(s[m], Len(s[m].items), t, d, Builtins(d) \o s)
<1> DEFINE own == [m \in DOMAIN s |-> ObjectOf(s[m], Len(s[m].items), t, d, Builtins(d) \o s)]
           b == Builtins(d)
<1>1. Len(s) \in Nat /\ DOMAIN s = 1 .. Len(s)
  BY SeqIs
<1>2. IsSeq(own) /\ Len(own) = Len(s)
  <2>1. own = [m \in 1 .. Len(s) |-> own[m]]
    BY <1>1
  <2> HIDE DEF own
  <2> QED
    BY <1>1, <2>1, FunctionIsSeq
<1>3. \A m \in 1 .. Len(s) : own[m] = ObjectOf(s[m], Len(s[m].items), t, d, Builtins(d) \o s)
  BY <1>1
<1>4. Meaning(s, t, d) = b \o own
  BY DEF Meaning
<1>5. IsSeq(b) /\ Len(b) = NumBuiltins
  BY BuiltinsAre
<1> HIDE DEF own, b
<1>6. /\ IsSeq(b \o own) /\ Len(b \o own) = Len(b) + Len(own)
      /\ DOMAIN (b \o own) = 1 .. (Len(b) + Len(own))
      /\ \A n \in 1 .. Len(b) : (b \o own)[n] = b[n]
      /\ \A n \in 1 .. Len(own) : (b \o own)[Len(b) + n] = own[n]
  <2>1. IsSeq(b) /\ IsSeq(own)
    BY <1>2, <1>5
  <2> QED
    BY ONLY <2>1, ConcatIs
<1> QED
  BY <1>2, <1>3, <1>4, <1>5, <1>6 DEF b

-----------------------------------------------------------------------------
(* A specification has the same UIDs in every dict.                        *)

LEMMA BuiltinsAlike ==
  ASSUME NEW d, NEW e, NEW n \in 1 .. NumBuiltins
  PROVE  Alike(Builtins(d)[n], Builtins(e)[n])
<1>1. CASE n \in 1 .. (NumBuiltins - 1)
  <2>1. Builtins(d)[n] = Builtins(e)[n]
    BY <1>1, BuiltinsAreTypes
  <2> QED
    BY <2>1 DEF Alike
<1>2. CASE n = NumBuiltins
  <2> DEFINE header(f, a, b) ==
        TypeObj("SsHeader", "Struct", <<Scalar("uid", Ref(f, a)), Scalar("len", Ref(f, b))>>)
  <2>1. PICK a, b \in 1 .. (NumBuiltins - 1) :
          /\ Primitive[a] = "uint32" /\ Primitive[b] = "uint16"
          /\ Builtins(d)[NumBuiltins] = header(d, a, b)
    BY BuiltinsAreTypes
  <2>2. PICK a2, b2 \in 1 .. (NumBuiltins - 1) :
          /\ Primitive[a2] = "uint32" /\ Primitive[b2] = "uint16"
          /\ Builtins(e)[NumBuiltins] = header(e, a2, b2)
    BY BuiltinsAreTypes
  <2>3. DOMAIN Primitive = 1 .. (NumBuiltins - 1)
    BY PrimitiveAssumption DEF PrimitiveAssumption, NumBuiltins
  <2>4. a = a2 /\ b = b2
    BY <2>1, <2>2, <2>3, PrimitiveAssumption DEF PrimitiveAssumption, IsInjective
  <2>5. Alike(header(d, a, b), header(e, a, b))
    BY DEF Alike, TypeObj, Scalar, Member, Ref
  <2> HIDE DEF header
  <2> QED
    BY <1>2, <2>1, <2>2, <2>4, <2>5
<1> QED
  BY <1>1, <1>2, BuiltinsAre

\* A name finds the same place in two dicts.
LEMMA SamePlace ==
  ASSUME NEW R, NEW S, NEW name, DOMAIN R = DOMAIN S, \A n \in DOMAIN R : R[n].name = S[n].name
  PROVE  IndexOf(R, name) = IndexOf(S, name)
BY DEF IndexOf

LEMMA ObjectAlike ==
  ASSUME NEW x, NEW c \in Nat, NEW t, NEW u, NEW d, NEW e, NEW R, NEW S,
         \A name : IndexOf(R, name) = IndexOf(S, name)
  PROVE  Alike(ObjectOf(x, c, t, d, R), ObjectOf(x, c, u, e, S))
<1> DEFINE a == ObjectOf(x, c, t, d, R)
           b == ObjectOf(x, c, u, e, S)
           h == HeaderCount(x)
<1>1. a.name = b.name /\ a.kind = b.kind
  BY DEF ObjectOf, TypeObj
<1>2. /\ DOMAIN a.fields = 1 .. (h + c)
      /\ h = 1 => a.fields[1] = HeaderOf(d, R)
      /\ \A i \in 1 .. c : a.fields[h + i] = MemberOf(x, x.items[i], t, d, R)
  BY FieldsAre
<1>3. /\ DOMAIN b.fields = 1 .. (h + c)
      /\ h = 1 => b.fields[1] = HeaderOf(e, S)
      /\ \A i \in 1 .. c : b.fields[h + i] = MemberOf(x, x.items[i], u, e, S)
  BY FieldsAre
<1> DEFINE Same(f, g) ==
      g.name = f.name /\ g.bits = f.bits /\ g.lens = f.lens /\ g.type.index = f.type.index
<1>4. Same(HeaderOf(d, R), HeaderOf(e, S))
  BY DEF HeaderOf, Scalar, Member, Ref
<1>5. ASSUME NEW f PROVE Same(MemberOf(x, f, t, d, R), MemberOf(x, f, u, e, S))
  BY DEF MemberOf, Member, Ref, NoRef
<1>6. h \in {0, 1}
  BY DEF HeaderCount
<1> HIDE DEF a, b, h, Same
<1>7. ASSUME NEW n \in 1 .. (h + c) PROVE Same(a.fields[n], b.fields[n])
  <2>1. CASE n <= h
    BY <1>2, <1>3, <1>4, <1>6, <2>1
  <2>2. CASE n > h
    <3>1. n - h \in 1 .. c /\ h + (n - h) = n
      BY <1>6, <2>2
    <3> QED
      BY <1>2, <1>3, <1>5, <3>1
  <2> QED
    BY <1>6, <2>1, <2>2
<1>8. Alike(a, b)
  BY <1>1, <1>2, <1>3, <1>7 DEF Alike, Same
<1> QED
  BY <1>8 DEF a, b

\* The UIDs of a specification are those of its types in any dict.
LEMMA SameUids ==
  ASSUME NEW s, IsSeq(s), \A m \in 1 .. Len(s) : Len(s[m].items) \in Nat, NEW t, NEW d, NEW e
  PROVE  Uids(Meaning(s, t, e)) = Uids(Meaning(s, t, d))
<1> DEFINE R == Builtins(d) \o s
           S == Builtins(e) \o s
           a == Meaning(s, t, d)
           b == Meaning(s, t, e)
           B == NumBuiltins
           N == Len(s)
<1>1. N \in Nat /\ B \in Nat
  BY SeqIs, BuiltinsAre
<1>2. \A name : IndexOf(R, name) = IndexOf(S, name)
  <2>2. /\ IsSeq(R)
        /\ DOMAIN R = 1 .. (B + N)
        /\ \A n \in 1 .. B : R[n] = Builtins(d)[n]
        /\ \A n \in 1 .. N : R[B + n] = s[n]
    BY NamesAre
  <2>3. /\ IsSeq(S)
        /\ DOMAIN S = 1 .. (B + N)
        /\ \A n \in 1 .. B : S[n] = Builtins(e)[n]
        /\ \A n \in 1 .. N : S[B + n] = s[n]
    BY NamesAre
  <2>4. \A n \in 1 .. B : Builtins(d)[n].name = Builtins(e)[n].name
    BY BuiltinsAlike DEF Alike
  <2> HIDE DEF R, S, B, N
  <2>5. ASSUME NEW n \in 1 .. (B + N) PROVE R[n].name = S[n].name
    <3>1. CASE n <= B
      BY <1>1, <2>2, <2>3, <2>4, <3>1
    <3>2. CASE n > B
      <4>1. n - B \in 1 .. N /\ B + (n - B) = n
        BY <1>1, <3>2
      <4> QED
        BY <2>2, <2>3, <4>1
    <3> QED
      BY <1>1, <3>1, <3>2
  <2>6. DOMAIN R = DOMAIN S /\ \A n \in DOMAIN R : R[n].name = S[n].name
    BY <2>2, <2>3, <2>5
  <2> QED
    BY ONLY <2>6, SamePlace
<1>3. /\ DOMAIN a = 1 .. (B + N)
      /\ \A i \in 1 .. B : a[i] = Builtins(d)[i]
      /\ \A m \in 1 .. N : a[B + m] = ObjectOf(s[m], Len(s[m].items), t, d, R)
  BY MeaningIs
<1>4. /\ DOMAIN b = 1 .. (B + N)
      /\ \A i \in 1 .. B : b[i] = Builtins(e)[i]
      /\ \A m \in 1 .. N : b[B + m] = ObjectOf(s[m], Len(s[m].items), t, e, S)
  BY MeaningIs
<1>5. \A i \in 1 .. B : Alike(Builtins(d)[i], Builtins(e)[i])
  BY BuiltinsAlike
<1> HIDE DEF a, b, R, S, B, N
<1>6. ASSUME NEW m \in 1 .. N PROVE Alike(a[B + m], b[B + m])
  <2>1. Len(s[m].items) \in Nat
    BY DEF N
  <2> QED
    BY <1>2, <1>3, <1>4, <2>1, ObjectAlike
<1>7. ASSUME NEW n \in 1 .. (B + N) PROVE Alike(a[n], b[n])
  <2>1. CASE n <= B
    BY <1>1, <1>3, <1>4, <1>5, <2>1
  <2>2. CASE n > B
    <3>1. n - B \in 1 .. N /\ B + (n - B) = n
      BY <1>1, <2>2
    <3> QED
      BY <1>6, <3>1
  <2> QED
    BY <1>1, <2>1, <2>2
<1>8. B + N \in Nat
  BY <1>1
<1>9. Uids(b) = Uids(a)
  BY <1>3, <1>4, <1>7, <1>8, UidsAlike
<1> QED
  BY <1>9 DEF a, b
-----------------------------------------------------------------------------
(* Each type by the types before it.                                       *)

\* Appending one element after another.
Appended(s, n, p) == IsSeq(s) /\ Len(s) = n /\ \A i \in 1 .. n : s[i] = p[i]
LEMMA Appends ==
  ASSUME NEW N \in Nat, NEW p, NEW h, h[0] = <<>>, \A i \in 1 .. N : h[i] = Append(h[i - 1], p[i])
  PROVE  \A n \in 0 .. N : Appended(h[n], n, p)
<1> DEFINE K == {n \in Nat : n <= N => Appended(h[n], n, p)}
<1>1. 0 \in K
  <2>1. IsSeq(<<>>) /\ Len(<<>>) = 0
    BY DEF IsSeq
  <2> QED
    BY <2>1 DEF Appended
<1>2. ASSUME NEW n \in Nat, n \in K PROVE n + 1 \in K
  <2> HIDE DEF K
  <2>1. SUFFICES ASSUME n + 1 <= N PROVE Appended(h[n + 1], n + 1, p)
    BY DEF K
  <2>4. n + 1 \in 1 .. N /\ (n + 1) - 1 = n /\ n <= N
    BY <2>1
  <2>2. h[n + 1] = Append(h[n], p[n + 1]) /\ Appended(h[n], n, p)
    BY <1>2, <2>4 DEF K
  <2>3. /\ IsSeq(h[n + 1]) /\ Len(h[n + 1]) = n + 1
        /\ \A i \in 1 .. n : h[n + 1][i] = h[n][i]
        /\ h[n + 1][n + 1] = p[n + 1]
    BY <2>2, AppendIs DEF Appended
  <2> QED
    BY <2>2, <2>3 DEF Appended
<1>3. \A n \in Nat : n \in K
  <2> HIDE DEF K
  <2> QED
    BY <1>1, <1>2, BitFold!Induction
<1> QED
  BY <1>3

\* Structures, whose fields refer to types, refer to types before them.
HasMembers(t) == t.kind \notin {"Primitive", "Enum", "Bitfield"}
FieldsBack(t, n) ==
  /\ \E l \in Nat : DOMAIN t.fields = 1 .. l
  /\ HasMembers(t) => \A i \in DOMAIN t.fields : t.fields[i].type.index \in 1 .. (n - 1)
FoundFirst(types) == \A n \in DOMAIN types : FieldsBack(types[n], n)

LEMMA UidByEarlier ==
  ASSUME NEW t, NEW at \in Nat, FieldsBack(t, at), NEW a, NEW b, \A i \in 1 .. (at - 1) : a[i] = b[i]
  PROVE  TypeUid(t, a) = TypeUid(t, b)
<1>1. HasMembers(t) => \A i \in DOMAIN t.fields : a[t.fields[i].type.index] = b[t.fields[i].type.index]
  BY DEF FieldsBack
<1> QED
  BY <1>1 DEF TypeUid, HasMembers

\* The UID of each type of a list, from the list of the UIDs.
LEMMA UidsAre ==
  ASSUME NEW types, NEW N \in Nat, DOMAIN types = 1 .. N, FoundFirst(types)
  PROVE  /\ DOMAIN Uids(types) = 1 .. N
         /\ \A n \in 1 .. N : Uids(types)[n] = TypeUid(types[n], Uids(types))
<1>1. PICK h : UidFold!FoldsTo(h, 0, <<>>, types, N) /\ Uids(types) = h[N]
  BY UidsIsFold, UidFold!FoldHas
<1> DEFINE p == [i \in 1 .. N |-> TypeUid(types[i], h[i - 1])]
<1>2. h[0] = <<>> /\ \A i \in 1 .. N : h[i] = Append(h[i - 1], p[i])
  BY <1>1 DEF UidFold!FoldsTo
<1>3. \A i \in 1 .. N : p[i] = TypeUid(types[i], h[i - 1])
  OBVIOUS
<1> HIDE DEF p
<1>4. \A n \in 0 .. N : IsSeq(h[n]) /\ Len(h[n]) = n /\ \A i \in 1 .. n : h[n][i] = p[i]
  <2>1. \A n \in 0 .. N : Appended(h[n], n, p)
    BY <1>2, Appends
  <2> QED
    BY <2>1 DEF Appended
<1>5. DOMAIN h[N] = 1 .. N
  BY <1>4, SeqIs
<1>6. ASSUME NEW n \in 1 .. N PROVE h[N][n] = TypeUid(types[n], h[N])
  <2>1. n \in Nat /\ n - 1 \in 0 .. N /\ N \in 0 .. N
    OBVIOUS
  <2>2. \A i \in 1 .. (n - 1) : h[n - 1][i] = h[N][i]
    BY <1>4, <2>1
  <2>3. FieldsBack(types[n], n)
    BY DEF FoundFirst
  <2>4. TypeUid(types[n], h[n - 1]) = TypeUid(types[n], h[N])
    BY <2>1, <2>2, <2>3, UidByEarlier
  <2> QED
    BY <1>3, <1>4, <2>1, <2>4
<1> QED
  BY <1>1, <1>5, <1>6

SizeFold == INSTANCE FoldTheorems WITH Op <- LAMBDA c, before, t : Append(before, TypeSize(t, before))
MembersFold == INSTANCE FoldTheorems WITH
  Op <- LAMBDA before, sum, f : sum + ArraySize(before[f.type.index], f.lens)

LEMMA SizesIsFold ==
  ASSUME NEW types
  PROVE  Sizes(types) = SizeFold!Fold(0, <<>>, types)
BY DEF Sizes, FoldLeft, MapThenFoldSet, SizeFold!Fold, SizeFold!Rec, SizeFold!Step, Max, SizeFold!Max

LEMMA MembersIsFold ==
  ASSUME NEW before, NEW fields
  PROVE  MembersSize(before, fields) = MembersFold!Fold(before, 0, fields)
BY DEF MembersSize, FoldLeft, MapThenFoldSet, MembersFold!Fold, MembersFold!Rec,
       MembersFold!Step, Max, MembersFold!Max

LEMMA MembersByEarlier ==
  ASSUME NEW t, NEW at \in Nat, FieldsBack(t, at), HasMembers(t),
         NEW a, NEW b, \A i \in 1 .. (at - 1) : a[i] = b[i]
  PROVE  MembersSize(a, t.fields) = MembersSize(b, t.fields)
<1>1. PICK l \in Nat : DOMAIN t.fields = 1 .. l
  BY DEF FieldsBack
<1>2. PICK h : /\ MembersFold!FoldsTo(h, a, 0, t.fields, l)
               /\ MembersFold!Fold(a, 0, t.fields) = h[l]
  BY <1>1, MembersFold!FoldHas
<1>3. \A i \in 1 .. l : a[t.fields[i].type.index] = b[t.fields[i].type.index]
  BY <1>1 DEF FieldsBack
<1>4. MembersFold!FoldsTo(h, b, 0, t.fields, l)
  BY <1>2, <1>3 DEF MembersFold!FoldsTo
<1>5. MembersFold!Fold(b, 0, t.fields) = h[l]
  BY <1>1, <1>4, MembersFold!FoldIs
<1> QED
  BY <1>2, <1>5, MembersIsFold

LEMMA SizeByEarlier ==
  ASSUME NEW t, NEW at \in Nat, FieldsBack(t, at), NEW a, NEW b, \A i \in 1 .. (at - 1) : a[i] = b[i]
  PROVE  TypeSize(t, a) = TypeSize(t, b)
<1>1. CASE HasMembers(t)
  <2>1. TypeSize(t, a) = MembersSize(a, t.fields) /\ TypeSize(t, b) = MembersSize(b, t.fields)
    BY <1>1 DEF TypeSize, HasMembers
  <2> QED
    BY <1>1, <2>1, MembersByEarlier
<1>2. CASE ~HasMembers(t)
  BY <1>2 DEF TypeSize, HasMembers
<1> QED
  BY <1>1, <1>2

\* The size of each type of a list, from the list of the sizes.
LEMMA SizesAre ==
  ASSUME NEW types, NEW N \in Nat, DOMAIN types = 1 .. N, FoundFirst(types)
  PROVE  /\ DOMAIN Sizes(types) = 1 .. N
         /\ \A n \in 1 .. N : Sizes(types)[n] = TypeSize(types[n], Sizes(types))
<1>1. PICK h : SizeFold!FoldsTo(h, 0, <<>>, types, N) /\ Sizes(types) = h[N]
  BY SizesIsFold, SizeFold!FoldHas
<1> DEFINE p == [i \in 1 .. N |-> TypeSize(types[i], h[i - 1])]
<1>2. h[0] = <<>> /\ \A i \in 1 .. N : h[i] = Append(h[i - 1], p[i])
  BY <1>1 DEF SizeFold!FoldsTo
<1>3. \A i \in 1 .. N : p[i] = TypeSize(types[i], h[i - 1])
  OBVIOUS
<1> HIDE DEF p
<1>4. \A n \in 0 .. N : IsSeq(h[n]) /\ Len(h[n]) = n /\ \A i \in 1 .. n : h[n][i] = p[i]
  <2>1. \A n \in 0 .. N : Appended(h[n], n, p)
    BY <1>2, Appends
  <2> QED
    BY <2>1 DEF Appended
<1>5. DOMAIN h[N] = 1 .. N
  BY <1>4, SeqIs
<1>6. ASSUME NEW n \in 1 .. N PROVE h[N][n] = TypeSize(types[n], h[N])
  <2>1. n \in Nat /\ n - 1 \in 0 .. N /\ N \in 0 .. N
    OBVIOUS
  <2>2. \A i \in 1 .. (n - 1) : h[n - 1][i] = h[N][i]
    BY <1>4, <2>1
  <2>3. FieldsBack(types[n], n)
    BY DEF FoundFirst
  <2>4. TypeSize(types[n], h[n - 1]) = TypeSize(types[n], h[N])
    BY <2>1, <2>2, <2>3, SizeByEarlier
  <2> QED
    BY <1>3, <1>4, <2>1, <2>4
<1> QED
  BY <1>1, <1>5, <1>6

-----------------------------------------------------------------------------
(* What a specification is that the parser accepts.                         *)

\* An entry of a well-formed specification.
LEMMA EntryIs ==
  ASSUME NEW s, Acceptable(s), NEW e \in Range(s)
  PROVE  /\ e.kind \in Kinds /\ e.name \notin Reserved
         /\ IsSeq(e.items) /\ Len(e.items) \in Nat /\ DOMAIN e.items = 1 .. Len(e.items)
         /\ Len(e.items) <= IntMax
         /\ \A i \in 1 .. Len(e.items) :
              e.items[i].bits \in Int /\ e.items[i].lens \in Seq(Int)
         /\ e.kind \in {"Struct", "Message"} =>
              \A i \in 1 .. Len(e.items) : \A l \in DOMAIN e.items[i].lens : e.items[i].lens[l] >= 1
         /\ e.kind = "Bitfield" =>
              \A c \in 0 .. Len(e.items) : /\ Bits(First(e.items, c)) \in Nat
                                           /\ Bits(First(e.items, c)) <= MaxBits
         /\ e.kind = "Bitfield" => \A i \in 1 .. Len(e.items) : e.items[i].bits >= 1
<1>1. PICK m \in DOMAIN s : s[m] = e
  BY DEF Range
<1>2. /\ e.kind \in Kinds
      /\ e.kind = "Bitfield" => Bits(e.items) <= MaxBits
      /\ e.name \notin Reserved
      /\ \E earlier : \A n \in DOMAIN e.items : MemberOK(e, n, earlier)
  <2>1. WellFormed(s)
    BY DEF Acceptable
  <2> QED
    BY <1>1, <2>1 DEF WellFormed
<1>3. /\ IsSeq(e.items) /\ Len(e.items) <= IntMax
      /\ \A i \in Range(e.items) : i.bits \in Int /\ i.lens \in Seq(Int)
  BY <1>1 DEF Acceptable, IsSeq
<1>4. Len(e.items) \in Nat /\ DOMAIN e.items = 1 .. Len(e.items)
  BY <1>3, SeqIs
<1>5. \A i \in 1 .. Len(e.items) : e.items[i].bits \in Int /\ e.items[i].lens \in Seq(Int)
  BY <1>3, <1>4 DEF Range
<1>6. e.kind \in {"Struct", "Message"} =>
        \A i \in 1 .. Len(e.items) : \A l \in DOMAIN e.items[i].lens : e.items[i].lens[l] >= 1
  BY <1>2, <1>4 DEF MemberOK
<1>8. e.kind = "Bitfield" => \A i \in 1 .. Len(e.items) : e.items[i].bits >= 1
  BY <1>2, <1>4 DEF MemberOK
<1>7. ASSUME e.kind = "Bitfield", NEW c \in 0 .. Len(e.items)
      PROVE  Bits(First(e.items, c)) \in Nat /\ Bits(First(e.items, c)) <= MaxBits
  <2>1. \A i \in 1 .. Len(e.items) : e.items[i].bits >= 1
    BY <1>7, <1>8
  <2>2. \A d \in 0 .. Len(e.items) :
          /\ Bits(First(e.items, d)) \in Nat
          /\ Bits(First(e.items, d)) <= Bits(First(e.items, Len(e.items)))
    BY <1>4, <1>5, <2>1, BitsGrow
  <2>3. First(e.items, Len(e.items)) = e.items
    BY <1>3, SeqIs DEF First
  <2> QED
    BY <1>2, <1>4, <1>7, <2>2, <2>3 DEF MaxBits
<1> QED
  BY <1>2, <1>3, <1>4, <1>5, <1>6, <1>7, <1>8

\* What the type of a field stands for comes earlier in the specification.
LEMMA UsesEarlier ==
  ASSUME NEW s, Acceptable(s), NEW n \in DOMAIN s, s[n].kind \in {"Struct", "Message"},
         NEW i \in DOMAIN s[n].items
  PROVE  \/ s[n].items[i].type \in Reserved
         \/ \E m \in DOMAIN s : m < n /\ s[n].items[i].type = s[m].name
<1>1. WellFormed(s) /\ IsSeq(s)
  BY DEF Acceptable, IsSeq
<1>2. s[n].items[i].type \in Reserved \cup {s[m].name : m \in 1 .. (n - 1)}
  BY <1>1 DEF WellFormed, MemberOK
<1>3. DOMAIN s = 1 .. Len(s) /\ Len(s) \in Nat
  BY <1>1, SeqIs
<1>4. \A m \in 1 .. (n - 1) : m \in DOMAIN s /\ m < n
  BY <1>3
<1> QED
  BY <1>2, <1>4

LEMMA BitsOfFirst ==
  ASSUME NEW items, NEW c \in Nat
  PROVE  Bits(First(items, c + 1)) = Bits(First(items, c)) + items[c + 1].bits
<1>1. /\ DOMAIN First(items, c) = 1 .. c /\ DOMAIN First(items, c + 1) = 1 .. (c + 1)
      /\ \A i \in 1 .. c : First(items, c + 1)[i] = First(items, c)[i]
      /\ First(items, c + 1)[c + 1] = items[c + 1]
  BY DEF First
<1> QED
  BY <1>1, BitsOneMore

\* The bits of a bitfield that has fields.
LEMMA SomeBits ==
  ASSUME NEW s, Acceptable(s), NEW e \in Range(s), e.kind = "Bitfield", Len(e.items) > 0
  PROVE  Bits(First(e.items, Len(e.items))) \in 1 .. MaxBits
<1> DEFINE c == Len(e.items) - 1
<1>1. /\ Len(e.items) \in Nat
      /\ \A a \in 0 .. Len(e.items) : /\ Bits(First(e.items, a)) \in Nat
                                       /\ Bits(First(e.items, a)) <= MaxBits
      /\ \A i \in 1 .. Len(e.items) : e.items[i].bits \in Int /\ e.items[i].bits >= 1
  BY EntryIs
<1>2. c \in Nat /\ c + 1 = Len(e.items) /\ c \in 0 .. Len(e.items)
      /\ c + 1 \in 0 .. Len(e.items) /\ c + 1 \in 1 .. Len(e.items)
  BY <1>1
<1> HIDE DEF c
<1>3. Bits(First(e.items, c + 1)) = Bits(First(e.items, c)) + e.items[c + 1].bits
  BY <1>2, BitsOfFirst
<1>4. Bits(First(e.items, c + 1)) \in Nat /\ Bits(First(e.items, c + 1)) <= MaxBits
      /\ Bits(First(e.items, c)) \in Nat /\ e.items[c + 1].bits \in Int
      /\ e.items[c + 1].bits >= 1
  BY <1>1, <1>2
<1>5. ASSUME NEW a \in Nat, NEW b \in Int, b >= 1, NEW d \in Nat, d = a + b, d <= MaxBits
      PROVE  d \in 1 .. MaxBits
  BY <1>5 DEF MaxBits
<1>6. Bits(First(e.items, c + 1)) \in 1 .. MaxBits
  BY <1>3, <1>4, <1>5
<1> QED
  BY <1>2, <1>6

\* The types of a specification have distinct names, and come where the names do.
Placed(R, gen, total) ==
  /\ DOMAIN R = 1 .. total /\ Distinct(R)
  /\ DOMAIN gen = 1 .. total /\ IsSeq(gen)
  /\ \A x \in DOMAIN gen : gen[x].name = R[x].name
LEMMA PlacesAre ==
  ASSUME NEW s, Acceptable(s), NEW t, NEW d
  PROVE  Placed(Builtins(d) \o s, Meaning(s, t, d), NumBuiltins + Len(s))
<1> DEFINE R == Builtins(d) \o s
           gen == Meaning(s, t, d)
<1>1. WellFormed(s) /\ IsSeq(s)
  BY DEF Acceptable, IsSeq
<1>2. DOMAIN s = 1 .. Len(s) /\ Len(s) \in Nat
  BY <1>1, SeqIs
<1>3. /\ DOMAIN R = 1 .. (NumBuiltins + Len(s))
      /\ \A n \in 1 .. NumBuiltins : R[n] = Builtins(d)[n]
      /\ \A n \in 1 .. Len(s) : R[NumBuiltins + n] = s[n]
  <2>1. /\ IsSeq(Builtins(d) \o s)
        /\ DOMAIN (Builtins(d) \o s) = 1 .. (NumBuiltins + Len(s))
        /\ \A n \in 1 .. NumBuiltins : (Builtins(d) \o s)[n] = Builtins(d)[n]
        /\ \A n \in 1 .. Len(s) : (Builtins(d) \o s)[NumBuiltins + n] = s[n]
    BY <1>1, NamesAre
  <2> QED
    BY <2>1
<1>4. /\ NumBuiltins \in Nat
      /\ \A n \in 1 .. (NumBuiltins - 1) : Builtins(d)[n].name = Primitive[n]
      /\ Builtins(d)[NumBuiltins].name = "SsHeader"
      /\ Distinct(Builtins(d)) /\ DOMAIN Builtins(d) = 1 .. NumBuiltins
  BY BuiltinsAre, SeqIs
<1>5. /\ IsSeq(gen) /\ DOMAIN gen = 1 .. (NumBuiltins + Len(s))
      /\ \A i \in 1 .. NumBuiltins : gen[i] = Builtins(d)[i]
      /\ \A m \in 1 .. Len(s) : gen[NumBuiltins + m] = ObjectOf(s[m], Len(s[m].items), t, d, R)
  BY <1>1, MeaningIs
<1>6. ASSUME NEW x \in 1 .. (NumBuiltins + Len(s))
      PROVE  \/ x \in 1 .. NumBuiltins
             \/ x - NumBuiltins \in 1 .. Len(s) /\ NumBuiltins + (x - NumBuiltins) = x
  BY <1>2, <1>4
<1>7. ASSUME NEW x \in DOMAIN gen PROVE gen[x].name = R[x].name
  <2>1. CASE x \in 1 .. NumBuiltins
    BY <1>3, <1>5, <2>1
  <2>2. CASE x - NumBuiltins \in 1 .. Len(s) /\ NumBuiltins + (x - NumBuiltins) = x
    <3> DEFINE m == x - NumBuiltins
    <3>1. gen[x] = ObjectOf(s[m], Len(s[m].items), t, d, R) /\ R[x] = s[m]
      BY <1>3, <1>5, <2>2
    <3> HIDE DEF m
    <3>2. ObjectOf(s[m], Len(s[m].items), t, d, R).name = s[m].name
      BY ObjIs DEF ObjectOf
    <3> QED
      BY <3>1, <3>2
  <2> QED
    BY <1>5, <1>6, <2>1, <2>2
<1>8. \A n \in 1 .. NumBuiltins : Builtins(d)[n].name \in Reserved
  <2>1. DOMAIN Primitive = 1 .. (NumBuiltins - 1)
    BY PrimitiveAssumption DEF PrimitiveAssumption, NumBuiltins
  <2> QED
    BY <1>4, <2>1 DEF Reserved, Range
<1>9. \A m \in 1 .. Len(s) : s[m].name \notin Reserved
  BY <1>1, <1>2 DEF WellFormed
<1>10. ASSUME NEW a \in 1 .. Len(s), NEW b \in 1 .. Len(s), a < b PROVE s[a].name # s[b].name
  <2>1. a \in 1 .. (b - 1)
    BY <1>2, <1>10
  <2>2. s[b].name \notin {s[n].name : n \in 1 .. (b - 1)}
    BY <1>1, <1>2 DEF WellFormed
  <2> QED
    BY <2>1, <2>2
<1>11. ASSUME NEW x \in DOMAIN R, NEW y \in DOMAIN R, R[x].name = R[y].name PROVE x = y
  <2> DEFINE a == x - NumBuiltins
             b == y - NumBuiltins
  <2>1. CASE x \in 1 .. NumBuiltins /\ y \in 1 .. NumBuiltins
    BY <1>3, <1>4, <1>11, <2>1 DEF Distinct
  <2>2. CASE x \notin 1 .. NumBuiltins /\ y \in 1 .. NumBuiltins
    <3>1. a \in 1 .. Len(s) /\ NumBuiltins + a = x
      BY <1>3, <1>6, <2>2
    <3> HIDE DEF a
    <3>2. s[a].name = Builtins(d)[y].name
      BY <1>3, <1>11, <2>2, <3>1
    <3> QED
      BY <1>8, <1>9, <2>2, <3>1, <3>2
  <2>3. CASE x \in 1 .. NumBuiltins /\ y \notin 1 .. NumBuiltins
    <3>1. b \in 1 .. Len(s) /\ NumBuiltins + b = y
      BY <1>3, <1>6, <2>3
    <3> HIDE DEF b
    <3>2. s[b].name = Builtins(d)[x].name
      BY <1>3, <1>11, <2>3, <3>1
    <3> QED
      BY <1>8, <1>9, <2>3, <3>1, <3>2
  <2>4. CASE x \notin 1 .. NumBuiltins /\ y \notin 1 .. NumBuiltins
    <3>1. a \in 1 .. Len(s) /\ NumBuiltins + a = x /\ b \in 1 .. Len(s) /\ NumBuiltins + b = y
      BY <1>3, <1>6, <2>4
    <3> HIDE DEF a, b
    <3>2. s[a].name = s[b].name
      BY <1>3, <1>11, <3>1
    <3>3. ~(a < b) /\ ~(b < a)
      BY <1>10, <3>1, <3>2
    <3> QED
      BY <1>2, <3>1, <3>3
  <2> QED
    BY <2>1, <2>2, <2>3, <2>4
<1> QED
  BY <1>3, <1>5, <1>7, <1>11 DEF Distinct, Placed

\* The type of a field is found before the type that has the field.
Found(R, name, below) ==
  IndexOf(R, name) \in 1 .. (below - 1) /\ R[IndexOf(R, name)].name = name
LEMMA TypeFound ==
  ASSUME NEW s, Acceptable(s), NEW m \in DOMAIN s,
         s[m].kind \in {"Struct", "Message"}, NEW i \in DOMAIN s[m].items, NEW d
  PROVE  Found(Builtins(d) \o s, s[m].items[i].type, NumBuiltins + m)
<1> DEFINE name == s[m].items[i].type
           R == Builtins(d) \o s
<1>1. DOMAIN R = 1 .. (NumBuiltins + Len(s)) /\ Distinct(R)
  <2>1. Placed(R, Meaning(s, 0, d), NumBuiltins + Len(s))
    BY PlacesAre
  <2> HIDE DEF R
  <2> QED
    BY <2>1 DEF Placed
<1>2. IsSeq(s)
  BY DEF Acceptable, IsSeq
<1>3. DOMAIN s = 1 .. Len(s) /\ Len(s) \in Nat
  BY <1>2, SeqIs
<1>4. /\ \A n \in 1 .. NumBuiltins : R[n] = Builtins(d)[n]
      /\ \A n \in 1 .. Len(s) : R[NumBuiltins + n] = s[n]
  <2>1. /\ IsSeq(Builtins(d) \o s)
        /\ DOMAIN (Builtins(d) \o s) = 1 .. (NumBuiltins + Len(s))
        /\ \A n \in 1 .. NumBuiltins : (Builtins(d) \o s)[n] = Builtins(d)[n]
        /\ \A n \in 1 .. Len(s) : (Builtins(d) \o s)[NumBuiltins + n] = s[n]
    BY <1>2, NamesAre
  <2> QED
    BY <2>1
<1>5. /\ NumBuiltins \in Nat /\ NumBuiltins >= 1
      /\ \A n \in 1 .. (NumBuiltins - 1) : Builtins(d)[n].name = Primitive[n]
      /\ Builtins(d)[NumBuiltins].name = "SsHeader"
  BY BuiltinsAre
<1>6. DOMAIN Primitive = 1 .. (NumBuiltins - 1)
  BY PrimitiveAssumption DEF PrimitiveAssumption, NumBuiltins
<1>7. m \in Nat /\ m >= 1 /\ m <= Len(s)
  BY <1>3
<1>8. \E x \in 1 .. (NumBuiltins + m - 1) : R[x].name = name
  <2>1. CASE name \in Range(Primitive)
    <3>1. PICK x \in 1 .. (NumBuiltins - 1) : Primitive[x] = name
      BY <1>6, <2>1 DEF Range
    <3>2. x \in 1 .. NumBuiltins /\ x \in 1 .. (NumBuiltins + m - 1)
      BY <1>5, <1>7
    <3>3. R[x].name = Primitive[x]
      BY <1>4, <1>5, <3>2
    <3> QED
      BY <3>1, <3>2, <3>3
  <2>2. CASE name = "SsHeader"
    <3>1. NumBuiltins \in 1 .. NumBuiltins /\ NumBuiltins \in 1 .. (NumBuiltins + m - 1)
      BY <1>5, <1>7
    <3>2. R[NumBuiltins].name = "SsHeader"
      BY <1>4, <1>5, <3>1
    <3> QED
      BY <2>2, <3>1, <3>2
  <2>3. CASE \E n \in DOMAIN s : n < m /\ name = s[n].name
    <3>1. PICK n \in DOMAIN s : n < m /\ name = s[n].name
      BY <2>3
    <3>2. NumBuiltins + n \in 1 .. (NumBuiltins + m - 1)
      BY <1>3, <1>5, <1>7, <3>1
    <3>3. R[NumBuiltins + n].name = name
      BY <1>3, <1>4, <3>1
    <3> QED
      BY <3>2, <3>3
  <2>4. name \in Reserved \/ \E n \in DOMAIN s : n < m /\ name = s[n].name
    BY UsesEarlier
  <2>5. name \in Range(Primitive) \cup {"SsHeader"} \/ \E n \in DOMAIN s : n < m /\ name = s[n].name
    BY <2>4 DEF Reserved
  <2> QED
    BY <2>1, <2>2, <2>3, <2>5
<1>9. PICK x \in 1 .. (NumBuiltins + m - 1) : R[x].name = name
  BY <1>8
<1>10. x \in DOMAIN R
  BY <1>1, <1>3, <1>5
<1> HIDE DEF name, R
<1>11. IndexOf(R, name) = x
  BY <1>1, <1>9, <1>10, IndexIs
<1>12. Found(R, name, NumBuiltins + m)
  BY <1>5, <1>7, <1>9, <1>11 DEF Found
<1> QED
  BY <1>12 DEF name, R

-----------------------------------------------------------------------------
(* Bytes for bits.                                                         *)

LEMMA BytesAre ==
  ASSUME NEW b \in 1 .. 64
  PROVE  /\ b <= 8 => BytesForBits(b) = 1
         /\ b > 8 /\ b <= 16 => BytesForBits(b) = 2
         /\ b > 16 /\ b <= 32 => BytesForBits(b) = 4
         /\ b > 32 => BytesForBits(b) = 8
<1> DEFINE bytes == (b - 1) \div 8 + 1
           Least(x) == x >= bytes /\ \A y \in {1, 2, 4, 8} : y >= bytes => x <= y
<1>1. /\ b <= 8 => bytes = 1
      /\ b > 8 /\ b <= 16 => bytes = 2
      /\ b > 16 /\ b <= 32 => bytes \in {3, 4}
      /\ b > 32 => bytes \in 5 .. 8
  OBVIOUS
<1>2. BytesForBits(b) = CHOOSE x \in {1, 2, 4, 8} : Least(x)
  BY DEF BytesForBits
<1> HIDE DEF bytes
<1>3. /\ bytes = 1 => \A x \in {1, 2, 4, 8} : Least(x) <=> x = 1
      /\ bytes = 2 => \A x \in {1, 2, 4, 8} : Least(x) <=> x = 2
      /\ bytes \in {3, 4} => \A x \in {1, 2, 4, 8} : Least(x) <=> x = 4
      /\ bytes \in 5 .. 8 => \A x \in {1, 2, 4, 8} : Least(x) <=> x = 8
  OBVIOUS
<1> HIDE DEF Least
<1> QED
  BY <1>1, <1>2, <1>3

\* A number has a bit length, and is between the powers of two on both sides of it.
LEMMA BitLengthIs ==
  ASSUME NEW v \in Nat, v < 2 ^ 31
  PROVE  /\ BitLength(v) \in 0 .. 64 /\ v < 2 ^ BitLength(v)
         /\ BitLength(v) = 0 \/ v >= 2 ^ (BitLength(v) - 1)
<1> DEFINE Is(l) == v < 2 ^ l /\ (l = 0 \/ v >= 2 ^ (l - 1))
           K == {l \in Nat : l <= 31 => v >= 2 ^ l}
<1>1. \E l \in 0 .. 64 : Is(l)
  <2> SUFFICES ASSUME \A l \in 0 .. 64 : ~Is(l) PROVE FALSE
    OBVIOUS
  <2>1. 0 \in K
    <3>1. ~Is(0) /\ 2 ^ 0 \in Nat
      BY PowersOfTwo
    <3> QED
      BY <3>1
  <2>2. ASSUME NEW l \in Nat, l \in K PROVE l + 1 \in K
    <3> SUFFICES ASSUME l + 1 <= 31 PROVE v >= 2 ^ (l + 1)
      OBVIOUS
    <3>1. l + 1 \in 0 .. 64 /\ (l + 1) - 1 = l /\ l + 1 # 0 /\ v >= 2 ^ l
      BY <2>2
    <3>2. ~Is(l + 1)
      <4> HIDE DEF Is
      <4> QED
        BY <3>1
    <3>3. 2 ^ (l + 1) \in Nat
      BY PowersOfTwo
    <3> QED
      BY <3>1, <3>2, <3>3
  <2>3. \A l \in Nat : l \in K
    <3> HIDE DEF K
    <3> QED
      BY <2>1, <2>2, BitFold!Induction
  <2>4. v >= 2 ^ 31 /\ 2 ^ 31 \in Nat
    BY <2>3, PowersOfTwo
  <2> QED
    BY <2>4
<1>2. BitLength(v) = CHOOSE l \in 0 .. 64 : Is(l)
  BY DEF BitLength
<1>3. BitLength(v) \in 0 .. 64 /\ Is(BitLength(v))
  <2> HIDE DEF Is
  <2> QED
    BY <1>1, <1>2
<1> QED
  BY <1>3

LEMMA Literals == 2 ^ 7 = 128 /\ 2 ^ 15 = 32768 /\ 2 ^ 31 = 2147483648
OBVIOUS

-----------------------------------------------------------------------------
(* The types of some kinds.                                                *)

KeepKind(kinds, some, t) == IF t.kind \in kinds THEN Append(some, t) ELSE some
KindFold == INSTANCE FoldTheorems WITH Op <- KeepKind

LEMMA OfKindIsFold ==
  ASSUME NEW types, NEW kinds
  PROVE  OfKind(types, kinds) = KindFold!Fold(kinds, <<>>, types)
BY DEF OfKind, FoldLeft, MapThenFoldSet, KindFold!Fold, KindFold!Rec, KindFold!Step, Max,
       KindFold!Max, KeepKind

\* What is taken of the first n types, and from where.
TakenAt(some, at, types, kinds, n) ==
  /\ IsSeq(some)
  /\ \A i \in 1 .. Len(some) :
       at[i] \in 1 .. n /\ some[i] = types[at[i]] /\ types[at[i]].kind \in kinds
  /\ \A i, j \in 1 .. Len(some) : i < j => at[i] < at[j]
  /\ \A m \in 1 .. n : types[m].kind \in kinds => \E i \in 1 .. Len(some) : at[i] = m

LEMMA TakenNext ==
  ASSUME NEW types, NEW kinds, NEW n \in Nat, NEW some, NEW at, TakenAt(some, at, types, kinds, n)
  PROVE  \E now : TakenAt(KeepKind(kinds, some, types[n + 1]), now, types, kinds, n + 1)
<1>1. CASE types[n + 1].kind \notin kinds
  <2>1. KeepKind(kinds, some, types[n + 1]) = some
    BY <1>1 DEF KeepKind
  <2>2. \A m \in 1 .. (n + 1) : m \in 1 .. n \/ m = n + 1
    OBVIOUS
  <2>3. TakenAt(some, at, types, kinds, n + 1)
    BY <1>1, <2>2 DEF TakenAt
  <2> QED
    BY <2>1, <2>3
<1>2. CASE types[n + 1].kind \in kinds
  <2> DEFINE l == Len(some)
             now == [i \in 1 .. (l + 1) |-> IF i <= l THEN at[i] ELSE n + 1]
             more == Append(some, types[n + 1])
  <2>1. l \in Nat /\ IsSeq(some)
    BY SeqIs DEF TakenAt
  <2>2. /\ IsSeq(more) /\ Len(more) = l + 1
        /\ \A i \in 1 .. l : more[i] = some[i]
        /\ more[l + 1] = types[n + 1]
    BY <2>1, AppendIs
  <2>3. /\ \A i \in 1 .. l : now[i] = at[i]
        /\ now[l + 1] = n + 1
    BY <2>1
  <2>4. KeepKind(kinds, some, types[n + 1]) = more
    BY <1>2 DEF KeepKind
  <2>5. \A i \in 1 .. l : /\ at[i] \in 1 .. n /\ some[i] = types[at[i]]
                          /\ types[at[i]].kind \in kinds
    BY DEF TakenAt
  <2>6. /\ \A i, j \in 1 .. l : i < j => at[i] < at[j]
        /\ \A m \in 1 .. n : types[m].kind \in kinds => \E i \in 1 .. l : at[i] = m
    BY DEF TakenAt
  <2> HIDE DEF l, now, more
  <2>7. \A i \in 1 .. (l + 1) : i \in 1 .. l \/ i = l + 1
    BY <2>1
  <2>8. \A i \in 1 .. (l + 1) : /\ now[i] \in 1 .. (n + 1) /\ more[i] = types[now[i]]
                                /\ types[now[i]].kind \in kinds
    BY <1>2, <2>1, <2>2, <2>3, <2>5, <2>7
  <2>9. \A i, j \in 1 .. (l + 1) : i < j => now[i] < now[j]
    BY <2>1, <2>3, <2>5, <2>6, <2>7
  <2>10. ASSUME NEW m \in 1 .. (n + 1), types[m].kind \in kinds
         PROVE  \E i \in 1 .. (l + 1) : now[i] = m
    <3>1. CASE m = n + 1
      BY <2>1, <2>3, <3>1
    <3>2. CASE m # n + 1
      <4>1. m \in 1 .. n
        BY <3>2
      <4>2. PICK i \in 1 .. l : at[i] = m
        BY <2>6, <2>10, <4>1
      <4>3. i \in 1 .. (l + 1) /\ now[i] = m
        BY <2>1, <2>3, <4>2
      <4> QED
        BY <4>3
    <3> QED
      BY <3>1, <3>2
  <2> QED
    BY <2>2, <2>4, <2>8, <2>9, <2>10 DEF TakenAt
<1> QED
  BY <1>1, <1>2

LEMMA OfKindIs ==
  ASSUME NEW types, NEW n \in Nat, DOMAIN types = 1 .. n, NEW kinds
  PROVE  \E at : TakenAt(OfKind(types, kinds), at, types, kinds, n)
<1>1. PICK h : KindFold!FoldsTo(h, kinds, <<>>, types, n) /\ OfKind(types, kinds) = h[n]
  BY OfKindIsFold, KindFold!FoldHas
<1>2. h[0] = <<>> /\ \A i \in 1 .. n : h[i] = KeepKind(kinds, h[i - 1], types[i])
  BY <1>1 DEF KindFold!FoldsTo
<1> DEFINE K == {m \in Nat : m <= n => \E at : TakenAt(h[m], at, types, kinds, m)}
<1>3. 0 \in K
  <2>1. IsSeq(<<>>) /\ Len(<<>>) = 0
    BY DEF IsSeq
  <2>2. TakenAt(h[0], <<>>, types, kinds, 0)
    BY <1>2, <2>1 DEF TakenAt
  <2> QED
    BY <2>2
<1>4. ASSUME NEW m \in Nat, m \in K PROVE m + 1 \in K
  <2>1. SUFFICES ASSUME m + 1 <= n PROVE \E at : TakenAt(h[m + 1], at, types, kinds, m + 1)
    OBVIOUS
  <2>2. PICK at : TakenAt(h[m], at, types, kinds, m)
    BY <1>4, <2>1
  <2>3. h[m + 1] = KeepKind(kinds, h[m], types[m + 1])
    <3>1. m + 1 \in 1 .. n /\ (m + 1) - 1 = m
      BY <2>1
    <3> QED
      BY <1>2, <3>1
  <2> QED
    BY <2>2, <2>3, TakenNext
<1>5. \A m \in Nat : m \in K
  <2> HIDE DEF K
  <2> QED
    BY <1>3, <1>4, KindFold!Induction
<1> QED
  BY <1>1, <1>5

\* They are the types of these kinds, in order, and have their names only once.
LEMMA OfKindHas ==
  ASSUME NEW types, IsSeq(types), NEW kinds
  PROVE  /\ IsSeq(OfKind(types, kinds))
         /\ Range(OfKind(types, kinds)) = {t \in Range(types) : t.kind \in kinds}
         /\ Distinct(types) => Distinct(OfKind(types, kinds))
<1> DEFINE some == OfKind(types, kinds)
           n == Len(types)
           l == Len(some)
<1>1. n \in Nat /\ DOMAIN types = 1 .. n
  BY SeqIs
<1>2. PICK at : TakenAt(some, at, types, kinds, n)
  BY <1>1, OfKindIs
<1> HIDE DEF some, n
<1>3. IsSeq(some) /\ l \in Nat /\ DOMAIN some = 1 .. l
  BY <1>2, SeqIs DEF TakenAt
<1>4. \A i \in 1 .. l : /\ at[i] \in 1 .. n /\ some[i] = types[at[i]]
                        /\ types[at[i]].kind \in kinds
  BY <1>2 DEF TakenAt
<1>5. /\ \A i, j \in 1 .. l : i < j => at[i] < at[j]
      /\ \A m \in 1 .. n : types[m].kind \in kinds => \E i \in 1 .. l : at[i] = m
  BY <1>2 DEF TakenAt
<1> HIDE DEF l
<1>6. ASSUME NEW t \in Range(some) PROVE t \in Range(types) /\ t.kind \in kinds
  <2>1. PICK i \in 1 .. l : t = some[i]
    BY <1>3 DEF Range
  <2> QED
    BY <1>1, <1>4, <2>1 DEF Range
<1>7. ASSUME NEW t \in Range(types), t.kind \in kinds PROVE t \in Range(some)
  <2>1. PICK m \in 1 .. n : t = types[m]
    BY <1>1 DEF Range
  <2>2. PICK i \in 1 .. l : at[i] = m
    BY <1>5, <1>7, <2>1
  <2> QED
    BY <1>3, <1>4, <2>1, <2>2 DEF Range
<1>8. ASSUME Distinct(types), NEW i \in 1 .. l, NEW j \in 1 .. l, some[i].name = some[j].name
      PROVE  i = j
  <2>1. at[i] = at[j]
    BY <1>1, <1>4, <1>8 DEF Distinct
  <2>2. at[i] \in Int /\ at[j] \in Int
    BY <1>4
  <2>3. i < j \/ j < i \/ i = j
    BY <1>3
  <2> QED
    BY <1>5, <2>1, <2>2, <2>3
<1>9. Distinct(types) => Distinct(some)
  BY <1>3, <1>8 DEF Distinct
<1>10. Range(some) = {t \in Range(types) : t.kind \in kinds}
  BY <1>6, <1>7
<1> QED
  BY <1>3, <1>9, <1>10 DEF some

\* The names depend on the names and kinds only.
LEMMA OfKindAlike ==
  ASSUME NEW types, NEW n \in Nat, DOMAIN types = 1 .. n,
         NEW other, DOMAIN other = 1 .. n,
         \A i \in 1 .. n : other[i].name = types[i].name /\ other[i].kind = types[i].kind,
         NEW kinds
  PROVE  NameSeq(OfKind(other, kinds)) = NameSeq(OfKind(types, kinds))
<1>1. PICK g : KindFold!FoldsTo(g, kinds, <<>>, types, n) /\ OfKind(types, kinds) = g[n]
  BY OfKindIsFold, KindFold!FoldHas
<1>2. g[0] = <<>> /\ \A i \in 1 .. n : g[i] = KeepKind(kinds, g[i - 1], types[i])
  BY <1>1 DEF KindFold!FoldsTo
<1>3. PICK h : KindFold!FoldsTo(h, kinds, <<>>, other, n) /\ OfKind(other, kinds) = h[n]
  BY OfKindIsFold, KindFold!FoldHas
<1>4. h[0] = <<>> /\ \A i \in 1 .. n : h[i] = KeepKind(kinds, h[i - 1], other[i])
  BY <1>3 DEF KindFold!FoldsTo
<1> DEFINE Same(a, b) == /\ IsSeq(a) /\ IsSeq(b) /\ Len(a) = Len(b)
                         /\ \A i \in 1 .. Len(a) : a[i].name = b[i].name
           K == {m \in Nat : m <= n => Same(g[m], h[m])}
<1>5. 0 \in K
  <2>1. IsSeq(<<>>) /\ Len(<<>>) = 0
    BY DEF IsSeq
  <2> QED
    BY <1>2, <1>4, <2>1
<1>6. ASSUME NEW m \in Nat, m \in K PROVE m + 1 \in K
  <2>1. SUFFICES ASSUME m + 1 <= n PROVE Same(g[m + 1], h[m + 1])
    OBVIOUS
  <2>2. Same(g[m], h[m])
    BY <1>6, <2>1
  <2>3. m + 1 \in 1 .. n /\ (m + 1) - 1 = m
    BY <2>1
  <2> DEFINE a == g[m]
             b == h[m]
             x == types[m + 1]
             y == other[m + 1]
  <2>4. g[m + 1] = KeepKind(kinds, a, x) /\ h[m + 1] = KeepKind(kinds, b, y)
    BY <1>2, <1>4, <2>3
  <2>5. x.name = y.name /\ x.kind = y.kind
    BY <2>3
  <2>6. /\ IsSeq(a) /\ IsSeq(b) /\ Len(a) = Len(b) /\ Len(a) \in Nat
        /\ \A i \in 1 .. Len(a) : a[i].name = b[i].name
    BY <2>2, SeqIs
  <2> HIDE DEF a, b, x, y
  <2>7. /\ IsSeq(Append(a, x)) /\ Len(Append(a, x)) = Len(a) + 1
        /\ \A i \in 1 .. Len(a) : Append(a, x)[i] = a[i]
        /\ Append(a, x)[Len(a) + 1] = x
    BY <2>6, AppendIs
  <2>8. /\ IsSeq(Append(b, y)) /\ Len(Append(b, y)) = Len(b) + 1
        /\ \A i \in 1 .. Len(b) : Append(b, y)[i] = b[i]
        /\ Append(b, y)[Len(b) + 1] = y
    BY <2>6, AppendIs
  <2>9. \A i \in 1 .. (Len(a) + 1) : i \in 1 .. Len(a) \/ i = Len(a) + 1
    BY <2>6
  <2>10. Same(Append(a, x), Append(b, y))
    BY <2>5, <2>6, <2>7, <2>8, <2>9
  <2>11. CASE x.kind \in kinds
    BY <2>4, <2>5, <2>10, <2>11 DEF KeepKind
  <2>12. CASE x.kind \notin kinds
    BY <2>4, <2>5, <2>6, <2>12 DEF KeepKind
  <2> QED
    BY <2>11, <2>12
<1>7. \A m \in Nat : m \in K
  <2> HIDE DEF K
  <2> QED
    BY <1>5, <1>6, KindFold!Induction
<1>8. Same(g[n], h[n])
  BY <1>7
<1>9. DOMAIN g[n] = 1 .. Len(g[n]) /\ DOMAIN h[n] = 1 .. Len(h[n])
  BY <1>8, SeqIs
<1> QED
  BY <1>1, <1>3, <1>8, <1>9 DEF NameSeq

-----------------------------------------------------------------------------
(* What a reader of the types of a specification relies on.                *)

\* What is known of the n-th type.
ReadyType(t, n) ==
  /\ t = TypeObj(t.name, t.kind, t.fields) /\ IsSeq(t.fields)
  /\ t.kind \in Kinds \cup {"Primitive"}
  /\ ~HasMembers(t) => \A before : TypeSize(t, before) \in Nat
  /\ t.kind \in {"Enum", "Bitfield"} => \A before : TypeSize(t, before) \in {1, 2, 4, 8}
  /\ HasMembers(t) =>
       \A i \in 1 .. Len(t.fields) :
         /\ t.fields[i].type.index \in 1 .. (n - 1)
         /\ t.fields[i].lens \in Seq(Int)
         /\ \A l \in DOMAIN t.fields[i].lens : t.fields[i].lens[l] >= 1
  /\ n <= NumBuiltins => t.kind \in {"Primitive", "Struct"}
  /\ n # NumBuiltins => t.name # "SsHeader"

LEMMA BytesAreFew ==
  /\ \A b \in 1 .. 64 : BytesForBits(b) \in {1, 2, 4, 8}
  /\ \A v \in Nat : v >= 1 /\ v <= IntMax => EnumBytes(v) \in {1, 2, 4, 8}
<1>1. ASSUME NEW b \in 1 .. 64 PROVE BytesForBits(b) \in {1, 2, 4, 8}
  <2>1. b <= 8 \/ (b > 8 /\ b <= 16) \/ (b > 16 /\ b <= 32) \/ b > 32
    OBVIOUS
  <2>2. /\ b <= 8 => BytesForBits(b) = 1
        /\ b > 8 /\ b <= 16 => BytesForBits(b) = 2
        /\ b > 16 /\ b <= 32 => BytesForBits(b) = 4
        /\ b > 32 => BytesForBits(b) = 8
    BY BytesAre
  <2> QED
    BY <2>1, <2>2
<1>2. ASSUME NEW v \in Nat, v >= 1, v <= IntMax PROVE EnumBytes(v) \in {1, 2, 4, 8}
  <2> DEFINE l == BitLength(v)
  <2>1. v \in Nat /\ v < 2 ^ 31
    BY <1>2, Literals DEF IntMax
  <2>2. l \in 0 .. 64 /\ v < 2 ^ l /\ (l = 0 \/ v >= 2 ^ (l - 1))
    BY <2>1, BitLengthIs
  <2> HIDE DEF l
  <2>3. l <= 32
    <3> SUFFICES ASSUME l > 32 PROVE FALSE
      BY <2>2
    <3>1. l - 1 \in Nat /\ 31 \in Nat /\ 31 <= l - 1 /\ l # 0
      BY <2>2
    <3>2. 2 ^ 31 <= 2 ^ (l - 1) /\ 2 ^ 31 \in Nat /\ 2 ^ (l - 1) \in Nat
      BY <3>1, PowersGrow, PowersOfTwo
    <3>3. v >= 2 ^ (l - 1)
      BY <2>2, <3>1
    <3> QED
      BY <2>1, <3>2, <3>3
  <2>4. l + 1 \in 1 .. 64
    BY <2>2, <2>3
  <2> QED
    BY <1>1, <2>4 DEF EnumBytes, l
<1> QED
  BY <1>1, <1>2

LEMMA BuiltinsReady ==
  ASSUME NEW d, NEW n \in 1 .. NumBuiltins
  PROVE  ReadyType(Builtins(d)[n], n)
<1> DEFINE t == Builtins(d)[n]
<1>1. NumBuiltins \in Nat /\ NumBuiltins >= 1 /\ DOMAIN Primitive = 1 .. (NumBuiltins - 1)
  <2>1. NumBuiltins \in Nat /\ NumBuiltins >= 1
    BY BuiltinsAre
  <2>2. NumBuiltins - 1 = Len(Primitive)
    BY PrimitiveAssumption, LenProperties DEF PrimitiveAssumption, NumBuiltins
  <2> QED
    BY <2>1, <2>2, PrimitiveAssumption, LenProperties DEF PrimitiveAssumption
<1>2. IsSeq(<<>>)
  BY DEF IsSeq
<1>3. CASE n \in 1 .. (NumBuiltins - 1)
  <2>1. t = TypeObj(Primitive[n], "Primitive", <<>>)
    BY <1>3, BuiltinsAreTypes
  <2> HIDE DEF t
  <2>2. t.name = Primitive[n] /\ t.kind = "Primitive" /\ t.fields = <<>>
    BY <2>1 DEF TypeObj
  <2>3. Primitive[n] \in Range(Primitive)
    BY <1>1, <1>3 DEF Range
  <2>4. PrimSize[Primitive[n]] \in Nat /\ Primitive[n] # "SsHeader"
    BY <2>3, SizeAssumption, PrimitiveAssumption DEF SizeAssumption, PrimitiveAssumption
  <2>5. \A before : TypeSize(t, before) \in Nat
    BY <2>2, <2>4 DEF TypeSize
  <2>6. ReadyType(t, n)
    BY <1>2, <2>1, <2>2, <2>4, <2>5 DEF ReadyType, HasMembers
  <2> QED
    BY <2>6 DEF t
<1>4. CASE n = NumBuiltins
  <2>1. PICK a \in 1 .. (NumBuiltins - 1), b \in 1 .. (NumBuiltins - 1) :
          t = TypeObj("SsHeader", "Struct", <<Scalar("uid", Ref(d, a)), Scalar("len", Ref(d, b))>>)
    BY <1>4, BuiltinsAreTypes
  <2> DEFINE fields == <<Scalar("uid", Ref(d, a)), Scalar("len", Ref(d, b))>>
  <2> HIDE DEF t
  <2>2. t.name = "SsHeader" /\ t.kind = "Struct" /\ t.fields = fields
    BY <2>1 DEF TypeObj
  <2>3. IsSeq(fields) /\ Len(fields) = 2
    <3>1. fields \in Seq({Scalar("uid", Ref(d, a)), Scalar("len", Ref(d, b))})
      OBVIOUS
    <3>2. IsSeq(fields)
      BY ONLY <3>1, SeqOfSome
    <3> QED
      BY <3>2
  <2>4. \A i \in 1 .. 2 : fields[i].type.index \in 1 .. (n - 1) /\ fields[i].lens = <<>>
    BY <1>4 DEF Scalar, Ref, Member
  <2> HIDE DEF fields
  <2>5. <<>> \in Seq(Int) /\ DOMAIN <<>> = {}
    OBVIOUS
  <2>6. ASSUME NEW i \in 1 .. Len(fields)
        PROVE  /\ fields[i].type.index \in 1 .. (n - 1)
               /\ fields[i].lens \in Seq(Int)
               /\ \A l \in DOMAIN fields[i].lens : fields[i].lens[l] >= 1
    <3>1. i \in 1 .. 2
      BY <2>3
    <3> QED
      BY <2>4, <2>5, <3>1
  <2>7. t = TypeObj(t.name, t.kind, t.fields)
    BY <2>1, <2>2 DEF fields
  <2>8. ReadyType(t, n)
    BY <1>4, <2>2, <2>3, <2>6, <2>7 DEF ReadyType, HasMembers, Kinds
  <2> QED
    BY <2>8 DEF t
<1> QED
  BY <1>1, <1>3, <1>4

LEMMA EntriesReady ==
  ASSUME NEW s, Acceptable(s), NEW m \in 1 .. Len(s), NEW t, NEW d
  PROVE  ReadyType(Meaning(s, t, d)[NumBuiltins + m], NumBuiltins + m)
<1> DEFINE R == Builtins(d) \o s
           e == s[m]
           c == Len(e.items)
           o == ObjectOf(e, c, t, d, R)
           h == HeaderCount(e)
           n == NumBuiltins + m
<1>1. IsSeq(s) /\ Len(s) \in Nat /\ DOMAIN s = 1 .. Len(s)
  <2>1. IsSeq(s)
    BY DEF Acceptable, IsSeq
  <2> QED
    BY <2>1, SeqIs
<1>2. Meaning(s, t, d)[n] = o
  BY <1>1, MeaningIs
<1>3. NumBuiltins \in Nat /\ NumBuiltins >= 1 /\ Builtins(d)[NumBuiltins].name = "SsHeader"
  BY BuiltinsAre
<1>4. /\ e.kind \in Kinds /\ e.name \notin Reserved
      /\ c \in Nat /\ DOMAIN e.items = 1 .. c /\ c <= IntMax
      /\ \A i \in 1 .. c : e.items[i].lens \in Seq(Int)
      /\ e.kind \in {"Struct", "Message"} =>
           \A i \in 1 .. c : \A l \in DOMAIN e.items[i].lens : e.items[i].lens[l] >= 1
  <2>1. e \in Range(s)
    BY <1>1 DEF Range
  <2> HIDE DEF e
  <2> QED
    BY <2>1, EntryIs
<1>5. o.name = e.name /\ o.kind = e.kind /\ o = TypeObj(o.name, o.kind, o.fields)
  BY DEF ObjectOf, TypeObj
<1>6. IsSeq(o.fields)
  BY <1>4, FieldsAreSeq
<1>7. /\ DOMAIN o.fields = 1 .. (h + c)
      /\ h = 1 => o.fields[1] = HeaderOf(d, R)
      /\ \A i \in 1 .. c : o.fields[h + i] = MemberOf(e, e.items[i], t, d, R)
  BY <1>4, FieldsAre
<1>8. h \in {0, 1} /\ Len(o.fields) = h + c /\ (h = 1 <=> e.kind = "Message")
  <2>1. h \in {0, 1} /\ (h = 1 <=> e.kind = "Message")
    BY DEF HeaderCount
  <2>2. DOMAIN o.fields = 1 .. Len(o.fields) /\ Len(o.fields) \in Nat
    BY <1>6, SeqIs
  <2> HIDE DEF o, h, c
  <2>3. h + c \in Nat /\ 1 .. Len(o.fields) = 1 .. (h + c)
    BY <1>4, <1>7, <2>1, <2>2
  <2>4. ASSUME NEW a \in Nat, NEW b \in Nat, 1 .. a = 1 .. b PROVE a = b
    BY <2>4
  <2> QED
    BY <2>1, <2>2, <2>3, <2>4
<1>9. IndexOf(R, "SsHeader") = NumBuiltins
  <2>1. Placed(R, Meaning(s, t, d), NumBuiltins + Len(s))
    BY PlacesAre
  <2>2. R[NumBuiltins] = Builtins(d)[NumBuiltins]
    <3>1. /\ IsSeq(Builtins(d) \o s)
          /\ DOMAIN (Builtins(d) \o s) = 1 .. (NumBuiltins + Len(s))
          /\ \A k \in 1 .. NumBuiltins : (Builtins(d) \o s)[k] = Builtins(d)[k]
          /\ \A k \in 1 .. Len(s) : (Builtins(d) \o s)[NumBuiltins + k] = s[k]
      BY <1>1, NamesAre
    <3> QED
      BY <1>3, <3>1
  <2> HIDE DEF R
  <2>3. Distinct(R) /\ NumBuiltins \in DOMAIN R
    BY <1>1, <1>3, <2>1 DEF Placed
  <2>4. IndexOf(R, R[NumBuiltins].name) = NumBuiltins
    BY <2>3, IndexIs
  <2> QED
    BY <1>3, <2>2, <2>4
<1>10. ~HasMembers(o) => \A before : TypeSize(o, before) \in {1, 2, 4, 8}
  <2> SUFFICES ASSUME ~HasMembers(o), NEW before PROVE TypeSize(o, before) \in {1, 2, 4, 8}
    OBVIOUS
  <2>1. e.kind \in {"Enum", "Bitfield"} /\ h = 0
    BY <1>4, <1>5, <1>8 DEF HasMembers, Kinds
  <2>2. Len(o.fields) = c /\ DOMAIN o.fields = 1 .. c
    BY <1>4, <1>7, <1>8, <2>1
  <2>3. o.fields = <<>> \/ (c >= 1 /\ o.fields # <<>>)
    <3> HIDE DEF o, c
    <3>1. o.fields = <<>> \/ Len(o.fields) # 0
      BY <1>6, EmptyHasNone
    <3> QED
      BY <1>4, <2>2, <3>1
  <2>4. CASE o.fields = <<>>
    <3> HIDE DEF o
    <3> QED
      BY <1>5, <2>1, <2>4 DEF TypeSize
  <2>5. CASE e.kind = "Enum" /\ o.fields # <<>>
    <3>1. EnumBytes(c) \in {1, 2, 4, 8}
      BY <1>4, <2>3, <2>5, BytesAreFew
    <3>2. TypeSize(o, before) = EnumBytes(Len(o.fields))
      <4> HIDE DEF o
      <4> QED
        BY <1>5, <2>5 DEF TypeSize
    <3> QED
      BY <2>2, <3>1, <3>2
  <2>6. CASE e.kind = "Bitfield" /\ o.fields # <<>>
    <3>1. Bits(First(e.items, c)) \in 1 .. 64
      <4>1. e \in Range(s) /\ c > 0
        BY <1>1, <1>4, <2>3, <2>6 DEF Range
      <4> HIDE DEF e
      <4> QED
        BY <2>6, <4>1, SomeBits DEF MaxBits
    <3>2. Bits(o.fields) = Bits(First(e.items, c))
      <4>1. DOMAIN First(e.items, c) = 1 .. c
        BY DEF First
      <4>2. \A i \in 1 .. c : o.fields[i].bits = First(e.items, c)[i].bits
        <5>1. \A i \in 1 .. c : o.fields[h + i] = MemberOf(e, e.items[i], t, d, R)
          BY <1>7
        <5> HIDE DEF o, c, h
        <5>2. \A i \in 1 .. c : h + i = i
          BY <1>4, <2>1
        <5>3. \A i \in 1 .. c : MemberOf(e, e.items[i], t, d, R).bits = e.items[i].bits
          BY <2>6 DEF MemberOf, Member
        <5> QED
          BY <5>1, <5>2, <5>3 DEF First
      <4> HIDE DEF o, c
      <4> QED
        BY <1>4, <2>2, <4>1, <4>2, BitsSame
    <3>3. TypeSize(o, before) = BytesForBits(Bits(o.fields))
      <4> HIDE DEF o
      <4> QED
        BY <1>5, <2>6 DEF TypeSize
    <3> QED
      BY <3>1, <3>2, <3>3, BytesAreFew
  <2> QED
    BY <2>1, <2>4, <2>5, <2>6
<1>11. ASSUME HasMembers(o), NEW i \in 1 .. Len(o.fields)
       PROVE  /\ o.fields[i].type.index \in 1 .. (n - 1)
              /\ o.fields[i].lens \in Seq(Int)
              /\ \A l \in DOMAIN o.fields[i].lens : o.fields[i].lens[l] >= 1
  <2>1. e.kind \in {"Struct", "Message"}
    BY <1>4, <1>5, <1>11 DEF HasMembers, Kinds
  <2>2. CASE h = 1 /\ i = 1
    <3>1. o.fields[i] = HeaderOf(d, R)
      BY <1>7, <2>2
    <3> HIDE DEF o, R
    <3>2. o.fields[i].type.index = NumBuiltins /\ o.fields[i].lens = <<>>
      BY <1>9, <3>1 DEF HeaderOf, Scalar, Member, Ref
    <3>3. <<>> \in Seq(Int) /\ DOMAIN <<>> = {} /\ NumBuiltins \in 1 .. (n - 1)
      BY <1>1, <1>3
    <3> QED
      BY <3>2, <3>3
  <2>3. CASE i > h
    <3> DEFINE k == i - h
    <3>1. k \in 1 .. c /\ i = h + k
      <4> HIDE DEF c, h, o
      <4> QED
        BY <1>4, <1>8, <1>11, <2>3
    <3> HIDE DEF k
    <3>2. o.fields[i] = MemberOf(e, e.items[k], t, d, R)
      BY <1>7, <3>1
    <3>3. Found(R, e.items[k].type, n)
      <4>1. m \in DOMAIN s /\ k \in DOMAIN s[m].items
        BY <1>1, <1>4, <3>1
      <4> QED
        BY <2>1, <4>1, TypeFound
    <3> HIDE DEF o, R, n
    <3>4. /\ o.fields[i].type.index = IndexOf(R, e.items[k].type)
          /\ o.fields[i].lens = e.items[k].lens
      BY <2>1, <3>2 DEF MemberOf, Member, Ref
    <3> QED
      BY <1>4, <2>1, <3>1, <3>3, <3>4 DEF Found
  <2> QED
    BY <1>8, <1>11, <2>2, <2>3
<1>12. ~(n <= NumBuiltins) /\ o.name # "SsHeader"
  BY <1>1, <1>3, <1>4, <1>5 DEF Reserved
<1>13. o.kind \in Kinds \cup {"Primitive"}
  BY <1>4, <1>5
<1> HIDE DEF o, n
<1>14. ReadyType(o, n)
  <2>1. ~HasMembers(o) => \A before : TypeSize(o, before) \in Nat
    BY <1>10
  <2>2. o.kind \in {"Enum", "Bitfield"} => \A before : TypeSize(o, before) \in {1, 2, 4, 8}
    BY <1>10 DEF HasMembers
  <2> QED
    BY <1>5, <1>6, <1>11, <1>12, <1>13, <2>1, <2>2 DEF ReadyType
<1> QED
  BY <1>2, <1>14 DEF n

\* All types of a specification.
AllReady(types, N) ==
  /\ IsSeq(types) /\ N \in Nat /\ Len(types) = N /\ DOMAIN types = 1 .. N
  /\ \A n \in 1 .. N : ReadyType(types[n], n)

LEMMA MeaningReady ==
  ASSUME NEW s, Acceptable(s), NEW t, NEW d
  PROVE  AllReady(Meaning(s, t, d), NumBuiltins + Len(s))
<1> DEFINE types == Meaning(s, t, d)
           N == NumBuiltins + Len(s)
<1>1. IsSeq(s)
  BY DEF Acceptable, IsSeq
<1>2. NumBuiltins \in Nat /\ Len(s) \in Nat
  BY <1>1, SeqIs, BuiltinsAre
<1>3. /\ IsSeq(types) /\ Len(types) = N /\ DOMAIN types = 1 .. N
      /\ \A i \in 1 .. NumBuiltins : types[i] = Builtins(d)[i]
  BY <1>1, MeaningIs
<1>4. ASSUME NEW n \in 1 .. N PROVE ReadyType(types[n], n)
  <2>1. CASE n \in 1 .. NumBuiltins
    BY <1>3, <2>1, BuiltinsReady
  <2>2. CASE n \notin 1 .. NumBuiltins
    <3> DEFINE m == n - NumBuiltins
    <3>1. m \in 1 .. Len(s) /\ n = NumBuiltins + m
      BY <1>2, <2>2
    <3> HIDE DEF m
    <3> QED
      BY <3>1, EntriesReady
  <2> QED
    BY <2>1, <2>2
<1> HIDE DEF types
<1> QED
  BY <1>2, <1>3, <1>4 DEF AllReady, types

\* Types that differ only in the dict and the aliases have the same size.
LEMMA SizeAlike ==
  ASSUME NEW t, NEW u, Alike(t, u), IsSeq(t.fields), IsSeq(u.fields), NEW before
  PROVE  TypeSize(u, before) = TypeSize(t, before)
<1> DEFINE f == t.fields  g == u.fields  n == Len(f)
<1>1. n \in Nat /\ DOMAIN f = 1 .. n /\ DOMAIN g = 1 .. n /\ Len(g) = n
  <2>1. /\ Len(f) \in Nat /\ DOMAIN f = 1 .. Len(f)
        /\ Len(g) \in Nat /\ DOMAIN g = 1 .. Len(g)
    BY SeqIs
  <2>2. DOMAIN g = DOMAIN f
    BY DEF Alike
  <2> QED
    BY <2>1, <2>2
<1>2. f = <<>> <=> g = <<>>
  BY <1>1, EmptyHasNone
<1>3. Bits(g) = Bits(f)
  <2>1. \A i \in 1 .. n : g[i].bits = f[i].bits
    BY <1>1 DEF Alike
  <2> HIDE DEF f, g, n
  <2> QED
    BY <1>1, <2>1, BitsSame
<1>4. MembersSize(before, g) = MembersSize(before, f)
  <2>1. \A i \in 1 .. n : g[i].type.index = f[i].type.index /\ g[i].lens = f[i].lens
    BY <1>1 DEF Alike
  <2> HIDE DEF f, g, n
  <2>2. PICK h : /\ MembersFold!FoldsTo(h, before, 0, f, n)
                 /\ MembersFold!Fold(before, 0, f) = h[n]
    BY <1>1, MembersFold!FoldHas
  <2>3. MembersFold!FoldsTo(h, before, 0, g, n)
    BY <2>1, <2>2 DEF MembersFold!FoldsTo
  <2>4. MembersFold!Fold(before, 0, g) = h[n]
    BY <1>1, <2>3, MembersFold!FoldIs
  <2> QED
    BY <2>2, <2>4, MembersIsFold
<1>5. u.name = t.name /\ u.kind = t.kind
  BY DEF Alike
<1> QED
  <2>1. t.fields = <<>> <=> u.fields = <<>>
    BY <1>2
  <2>2. Len(u.fields) = Len(t.fields)
    BY <1>1
  <2> QED
    BY <1>3, <1>4, <1>5, <2>1, <2>2 DEF TypeSize

LEMMA SizesAlike ==
  ASSUME NEW types, NEW n \in Nat, DOMAIN types = 1 .. n, \A i \in 1 .. n : IsSeq(types[i].fields),
         NEW other, DOMAIN other = 1 .. n, \A i \in 1 .. n : IsSeq(other[i].fields),
         \A i \in 1 .. n : Alike(types[i], other[i])
  PROVE  Sizes(other) = Sizes(types)
<1>1. \A i \in 1 .. n : \A a : Append(a, TypeSize(other[i], a)) = Append(a, TypeSize(types[i], a))
  BY SizeAlike
<1>2. SizeFold!Fold(0, <<>>, other) = SizeFold!Fold(0, <<>>, types)
  <2>1. n \in Nat /\ DOMAIN types = 1 .. n /\ DOMAIN other = 1 .. n
    OBVIOUS
  <2> QED
    BY ONLY <1>1, <2>1, SizeFold!FoldSame
<1> QED
  BY <1>2, SizesIsFold

\* A specification for two tags.
LEMMA TagsAlike ==
  ASSUME NEW s, IsSeq(s), \A m \in 1 .. Len(s) : Len(s[m].items) \in Nat, NEW t, NEW u, NEW d
  PROVE  \A n \in 1 .. (NumBuiltins + Len(s)) : Alike(Meaning(s, t, d)[n], Meaning(s, u, d)[n])
<1> DEFINE R == Builtins(d) \o s
           a == Meaning(s, t, d)
           b == Meaning(s, u, d)
           B == NumBuiltins
           N == Len(s)
<1>1. N \in Nat /\ B \in Nat
  BY SeqIs, BuiltinsAre
<1>3. /\ DOMAIN a = 1 .. (B + N)
      /\ \A i \in 1 .. B : a[i] = Builtins(d)[i]
      /\ \A m \in 1 .. N : a[B + m] = ObjectOf(s[m], Len(s[m].items), t, d, R)
  BY MeaningIs
<1>4. /\ DOMAIN b = 1 .. (B + N)
      /\ \A i \in 1 .. B : b[i] = Builtins(d)[i]
      /\ \A m \in 1 .. N : b[B + m] = ObjectOf(s[m], Len(s[m].items), u, d, R)
  BY MeaningIs
<1>5. \A i \in 1 .. B : Alike(Builtins(d)[i], Builtins(d)[i])
  BY BuiltinsAlike
<1> HIDE DEF a, b, R, B, N
<1>6. ASSUME NEW m \in 1 .. N PROVE Alike(a[B + m], b[B + m])
  <2>1. Len(s[m].items) \in Nat
    BY DEF N
  <2>2. Alike(ObjectOf(s[m], Len(s[m].items), t, d, R), ObjectOf(s[m], Len(s[m].items), u, d, R))
    BY <2>1, ObjectAlike
  <2> QED
    BY <1>3, <1>4, <2>2
<1>7. ASSUME NEW n \in 1 .. (B + N) PROVE Alike(a[n], b[n])
  <2>1. CASE n <= B
    BY <1>1, <1>3, <1>4, <1>5, <2>1
  <2>2. CASE n > B
    <3>1. n - B \in 1 .. N /\ B + (n - B) = n
      BY <1>1, <2>2
    <3> QED
      BY <1>6, <3>1
  <2> QED
    BY <1>1, <2>1, <2>2
<1> QED
  BY <1>7 DEF a, b, B, N
=============================================================================
