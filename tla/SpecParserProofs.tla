-------------------------- MODULE SpecParserProofs --------------------------
(***************************************************************************)
(* Proofs about SpecParser and the programs that use it, Generators, for   *)
(* any specifications, primitive types, names and hash: what a parse       *)
(* returns is what its specification means, and stays so; types refer to   *)
(* earlier types of their own dict; as the programs are callers like any   *)
(* other, they are given what was shown of the parser, and each file they  *)
(* write is right for its specification; so the libraries of a             *)
(* specification number its messages alike, and the documents are wrong    *)
(* of it where they are said to be and nowhere else.                       *)
(***************************************************************************)
EXTENDS Generators, SpecTypesProofs

-----------------------------------------------------------------------------
(* What a parse has done so far: R is the registry, the dict d, which holds *)
(* the first n entries of s, the last of them with its first c items.      *)

Taken(s, m, n, c) == IF m = n THEN c ELSE Len(s[m].items)

Structured(e) == e.kind \in {"Struct", "Message"}

Read(R, d, s, t, n, c, m) ==
  /\ R[NumBuiltins + m] = ObjectOf(s[m], Taken(s, m, n, c), t, d, R)
  /\ s[m].kind \in Kinds
  /\ Structured(s[m]) => \A i \in 1 .. Taken(s, m, n, c) : s[m].items[i].type \in Names(R)

Holds(R, d, s, t, n, c) ==
  /\ IsSeq(R) /\ n \in Nat /\ Len(R) = NumBuiltins + n
  /\ \A i \in 1 .. NumBuiltins : R[i] = Builtins(d)[i]
  /\ Distinct(R)
  /\ \A m \in 1 .. n : Read(R, d, s, t, n, c, m)

\* Types keep their index when the registry grows, and objects their references.
LEMMA IndexKept ==
  ASSUME NEW R, NEW S, Distinct(R), Distinct(S), DOMAIN R \subseteq DOMAIN S,
         \A n \in DOMAIN R : S[n].name = R[n].name,
         NEW name \in Names(R)
  PROVE  IndexOf(S, name) = IndexOf(R, name) /\ name \in Names(S)
<1>1. PICK n \in DOMAIN R : R[n].name = name
  BY DEF Names
<1>2. IndexOf(R, name) = n
  BY <1>1, IndexIs
<1>3. n \in DOMAIN S /\ S[n].name = name
  BY <1>1
<1>4. IndexOf(S, name) = n
  BY <1>3, IndexIs
<1> QED
  BY <1>2, <1>3, <1>4 DEF Names

LEMMA ObjectKept ==
  ASSUME NEW R, NEW S, NEW e, NEW n, NEW t, NEW d,
         IndexOf(S, "SsHeader") = IndexOf(R, "SsHeader"),
         e.kind \in Kinds,
         Structured(e) => \A i \in 1 .. n : IndexOf(S, e.items[i].type) = IndexOf(R, e.items[i].type)
  PROVE  ObjectOf(e, n, t, d, S) = ObjectOf(e, n, t, d, R)
<1>1. HeaderOf(d, S) = HeaderOf(d, R)
  BY DEF HeaderOf
<1>2. \A i \in 1 .. n : MemberOf(e, e.items[i], t, d, S) = MemberOf(e, e.items[i], t, d, R)
  <2>1. CASE Structured(e)
    BY <2>1 DEF MemberOf, Structured
  <2>2. CASE e.kind = "Enum"
    BY <2>2 DEF MemberOf
  <2>3. CASE e.kind = "Bitfield"
    BY <2>3 DEF MemberOf
  <2> QED
    BY <2>1, <2>2, <2>3 DEF Structured, Kinds
<1>3. [i \in 1 .. n |-> MemberOf(e, e.items[i], t, d, S)]
        = [i \in 1 .. n |-> MemberOf(e, e.items[i], t, d, R)]
  BY <1>2
<1> QED
  BY <1>1, <1>3 DEF ObjectOf

LEMMA HeaderRead ==
  ASSUME NEW R, NEW d, NEW s, NEW t, NEW n, NEW c, Holds(R, d, s, t, n, c)
  PROVE  /\ DOMAIN R = 1 .. (NumBuiltins + n) /\ NumBuiltins \in Nat /\ NumBuiltins >= 1
         /\ "SsHeader" \in Names(R)
<1>1. DOMAIN R = 1 .. (NumBuiltins + n) /\ NumBuiltins \in Nat /\ NumBuiltins >= 1 /\ n \in Nat
  BY SeqIs, BuiltinsAre DEF Holds
<1>2. R[NumBuiltins].name = "SsHeader" /\ NumBuiltins \in DOMAIN R
  BY <1>1, BuiltinsAre DEF Holds
<1> QED
  BY <1>1, <1>2 DEF Names

LEMMA NothingRead ==
  ASSUME NEW d, NEW s, NEW t, NEW c
  PROVE  Holds(Builtins(d), d, s, t, 0, c)
BY BuiltinsAre DEF Holds

\* The fields of an object with no item, and with one more.
LEMMA ObjectWithNone ==
  ASSUME NEW e, NEW t, NEW d, NEW R
  PROVE  ObjectOf(e, 0, t, d, R)
           = TypeObj(e.name, e.kind, IF e.kind = "Message" THEN <<HeaderOf(d, R)>> ELSE <<>>)
<1> DEFINE h == IF e.kind = "Message" THEN <<HeaderOf(d, R)>> ELSE <<>>
           f == [i \in 1 .. 0 |-> MemberOf(e, e.items[i], t, d, R)]
<1>1. IsSeq(f) /\ Len(f) = 0
  <2>1. f = [i \in 1 .. 0 |-> f[i]]
    OBVIOUS
  <2> HIDE DEF f
  <2> QED
    BY <2>1, FunctionIsSeq
<1>2. IsSeq(h)
  BY OneOrNone
<1>3. h \o f = h
  <2> HIDE DEF h, f
  <2>1. Len(h) \in Nat /\ Len(f) = 0
    BY <1>1, <1>2, SeqIs
  <2>2. IsSeq(h \o f) /\ Len(h \o f) = Len(h) /\ \A n \in 1 .. Len(h) : (h \o f)[n] = h[n]
    BY <1>1, <1>2, <2>1, ConcatIs
  <2> QED
    BY <1>2, <2>2, SameSeq
<1> QED
  BY <1>3 DEF ObjectOf

LEMMA ObjectWithOneMore ==
  ASSUME NEW e, NEW c \in Nat, NEW t, NEW d, NEW R
  PROVE  /\ IsSeq(ObjectOf(e, c, t, d, R).fields)
         /\ ObjectOf(e, c + 1, t, d, R)
              = TypeObj(e.name, e.kind, Append(ObjectOf(e, c, t, d, R).fields,
                                               MemberOf(e, e.items[c + 1], t, d, R)))
<1> DEFINE h == IF e.kind = "Message" THEN <<HeaderOf(d, R)>> ELSE <<>>
           x(i) == MemberOf(e, e.items[i], t, d, R)
           f == [i \in 1 .. c |-> x(i)]
           g == [i \in 1 .. (c + 1) |-> x(i)]
           last == MemberOf(e, e.items[c + 1], t, d, R)
<1>1. IsSeq(f) /\ Len(f) = c /\ IsSeq(g) /\ Len(g) = c + 1
  <2>1. f = [i \in 1 .. c |-> f[i]] /\ g = [i \in 1 .. (c + 1) |-> g[i]]
    OBVIOUS
  <2> HIDE DEF f, g
  <2> QED
    BY <2>1, FunctionIsSeq
<1>2. IsSeq(h)
  BY OneOrNone
<1>3. (\A i \in 1 .. c : g[i] = f[i]) /\ g[c + 1] = last
  OBVIOUS
<1> HIDE DEF f, g, h, last
<1>4. h \o g = Append(h \o f, last)
  <2> DEFINE A == Append(h \o f, last)
             H == Len(h)
  <2>1. H \in Nat
    BY <1>2, SeqIs
  <2>2. /\ IsSeq(h \o f) /\ Len(h \o f) = H + c
        /\ \A n \in 1 .. H : (h \o f)[n] = h[n]
        /\ \A n \in 1 .. c : (h \o f)[H + n] = f[n]
    <3>1. /\ IsSeq(h \o f) /\ Len(h \o f) = Len(h) + Len(f)
          /\ \A n \in 1 .. Len(h) : (h \o f)[n] = h[n]
          /\ \A n \in 1 .. Len(f) : (h \o f)[Len(h) + n] = f[n]
      <4>1. IsSeq(f) /\ IsSeq(h)
        BY <1>1, <1>2
      <4> QED
        BY ONLY <4>1, ConcatIs
    <3> QED
      BY <1>1, <3>1
  <2>3. /\ IsSeq(h \o g) /\ Len(h \o g) = H + (c + 1)
        /\ \A n \in 1 .. H : (h \o g)[n] = h[n]
        /\ \A n \in 1 .. (c + 1) : (h \o g)[H + n] = g[n]
    BY <1>1, <1>2, ConcatIs
  <2>4. /\ IsSeq(A) /\ Len(A) = (H + c) + 1
        /\ \A n \in 1 .. (H + c) : A[n] = (h \o f)[n]
        /\ A[(H + c) + 1] = last
    BY <2>2, AppendIs
  <2> HIDE DEF A, H
  <2>5. ASSUME NEW n \in 1 .. (H + (c + 1)) PROVE (h \o g)[n] = A[n]
    <3>1. CASE n \in 1 .. H
      BY <2>1, <2>2, <2>3, <2>4, <3>1
    <3>2. CASE n \in (H + 1) .. (H + c)
      <4>1. n - H \in 1 .. c /\ n = H + (n - H) /\ n \in 1 .. (H + c) /\ n - H \in 1 .. (c + 1)
        BY <2>1, <3>2
      <4>2. (h \o g)[n] = g[n - H] /\ A[n] = f[n - H]
        BY <2>2, <2>3, <2>4, <4>1
      <4> QED
        BY <1>3, <4>1, <4>2
    <3>3. CASE n = H + (c + 1)
      <4>1. (h \o g)[n] = g[c + 1]
        BY <2>3, <3>3
      <4>2. n = (H + c) + 1
        BY <2>1, <3>3
      <4> QED
        BY <1>3, <2>4, <4>1, <4>2
    <3>4. n \in 1 .. H \/ n \in (H + 1) .. (H + c) \/ n = H + (c + 1)
      BY <2>1
    <3> QED
      BY <3>1, <3>2, <3>3, <3>4
  <2>6. Len(A) = H + (c + 1)
    BY <2>1, <2>4
  <2>7. h \o g = A
    BY <2>3, <2>4, <2>5, <2>6, SameSeq
  <2> QED
    BY <2>7 DEF A
<1>5. ObjectOf(e, c, t, d, R) = TypeObj(e.name, e.kind, h \o f)
  BY DEF ObjectOf, h, f
<1>6. ObjectOf(e, c + 1, t, d, R) = TypeObj(e.name, e.kind, h \o g)
  BY DEF ObjectOf, h, g
<1>7. ObjectOf(e, c, t, d, R).fields = h \o f
  <2> DEFINE fields == h \o f
             name == e.name
             kind == e.kind
  <2>1. ObjectOf(e, c, t, d, R) = TypeObj(name, kind, fields)
    BY <1>5
  <2> HIDE DEF fields, name, kind
  <2>2. TypeObj(name, kind, fields).fields = fields
    BY ONLY ObjIs
  <2>3. ObjectOf(e, c, t, d, R).fields = fields
    BY <2>1, <2>2
  <2> QED
    BY <2>3 DEF fields
<1>8. IsSeq(h \o f)
  BY <1>1, <1>2, ConcatIs
<1> QED
  BY <1>4, <1>6, <1>7, <1>8 DEF last

LEMMA ReadIs ==
  ASSUME NEW R, NEW d, NEW s, NEW t, NEW n, NEW c, Holds(R, d, s, t, n, c), NEW m \in 1 .. n
  PROVE  /\ NumBuiltins + m \in DOMAIN R
         /\ R[NumBuiltins + m].name = s[m].name /\ R[NumBuiltins + m].kind = s[m].kind
<1>1. DOMAIN R = 1 .. (NumBuiltins + n) /\ NumBuiltins \in Nat /\ n \in Nat
  BY HeaderRead DEF Holds
<1>2. R[NumBuiltins + m] = ObjectOf(s[m], Taken(s, m, n, c), t, d, R)
  BY DEF Holds, Read
<1>3. \A e, i : ObjectOf(e, i, t, d, R).name = e.name /\ ObjectOf(e, i, t, d, R).kind = e.kind
  BY DEF ObjectOf, TypeObj
<1> QED
  BY <1>1, <1>2, <1>3

\* The steps of a parse: a type is begun, an item is added, the last type is complete.
LEMMA TypeBegun ==
  ASSUME NEW R, NEW d, NEW s, NEW t, NEW n,
         Holds(R, d, s, t, n, Len(s[n].items)),
         s[n + 1].name \notin Names(R), s[n + 1].kind \in Kinds
  PROVE  Holds(Append(R, ObjectOf(s[n + 1], 0, t, d, R)), d, s, t, n + 1, 0)
<1> DEFINE new == ObjectOf(s[n + 1], 0, t, d, R)
           S == Append(R, new)
           B == NumBuiltins
<1>1. /\ IsSeq(R) /\ n \in Nat /\ Len(R) = B + n /\ DOMAIN R = 1 .. (B + n) /\ B \in Nat
      /\ Distinct(R) /\ "SsHeader" \in Names(R)
  BY HeaderRead DEF Holds
<1>2. new.name = s[n + 1].name
  BY DEF ObjectOf, TypeObj
<1> HIDE DEF new
<1>3. /\ IsSeq(S) /\ Len(S) = B + (n + 1) /\ DOMAIN S = 1 .. (B + (n + 1))
      /\ \A i \in 1 .. (B + n) : S[i] = R[i]
      /\ S[B + (n + 1)] = new
  <2>1. /\ IsSeq(S) /\ Len(S) = Len(R) + 1 /\ DOMAIN S = 1 .. (Len(R) + 1)
        /\ \A i \in 1 .. Len(R) : S[i] = R[i]
        /\ S[Len(R) + 1] = new
    BY <1>1, AppendIs
  <2>2. Len(R) + 1 = B + (n + 1)
    BY <1>1
  <2> HIDE DEF S
  <2> QED
    BY <1>1, <2>1, <2>2
<1> HIDE DEF S, B
<1>4. \A i \in 1 .. (B + n) : R[i].name # new.name
  BY <1>1, <1>2 DEF Names
<1>5. Distinct(S)
  <2> SUFFICES ASSUME NEW i \in 1 .. (B + (n + 1)), NEW m \in 1 .. (B + (n + 1)), S[i].name = S[m].name
               PROVE  i = m
    BY <1>3 DEF Distinct
  <2>1. (i \in 1 .. (B + n) \/ i = B + (n + 1)) /\ (m \in 1 .. (B + n) \/ m = B + (n + 1))
    BY <1>1
  <2>2. CASE i \in 1 .. (B + n) /\ m \in 1 .. (B + n)
    BY <1>1, <1>3, <2>2 DEF Distinct
  <2>3. CASE i \in 1 .. (B + n) /\ m = B + (n + 1)
    BY <1>3, <1>4, <2>3
  <2>4. CASE i = B + (n + 1) /\ m \in 1 .. (B + n)
    BY <1>3, <1>4, <2>4
  <2> QED
    BY <2>1, <2>2, <2>3, <2>4
<1>6. \A name \in Names(R) : IndexOf(S, name) = IndexOf(R, name) /\ name \in Names(S)
  <2>1. DOMAIN R \subseteq DOMAIN S /\ \A i \in DOMAIN R : S[i].name = R[i].name
    BY <1>1, <1>3
  <2> QED
    BY <1>1, <1>5, <2>1, IndexKept
<1>7. \A i \in 1 .. B : S[i] = Builtins(d)[i]
  BY <1>1, <1>3 DEF Holds, B
<1>8. ASSUME NEW m \in 1 .. (n + 1) PROVE Read(S, d, s, t, n + 1, 0, m)
  <2>1. CASE m = n + 1
    <3>1. S[B + m] = ObjectOf(s[m], 0, t, d, R) /\ s[m].kind \in Kinds
      BY <1>3, <2>1 DEF new
    <3>2. ObjectOf(s[m], 0, t, d, S) = ObjectOf(s[m], 0, t, d, R)
      <4>1. Structured(s[m]) => \A i \in 1 .. 0 : IndexOf(S, s[m].items[i].type) = IndexOf(R, s[m].items[i].type)
        OBVIOUS
      <4> QED
        BY <1>1, <1>6, <3>1, <4>1, ObjectKept
    <3>3. Taken(s, m, n + 1, 0) = 0
      BY <2>1 DEF Taken
    <3> QED
      BY <3>1, <3>2, <3>3 DEF Read, B
  <2>2. CASE m \in 1 .. n
    <3> DEFINE c == Len(s[m].items)
    <3>1. m # n + 1 /\ B + m \in 1 .. (B + n)
      BY <1>1, <2>2
    <3>2. Taken(s, m, n + 1, 0) = c /\ Taken(s, m, n, Len(s[n].items)) = c
      BY <3>1 DEF Taken
    <3> HIDE DEF c
    <3>3. Read(R, d, s, t, n, Len(s[n].items), m)
      BY <2>2 DEF Holds
    <3>4. /\ R[B + m] = ObjectOf(s[m], c, t, d, R) /\ s[m].kind \in Kinds
          /\ Structured(s[m]) => \A i \in 1 .. c : s[m].items[i].type \in Names(R)
      BY <3>2, <3>3 DEF Read, B
    <3>5. ObjectOf(s[m], c, t, d, S) = ObjectOf(s[m], c, t, d, R)
      BY <1>1, <1>6, <3>4, ObjectKept
    <3>6. S[B + m] = ObjectOf(s[m], c, t, d, S)
      BY <1>3, <3>1, <3>4, <3>5
    <3> QED
      BY <1>6, <3>2, <3>4, <3>6 DEF Read, B
  <2> QED
    BY <1>1, <2>1, <2>2
<1> QED
  BY <1>1, <1>3, <1>5, <1>7, <1>8 DEF Holds, S, B, new

LEMMA ItemAdded ==
  ASSUME NEW R, NEW d, NEW s, NEW t, NEW n, NEW c \in Nat, n >= 1,
         Holds(R, d, s, t, n, c),
         Structured(s[n]) => s[n].items[c + 1].type \in Names(R)
  PROVE  /\ Holds([R EXCEPT ![Len(R)] = ObjectOf(s[n], c + 1, t, d, R)], d, s, t, n, c + 1)
         /\ R[Len(R)] = ObjectOf(s[n], c, t, d, R)
<1> DEFINE new == ObjectOf(s[n], c + 1, t, d, R)
           S == [R EXCEPT ![Len(R)] = new]
           B == NumBuiltins
<1>1. /\ IsSeq(R) /\ n \in Nat /\ Len(R) = B + n /\ DOMAIN R = 1 .. (B + n) /\ B \in Nat
      /\ Distinct(R) /\ "SsHeader" \in Names(R) /\ n \in 1 .. n /\ Len(R) \in 1 .. Len(R)
  BY HeaderRead DEF Holds
<1>2. R[B + n] = ObjectOf(s[n], c, t, d, R)
  BY <1>1 DEF Holds, Read, Taken
<1>3. new.name = R[B + n].name
  BY <1>2 DEF ObjectOf, TypeObj
<1> HIDE DEF new
<1>4. /\ IsSeq(S) /\ Len(S) = Len(R) /\ DOMAIN S = 1 .. Len(R) /\ S[Len(R)] = new
      /\ \A i \in 1 .. Len(R) : i # Len(R) => S[i] = R[i]
  BY <1>1, ExceptIs
<1> HIDE DEF S, B
<1>5. DOMAIN S = DOMAIN R /\ \A i \in DOMAIN R : S[i].name = R[i].name
  BY <1>1, <1>3, <1>4
<1>6. Distinct(S)
  BY <1>1, <1>5 DEF Distinct
<1>7. \A name \in Names(R) : IndexOf(S, name) = IndexOf(R, name) /\ name \in Names(S)
  BY <1>1, <1>5, <1>6, IndexKept
<1>8. \A i \in 1 .. B : S[i] = Builtins(d)[i]
  <2>1. \A i \in 1 .. B : i \in 1 .. Len(R) /\ i # Len(R)
    BY <1>1
  <2> QED
    BY <1>4, <2>1 DEF Holds, B
<1>9. ASSUME NEW m \in 1 .. n PROVE Read(S, d, s, t, n, c + 1, m)
  <2> DEFINE old == Taken(s, m, n, c)
             now == Taken(s, m, n, c + 1)
  <2>1. /\ R[B + m] = ObjectOf(s[m], old, t, d, R) /\ s[m].kind \in Kinds
        /\ Structured(s[m]) => \A i \in 1 .. old : s[m].items[i].type \in Names(R)
    BY DEF Holds, Read, B
  <2>2. CASE m = n
    <3>1. now = c + 1 /\ old = c
      BY <2>2 DEF Taken
    <3>2. \A i \in 1 .. (c + 1) : i \in 1 .. c \/ i = c + 1
      OBVIOUS
    <3>3. Structured(s[m]) => \A i \in 1 .. (c + 1) : s[m].items[i].type \in Names(R)
      BY <2>1, <2>2, <3>1, <3>2
    <3>4. ObjectOf(s[m], c + 1, t, d, S) = ObjectOf(s[m], c + 1, t, d, R)
      BY <1>1, <1>7, <2>1, <3>3, ObjectKept
    <3>5. S[B + m] = ObjectOf(s[m], c + 1, t, d, S)
      BY <1>1, <1>4, <2>2, <3>4 DEF new
    <3> QED
      BY <1>7, <2>1, <3>1, <3>3, <3>5 DEF Read, B
  <2>3. CASE m # n
    <3>1. now = old
      BY <2>3 DEF Taken
    <3>2. B + m \in 1 .. Len(R) /\ B + m # Len(R)
      BY <1>1, <2>3
    <3> HIDE DEF old, now
    <3>3. ObjectOf(s[m], old, t, d, S) = ObjectOf(s[m], old, t, d, R)
      BY <1>1, <1>7, <2>1, ObjectKept
    <3>4. S[B + m] = ObjectOf(s[m], now, t, d, S)
      BY <1>4, <2>1, <3>1, <3>2, <3>3
    <3> QED
      BY <1>7, <2>1, <3>1, <3>4 DEF Read, B, now
  <2> QED
    BY <2>2, <2>3
<1> QED
  BY <1>1, <1>2, <1>4, <1>6, <1>8, <1>9 DEF Holds, S, B, new

LEMMA AllRead ==
  ASSUME NEW R, NEW d, NEW s, IsSeq(s), NEW t,
         Holds(R, d, s, t, Len(s), Len(s[Len(s)].items))
  PROVE  R = Meaning(s, t, d)
<1> DEFINE B == NumBuiltins
           N == Len(s)
           names == Builtins(d) \o s
           objects == [m \in DOMAIN s |-> ObjectOf(s[m], Len(s[m].items), t, d, names)]
<1>1. /\ IsSeq(R) /\ N \in Nat /\ Len(R) = B + N /\ DOMAIN R = 1 .. (B + N) /\ B \in Nat
      /\ Distinct(R) /\ "SsHeader" \in Names(R) /\ DOMAIN s = 1 .. N
  BY HeaderRead, SeqIs DEF Holds
<1>2. IsSeq(objects) /\ Len(objects) = N /\ DOMAIN objects = 1 .. N
  <2>1. objects = [m \in 1 .. N |-> objects[m]]
    BY <1>1
  <2> HIDE DEF objects
  <2> QED
    BY <1>1, <2>1, FunctionIsSeq
<1>3. /\ IsSeq(Builtins(d)) /\ Len(Builtins(d)) = B
      /\ \A i \in 1 .. B : R[i] = Builtins(d)[i]
  BY BuiltinsAre DEF Holds
<1> HIDE DEF B, N, names
<1>4. /\ DOMAIN names = 1 .. (B + N)
      /\ \A i \in 1 .. B : names[i] = R[i]
      /\ \A m \in 1 .. N : names[B + m] = s[m]
  <2>1. /\ DOMAIN names = 1 .. (Len(Builtins(d)) + Len(s))
        /\ \A i \in 1 .. Len(Builtins(d)) : names[i] = Builtins(d)[i]
        /\ \A m \in 1 .. Len(s) : names[Len(Builtins(d)) + m] = s[m]
    <3>1. IsSeq(Builtins(d)) /\ IsSeq(s)
      BY <1>3
    <3> QED
      BY ONLY <3>1, ConcatIs DEF names
  <2> QED
    BY <1>3, <2>1 DEF N
<1>5. \A i \in 1 .. (B + N) : names[i].name = R[i].name
  <2>1. \A m \in 1 .. N : names[B + m].name = R[B + m].name
    BY <1>4, ReadIs DEF B, N
  <2>2. ASSUME NEW i \in 1 .. (B + N) PROVE i \in 1 .. B \/ (i - B \in 1 .. N /\ i = B + (i - B))
    BY <1>1
  <2> QED
    BY <1>4, <2>1, <2>2
<1>6. Distinct(names)
  BY <1>1, <1>4, <1>5 DEF Distinct
<1>7. \A name \in Names(R) : IndexOf(names, name) = IndexOf(R, name)
  BY <1>1, <1>4, <1>5, <1>6, IndexKept
<1>8. \A m \in 1 .. N : objects[m] = R[B + m]
  <2> SUFFICES ASSUME NEW m \in 1 .. N PROVE objects[m] = R[B + m]
    OBVIOUS
  <2> DEFINE c == Len(s[m].items)
  <2>1. Taken(s, m, N, Len(s[N].items)) = c
    BY DEF Taken
  <2>2. /\ R[B + m] = ObjectOf(s[m], c, t, d, R) /\ s[m].kind \in Kinds
        /\ Structured(s[m]) => \A i \in 1 .. c : s[m].items[i].type \in Names(R)
    BY <2>1 DEF Holds, Read, B, N
  <2>3. objects[m] = ObjectOf(s[m], c, t, d, names)
    BY <1>1
  <2> HIDE DEF c, objects
  <2>4. ObjectOf(s[m], c, t, d, names) = ObjectOf(s[m], c, t, d, R)
    BY <1>1, <1>7, <2>2, ObjectKept
  <2> QED
    BY <2>2, <2>3, <2>4
<1>9. Meaning(s, t, d) = Builtins(d) \o objects
  BY DEF Meaning, names
<1> HIDE DEF objects
<1> DEFINE M == Builtins(d) \o objects
<1>10. /\ IsSeq(M) /\ Len(M) = B + N
       /\ \A i \in 1 .. B : M[i] = Builtins(d)[i]
       /\ \A m \in 1 .. N : M[B + m] = objects[m]
  <2>1. /\ IsSeq(M) /\ Len(M) = Len(Builtins(d)) + Len(objects)
        /\ \A i \in 1 .. Len(Builtins(d)) : M[i] = Builtins(d)[i]
        /\ \A m \in 1 .. Len(objects) : M[Len(Builtins(d)) + m] = objects[m]
    <3>1. IsSeq(Builtins(d)) /\ IsSeq(objects)
      BY <1>2, <1>3
    <3> QED
      BY ONLY <3>1, ConcatIs DEF M
  <2> HIDE DEF M
  <2> QED
    BY <1>2, <1>3, <2>1
<1> HIDE DEF M
<1>11. ASSUME NEW i \in 1 .. (B + N) PROVE R[i] = M[i]
  <2>1. i \in 1 .. B \/ (i - B \in 1 .. N /\ i = B + (i - B))
    BY <1>1
  <2>2. CASE i \in 1 .. B
    BY <1>3, <1>10, <2>2
  <2>3. CASE i - B \in 1 .. N /\ i = B + (i - B)
    BY <1>8, <1>10, <2>3
  <2> QED
    BY <2>1, <2>2, <2>3
<1>12. R = M
  BY <1>1, <1>10, <1>11, SameSeq
<1> QED
  BY <1>9, <1>12 DEF M

-----------------------------------------------------------------------------
(* References when the registry changes.                                   *)

LEMMA BackAppended ==
  ASSUME NEW R, IsSeq(R), NEW d, BackIn(R, d), NEW o,
         \A f \in Range(o.fields) :
           f.type # NoRef => f.type.dict = d /\ f.type.index \in 1 .. Len(R)
  PROVE  BackIn(Append(R, o), d)
<1> DEFINE S == Append(R, o)
           N == Len(R)
<1>1. /\ N \in Nat /\ DOMAIN R = 1 .. N /\ DOMAIN S = 1 .. (N + 1)
      /\ \A n \in 1 .. N : S[n] = R[n]
      /\ S[N + 1] = o
  BY AppendIs, SeqIs
<1> HIDE DEF S
<1>2. ASSUME NEW n \in 1 .. (N + 1), NEW f \in Range(S[n].fields), f.type # NoRef
      PROVE  f.type.dict = d /\ f.type.index \in 1 .. (n - 1)
  <2>1. CASE n \in 1 .. N
    BY <1>1, <1>2, <2>1 DEF BackIn
  <2>2. CASE n = N + 1
    <3>1. S[n] = o /\ n - 1 = N
      BY <1>1, <2>2
    <3> QED
      BY <1>2, <3>1
  <2> QED
    BY <1>1, <2>1, <2>2
<1>3. BackIn(S, d)
  BY <1>1, <1>2 DEF BackIn
<1> QED
  BY <1>3 DEF S

LEMMA BackReplaced ==
  ASSUME NEW R, IsSeq(R), Len(R) >= 1, NEW d, BackIn(R, d), NEW o,
         \A f \in Range(o.fields) :
           f.type # NoRef => f.type.dict = d /\ f.type.index \in 1 .. (Len(R) - 1)
  PROVE  BackIn([R EXCEPT ![Len(R)] = o], d)
<1> DEFINE S == [R EXCEPT ![Len(R)] = o]
<1>1. Len(R) \in Nat /\ DOMAIN R = 1 .. Len(R) /\ Len(R) \in 1 .. Len(R)
  BY SeqIs
<1>2. /\ DOMAIN S = 1 .. Len(R) /\ S[Len(R)] = o
      /\ \A n \in 1 .. Len(R) : n # Len(R) => S[n] = R[n]
  BY <1>1, ExceptIs
<1> HIDE DEF S
<1>3. BackIn(S, d)
  BY <1>1, <1>2 DEF BackIn
<1> QED
  BY <1>3 DEF S

LEMMA BackConcatenated ==
  ASSUME NEW R, IsSeq(R), NEW d, BackIn(R, d), NEW X, IsSeq(X),
         \A i \in 1 .. Len(X) : \A f \in Range(X[i].fields) : f.type = NoRef
  PROVE  IsSeq(R \o X) /\ BackIn(R \o X, d)
<1> DEFINE S == R \o X
           N == Len(R)
           L == Len(X)
<1>1. N \in Nat /\ L \in Nat /\ DOMAIN R = 1 .. N
  BY SeqIs
<1>2. /\ IsSeq(S) /\ DOMAIN S = 1 .. (N + L)
      /\ \A n \in 1 .. N : S[n] = R[n]
      /\ \A n \in 1 .. L : S[N + n] = X[n]
  <2>1. IsSeq(R) /\ IsSeq(X)
    OBVIOUS
  <2> QED
    BY ONLY <2>1, ConcatIs DEF S, N, L
<1> HIDE DEF S, N
<1>3. ASSUME NEW n \in 1 .. (N + L), NEW f \in Range(S[n].fields), f.type # NoRef
      PROVE  f.type.dict = d /\ f.type.index \in 1 .. (n - 1)
  <2>1. CASE n \in 1 .. N
    BY <1>1, <1>2, <1>3, <2>1 DEF BackIn
  <2>2. CASE n \notin 1 .. N
    <3>1. n - N \in 1 .. L /\ n = N + (n - N)
      BY <1>1, <2>2
    <3>2. S[n] = X[n - N]
      BY <1>2, <3>1
    <3> QED
      BY <1>3, <3>1, <3>2
  <2> QED
    BY <2>1, <2>2
<1>4. BackIn(S, d)
  BY <1>2, <1>3 DEF BackIn
<1> QED
  BY <1>2, <1>4 DEF S

-----------------------------------------------------------------------------
(* The inductive invariant.                                                *)

\* The registry is the newest dict of the heap.
HeapOK ==
  /\ IsSeq(dicts) /\ cur = Len(dicts) /\ cur \in Nat \ {0}
  /\ \A d \in 1 .. cur : IsSeq(dicts[d]) /\ BackIn(dicts[d], d)

\* What a call returned is an older dict, which nothing changes any more.
ViewsBelow ==
  /\ \A v \in views : v.dict \in 1 .. (cur - 1)
  /\ outcome = "returned" => cur - 1 \in 1 .. cur

\* A parse under way has read what precedes entry k, or item j of it.
ParseInv ==
  /\ pc # "idle" => spec \in SpecFile
  /\ pc = "entries" =>
       Holds(dicts[cur], cur, spec, tag, k - 1, Len(spec[k - 1].items))
  /\ pc = "items" => Holds(dicts[cur], cur, spec, tag, k, j - 1)

IndInv == TypeOK /\ HeapOK /\ ViewsBelow /\ ViewsHold /\ ParseInv

LEMMA SpecIs ==
  ASSUME NEW s \in SpecFile
  PROVE  /\ IsSeq(s) /\ Len(s) \in Nat /\ DOMAIN s = 1 .. Len(s)
         /\ \A n \in 1 .. Len(s) : Len(s[n].items) \in Nat
<1>1. IsSeq(s) /\ \A n \in DOMAIN s : IsSeq(s[n].items)
  BY SpecShapeAssumption DEF SpecShapeAssumption, IsSeq
<1>2. Len(s) \in Nat /\ DOMAIN s = 1 .. Len(s)
  BY <1>1, SeqIs
<1> QED
  BY <1>1, <1>2, SeqIs

LEMMA HeapReset ==
  ASSUME HeapOK, Reset
  PROVE  /\ HeapOK' /\ cur' = cur + 1 /\ dicts'[cur'] = Builtins(cur')
         /\ \A d \in 1 .. cur : dicts'[d] = dicts[d]
<1>1. cur \in Nat /\ cur' = cur + 1 /\ dicts' = Append(dicts, Builtins(cur + 1))
  BY DEF HeapOK, Reset
<1>2. /\ IsSeq(dicts') /\ Len(dicts') = cur + 1
      /\ \A d \in 1 .. cur : dicts'[d] = dicts[d]
      /\ dicts'[cur + 1] = Builtins(cur + 1)
  BY <1>1, AppendIs DEF HeapOK
<1>3. \A d \in 1 .. (cur + 1) : d \in 1 .. cur \/ d = cur + 1
  BY <1>1
<1>4. \A d \in 1 .. (cur + 1) : IsSeq(dicts'[d]) /\ BackIn(dicts'[d], d)
  BY <1>2, <1>3, BuiltinsAre DEF HeapOK
<1> QED
  BY <1>1, <1>2, <1>4 DEF HeapOK, IsSeq, BackIn, NoRef, Ref

LEMMA HeapChanged ==
  ASSUME HeapOK, NEW R, IsSeq(R), BackIn(R, cur),
         dicts' = [dicts EXCEPT ![cur] = R], cur' = cur
  PROVE  HeapOK' /\ dicts'[cur] = R /\ \A d \in 1 .. (cur - 1) : dicts'[d] = dicts[d]
<1>1. cur \in Nat /\ cur \in 1 .. cur /\ cur = Len(dicts)
  BY DEF HeapOK
<1>2. /\ IsSeq(dicts') /\ Len(dicts') = cur /\ dicts'[cur] = R
      /\ \A d \in 1 .. cur : d # cur => dicts'[d] = dicts[d]
  BY <1>1, ExceptIs DEF HeapOK
<1>3. \A d \in 1 .. cur : IsSeq(dicts'[d]) /\ BackIn(dicts'[d], d)
  BY <1>2 DEF HeapOK
<1> QED
  BY <1>1, <1>2, <1>3 DEF HeapOK, IsSeq, BackIn, NoRef, Ref

LEMMA HeapTypes ==
  ASSUME HeapOK', ViewsBelow'
  PROVE  (cur \in DOMAIN dicts /\ \A v \in views : v.dict \in DOMAIN dicts)'
<1>1. (cur \in Nat \ {0} /\ DOMAIN dicts = 1 .. cur)'
  BY SeqIs DEF HeapOK
<1> QED
  BY <1>1 DEF ViewsBelow

LEMMA ViewsKept ==
  ASSUME HeapOK, ViewsBelow, ViewsHold, views' = views,
         cur' = cur \/ cur' = cur + 1,
         \A d \in 1 .. (cur - 1) : dicts'[d] = dicts[d],
         outcome' = "returned" => cur' - 1 \in 1 .. cur'
  PROVE  ViewsBelow' /\ ViewsHold'
<1>1. cur \in Nat
  BY DEF HeapOK
<1>2. ViewsBelow'
  BY <1>1 DEF ViewsBelow
<1>3. ASSUME NEW v \in views PROVE dicts'[v.dict] = Meaning(v.spec, v.tag, v.dict)
  <2>1. v.dict \in 1 .. (cur - 1)
    BY DEF ViewsBelow
  <2> QED
    BY <2>1 DEF ViewsHold
<1> QED
  BY <1>2, <1>3 DEF ViewsHold

LEMMA CallKeeps ==
  ASSUME IndInv, Call
  PROVE  IndInv'
<1>1. HeapOK' /\ cur' = cur + 1 /\ dicts'[cur'] = Builtins(cur') /\ \A d \in 1 .. cur : dicts'[d] = dicts[d]
  BY HeapReset DEF Call, IndInv
<1>2. ViewsBelow' /\ ViewsHold'
  <2>1. cur \in Nat
    BY DEF IndInv, HeapOK
  <2>2. views' = views /\ outcome' = "none"
    BY DEF Call
  <2>3. \A d \in 1 .. (cur - 1) : dicts'[d] = dicts[d]
    BY <1>1, <2>1
  <2> QED
    BY <1>1, <2>2, <2>3, ViewsKept DEF IndInv
<1>3. TypeOK'
  <2>1. Len(spec') \in Nat
    BY SpecIs DEF Call
  <2> QED
    BY <1>1, <1>2, <2>1, HeapTypes DEF Call, TypeOK
<1>4. ParseInv'
  <2>1. Holds(dicts'[cur'], cur', spec', tag', 0, Len(spec'[k' - 1].items))
    BY <1>1, NothingRead
  <2>2. k' - 1 = 0 /\ pc' = "entries" /\ spec' \in SpecFile
    BY DEF Call
  <2> QED
    BY <2>1, <2>2 DEF ParseInv
<1> QED
  BY <1>1, <1>2, <1>3, <1>4 DEF IndInv

LEMMA CallOnBadFileKeeps ==
  ASSUME IndInv, CallOnBadFile
  PROVE  IndInv'
<1>1. HeapOK'
  BY DEF IndInv, HeapOK, CallOnBadFile, IsSeq, BackIn, NoRef, Ref
<1>2. ViewsBelow' /\ ViewsHold'
  BY DEF IndInv, ViewsBelow, ViewsHold, CallOnBadFile
<1>3. TypeOK'
  <2>1. Len(spec') \in Nat /\ spec' = NotAMap
    <3>1. spec' = NotAMap
      BY DEF CallOnBadFile
    <3> QED
      BY <3>1 DEF NotAMap
  <2> QED
    BY <1>1, <1>2, <2>1, HeapTypes DEF CallOnBadFile, TypeOK, IndInv
<1>4. ParseInv'
  BY DEF CallOnBadFile, ParseInv
<1> QED
  BY <1>1, <1>2, <1>3, <1>4 DEF IndInv

\* An exception changes nothing of the registry.
LEMMA RaiseKeeps ==
  ASSUME IndInv, NEW e \in {"SpecParseError", "KeyError"}, Raise(e),
         UNCHANGED <<dicts, spec, tag, k>>
  PROVE  IndInv'
<1>1. HeapOK'
  BY DEF IndInv, HeapOK, Raise, IsSeq, BackIn, NoRef, Ref
<1>2. ViewsBelow' /\ ViewsHold'
  BY DEF IndInv, ViewsBelow, ViewsHold, Raise
<1>3. TypeOK'
  BY <1>1, <1>2, HeapTypes DEF Raise, TypeOK, IndInv
<1>4. ParseInv'
  BY DEF Raise, ParseInv
<1> QED
  BY <1>1, <1>2, <1>3, <1>4 DEF IndInv

LEMMA FinishTypeKeeps ==
  ASSUME IndInv, FinishType
  PROVE  IndInv'
<1>1. HeapOK'
  BY DEF IndInv, HeapOK, FinishType, IsSeq, BackIn, NoRef, Ref
<1>2. ViewsBelow' /\ ViewsHold'
  BY DEF IndInv, ViewsBelow, ViewsHold, FinishType
<1>3. spec \in SpecFile /\ Len(spec) \in Nat /\ k \in 1 .. Len(spec) /\ Len(spec[k].items) \in Nat
  BY SpecIs DEF IndInv, ParseInv, TypeOK, FinishType
<1>4. TypeOK'
  BY <1>1, <1>2, <1>3, HeapTypes DEF FinishType, TypeOK, IndInv
<1>5. j - 1 = Len(spec[k].items) /\ (k + 1) - 1 = k
  BY <1>3 DEF IndInv, TypeOK, FinishType
<1>6. ParseInv'
  <2>1. Holds(dicts[cur], cur, spec, tag, k, Len(spec[k].items))
    BY <1>5 DEF IndInv, ParseInv, FinishType
  <2>2. UNCHANGED <<dicts, cur, spec, tag>> /\ k' - 1 = k /\ pc' = "entries"
    BY <1>5 DEF FinishType
  <2> QED
    BY <1>3, <2>1, <2>2 DEF ParseInv
<1> QED
  BY <1>1, <1>2, <1>4, <1>6 DEF IndInv

LEMMA ReturnKeeps ==
  ASSUME IndInv, Return
  PROVE  IndInv'
<1>1. HeapOK' /\ cur' = cur + 1 /\ \A d \in 1 .. cur : dicts'[d] = dicts[d]
  BY HeapReset DEF Return, IndInv
<1>2. cur \in Nat \ {0}
  BY DEF IndInv, HeapOK
<1>3. dicts[cur] = Meaning(spec, tag, cur)
  <2>1. IsSeq(spec) /\ Len(spec) \in Nat
    BY SpecIs DEF IndInv, ParseInv, Return
  <2>2. k - 1 = Len(spec)
    BY <2>1 DEF IndInv, TypeOK, Return
  <2>3. Holds(dicts[cur], cur, spec, tag, Len(spec), Len(spec[Len(spec)].items))
    BY <2>2 DEF IndInv, ParseInv, Return
  <2> QED
    BY <2>1, <2>3, AllRead
<1>4. views' \subseteq views \cup {[dict |-> cur, spec |-> spec, tag |-> tag]}
  BY DEF Return
<1>5. ViewsBelow'
  BY <1>1, <1>2, <1>4 DEF IndInv, ViewsBelow
<1>6. ViewsHold'
  <2>1. ASSUME NEW v \in views' PROVE dicts'[v.dict] = Meaning(v.spec, v.tag, v.dict)
    <3>1. CASE v \in views
      <4>1. v.dict \in 1 .. cur
        BY <1>2, <3>1 DEF IndInv, ViewsBelow
      <4> QED
        BY <1>1, <3>1, <4>1 DEF IndInv, ViewsHold
    <3>2. CASE v = [dict |-> cur, spec |-> spec, tag |-> tag]
      BY <1>1, <1>2, <1>3, <3>2
    <3> QED
      BY <1>4, <3>1, <3>2
  <2> QED
    BY <2>1 DEF ViewsHold
<1>7. TypeOK'
  <2>1. pc' = "idle" /\ UNCHANGED <<spec, tag, k>> /\ outcome' \in {"returned", "AssertionError"}
    BY DEF Return
  <2> QED
    BY <1>1, <1>5, <2>1, HeapTypes DEF TypeOK, IndInv
<1>8. ParseInv'
  BY DEF Return, ParseInv
<1> QED
  BY <1>1, <1>5, <1>6, <1>7, <1>8 DEF IndInv

LEMMA StartTypeKeeps ==
  ASSUME IndInv, StartType
  PROVE  IndInv'
<1> DEFINE R == dicts[cur]
           e == spec[k]
           none == ObjectOf(e, 0, tag, cur, R)
<1>1. pc = "entries" /\ k <= Len(spec) /\ j' = 1 /\ UNCHANGED <<spec, tag, k, extras, calls>>
  BY DEF StartType
<1>2. /\ spec \in SpecFile /\ Len(spec) \in Nat /\ k \in 1 .. Len(spec)
      /\ Len(spec[k].items) \in Nat /\ (k - 1) + 1 = k
  BY <1>1, SpecIs DEF IndInv, ParseInv, TypeOK
<1>3. CASE Raise("SpecParseError") /\ UNCHANGED dicts
  BY <1>1, <1>3, RaiseKeeps
<1>4. CASE /\ e.kind \in Kinds /\ e.name \notin Names(R)
           /\ dicts' = [dicts EXCEPT ![cur] = Append(R,
                TypeObj(e.name, e.kind,
                        IF e.kind = "Message" THEN <<HeaderOf(cur, R)>> ELSE <<>>))]
           /\ pc' = "items"
           /\ UNCHANGED <<cur, outcome, views>>
  <2>1. dicts' = [dicts EXCEPT ![cur] = Append(R, none)]
    <3> DEFINE obj == TypeObj(e.name, e.kind,
                              IF e.kind = "Message" THEN <<HeaderOf(cur, R)>> ELSE <<>>)
    <3>1. none = obj
      BY ObjectWithNone
    <3>2. dicts' = [dicts EXCEPT ![cur] = Append(R, obj)]
      BY <1>4
    <3> HIDE DEF none, obj
    <3> QED
      BY <3>1, <3>2
  <2>2. /\ Holds(R, cur, spec, tag, k - 1, Len(spec[k - 1].items))
        /\ IsSeq(R) /\ BackIn(R, cur) /\ cur \in Nat \ {0} /\ cur \in 1 .. cur
    BY <1>1 DEF IndInv, ParseInv, HeapOK
  <2>3. \A f \in Range(none.fields) : f.type.dict = cur /\ f.type.index \in 1 .. Len(R)
    <3>1. none = TypeObj(e.name, e.kind, IF e.kind = "Message" THEN <<HeaderOf(cur, R)>> ELSE <<>>)
      BY ObjectWithNone
    <3>2. none.fields = IF e.kind = "Message" THEN <<HeaderOf(cur, R)>> ELSE <<>>
      BY <3>1 DEF TypeObj
    <3>3. "SsHeader" \in Names(R) /\ DOMAIN R = 1 .. Len(R)
      BY <2>2, HeaderRead, SeqIs
    <3> HIDE DEF none, R, e
    <3>4. IndexOf(R, "SsHeader") \in 1 .. Len(R)
      BY <3>3, IndexOfName
    <3>5. HeaderOf(cur, R).type.dict = cur /\ HeaderOf(cur, R).type.index \in 1 .. Len(R)
      BY <3>4 DEF HeaderOf, Scalar, Member, Ref
    <3>6. Range(<<HeaderOf(cur, R)>>) = {HeaderOf(cur, R)} /\ Range(<<>>) = {}
      BY DEF Range
    <3>7. CASE e.kind = "Message"
      BY <3>2, <3>5, <3>6, <3>7
    <3>8. CASE e.kind # "Message"
      BY <3>2, <3>6, <3>8
    <3> QED
      BY <3>7, <3>8
  <2>4. Holds(Append(R, none), cur, spec, tag, k, 0)
    <3> DEFINE n == k - 1
    <3>1. Holds(R, cur, spec, tag, n, Len(spec[n].items)) /\ n + 1 = k
      BY <1>2, <2>2
    <3> HIDE DEF R, n
    <3>2. spec[n + 1].name \notin Names(R) /\ spec[n + 1].kind \in Kinds
      BY <1>4, <3>1
    <3>3. Holds(Append(R, ObjectOf(spec[n + 1], 0, tag, cur, R)), cur, spec, tag, n + 1, 0)
      BY <3>1, <3>2, TypeBegun
    <3> QED
      BY <3>1, <3>3
  <2> HIDE DEF none, R
  <2>5. IsSeq(Append(R, none)) /\ BackIn(Append(R, none), cur)
    BY <2>2, <2>3, AppendIs, BackAppended
  <2> DEFINE S == Append(R, none)
  <2>6. dicts' = [dicts EXCEPT ![cur] = S] /\ cur' = cur /\ IsSeq(S) /\ BackIn(S, cur)
    BY <1>4, <2>1, <2>5
  <2> HIDE DEF S
  <2>7. HeapOK' /\ dicts'[cur] = S /\ \A d \in 1 .. (cur - 1) : dicts'[d] = dicts[d]
    BY <2>6, HeapChanged DEF IndInv
  <2>8. ViewsBelow' /\ ViewsHold'
    BY <1>4, <2>7, ViewsKept DEF IndInv, ViewsBelow
  <2>9. TypeOK'
    BY <1>1, <1>2, <1>4, <2>7, <2>8, HeapTypes DEF IndInv, TypeOK
  <2>10. ParseInv'
    <3>1. Holds(S, cur, spec, tag, k, 0)
      BY <2>4 DEF S
    <3>2. j' - 1 = 0 /\ k' = k /\ spec' = spec /\ tag' = tag
      BY <1>1
    <3> QED
      BY <1>2, <1>4, <2>7, <3>1, <3>2 DEF ParseInv
  <2> QED
    BY <2>7, <2>8, <2>9, <2>10 DEF IndInv
<1> QED
  BY <1>3, <1>4 DEF StartType, Registered

LEMMA AddItemKeeps ==
  ASSUME IndInv, AddItem
  PROVE  IndInv'
<1> DEFINE R == dicts[cur]
           e == spec[k]
           item == e.items[j]
           obj == Last(Registered)
           added == IF obj.kind \in {"Struct", "Message"}
                    THEN Member(item.name, Ref(cur, IndexOf(Registered, item.type)),
                                item.lens, 0, tag \in item.tags)
                    ELSE Member(item.name, NoRef, <<>>,
                                IF obj.kind = "Bitfield" THEN item.bits ELSE 0, FALSE)
           c == j - 1
           before == ObjectOf(e, c, tag, cur, R)
           after == ObjectOf(e, c + 1, tag, cur, R)
<1>1. pc = "items" /\ j <= Len(e.items) /\ UNCHANGED <<spec, tag, k, extras, calls>>
  BY DEF AddItem
<1>2. /\ spec \in SpecFile /\ Len(spec) \in Nat /\ k \in 1 .. Len(spec)
      /\ Len(e.items) \in Nat /\ j \in 1 .. Len(e.items) /\ c \in Nat /\ c + 1 = j
  BY <1>1, SpecIs DEF IndInv, ParseInv, TypeOK
<1>3. CASE /\ Raise(IF item.shape = "bare" THEN "KeyError" ELSE "SpecParseError")
           /\ UNCHANGED <<dicts, j>>
  BY <1>1, <1>3, RaiseKeeps
<1>4. CASE /\ ~Refused(obj, item)
           /\ dicts' = [dicts EXCEPT ![cur][Len(Registered)].fields = Append(@, added)]
           /\ j' = j + 1
           /\ UNCHANGED <<cur, pc, outcome, views>>
  <2>1. /\ Holds(R, cur, spec, tag, k, c)
        /\ IsSeq(R) /\ BackIn(R, cur) /\ cur \in Nat \ {0} /\ cur \in DOMAIN dicts
    BY <1>1 DEF IndInv, ParseInv, HeapOK, TypeOK
  <2>2. DOMAIN R = 1 .. Len(R) /\ Len(R) \in Nat /\ Len(R) >= 1 /\ Len(R) \in 1 .. Len(R)
    BY <1>2, <2>1, HeaderRead, SeqIs
  <2>3. obj = R[Len(R)]
    BY DEF Last, Registered
  <2>4. R[Len(R)] = before
    <3>1. R[Len(R)] = R[NumBuiltins + k]
      BY <2>1 DEF Holds
    <3>2. R[NumBuiltins + k] = ObjectOf(spec[k], Taken(spec, k, k, c), tag, cur, R) /\ e.kind \in Kinds
      BY <1>2, <2>1 DEF Holds, Read
    <3> QED
      BY <3>1, <3>2 DEF Taken
  <2>5. e.kind \in Kinds /\ before.name = e.name /\ before.kind = e.kind
    <3>1. e.kind \in Kinds
      BY <1>2, <2>1 DEF Holds, Read
    <3> QED
      BY <3>1 DEF ObjectOf, TypeObj
  <2>6. Structured(e) => item.type \in Names(R) /\ item.type # R[Len(R)].name
    BY <1>4, <2>3, <2>4, <2>5 DEF Refused, Registered, Structured
  <2>7. added = MemberOf(e, item, tag, cur, R)
    <3>1. obj.kind = e.kind
      BY <2>3, <2>4, <2>5
    <3> HIDE DEF obj, e, item
    <3> QED
      BY <2>5, <3>1 DEF MemberOf, Kinds, Registered
  <2>8. after = TypeObj(before.name, before.kind, Append(before.fields, added))
    <3>1. after = TypeObj(e.name, e.kind, Append(before.fields, MemberOf(e, e.items[c + 1], tag, cur, R)))
      <4> HIDE DEF e, c, R
      <4> QED
        BY <1>2, ObjectWithOneMore
    <3> HIDE DEF after, before, added, item, e, R, c
    <3>2. e.items[c + 1] = item
      BY <1>2 DEF item
    <3> QED
      BY <2>5, <2>7, <3>1, <3>2
  <2>9. before = TypeObj(before.name, before.kind, before.fields)
    BY DEF ObjectOf, TypeObj
  <2>10. dicts' = [dicts EXCEPT ![cur] = [R EXCEPT ![Len(R)] = after]]
    <3>1. dicts' = [dicts EXCEPT ![cur] = [R EXCEPT ![Len(R)] =
                      [R[Len(R)] EXCEPT !.fields = Append(R[Len(R)].fields, added)]]]
      <4> HIDE DEF added
      <4> QED
        BY <1>4, <2>1, <2>2 DEF Registered
    <3> HIDE DEF after, before, added, R, c
    <3>2. [R[Len(R)] EXCEPT !.fields = Append(R[Len(R)].fields, added)] = after
      <4>1. [before EXCEPT !.fields = Append(before.fields, added)]
              = TypeObj(before.name, before.kind, Append(before.fields, added))
        <5> DEFINE name == before.name
                   kind == before.kind
                   fields == before.fields
                   new == Append(before.fields, added)
        <5>1. before = TypeObj(name, kind, fields)
          BY <2>9
        <5> HIDE DEF name, kind, fields, new
        <5>2. [before EXCEPT !.fields = new] = TypeObj(name, kind, new)
          BY ONLY <5>1, FieldsReplaced
        <5> QED
          BY <5>2 DEF name, kind, new
      <4> QED
        BY <2>4, <2>8, <4>1
    <3> QED
      BY <3>1, <3>2
  <2>11. Holds([R EXCEPT ![Len(R)] = after], cur, spec, tag, k, c + 1)
    <3>1. Structured(spec[k]) => spec[k].items[c + 1].type \in Names(R)
      BY <1>2, <2>6
    <3>2. k >= 1
      BY <1>2
    <3> HIDE DEF R, c
    <3> QED
      BY <1>2, <2>1, <3>1, <3>2, ItemAdded
  <2>12. \A f \in Range(after.fields) :
           f.type # NoRef => f.type.dict = cur /\ f.type.index \in 1 .. (Len(R) - 1)
    <3>1. after.fields = Append(before.fields, added)
      <4> HIDE DEF after, before, added
      <4> QED
        BY <2>8 DEF TypeObj
    <3>2. IsSeq(before.fields)
      BY <1>2, ObjectWithOneMore
    <3>3. \A f \in Range(before.fields) :
            f.type # NoRef => f.type.dict = cur /\ f.type.index \in 1 .. (Len(R) - 1)
      <4> HIDE DEF before, R
      <4> QED
        BY <2>1, <2>2, <2>4 DEF BackIn
    <3>4. added.type # NoRef => added.type.dict = cur /\ added.type.index \in 1 .. (Len(R) - 1)
      <4>1. CASE Structured(e)
        <5>1. added.type = Ref(cur, IndexOf(R, item.type))
          BY <2>3, <2>4, <2>5, <4>1 DEF Structured, Member, Registered
        <5> HIDE DEF R, item, e, added
        <5>2. IndexOf(R, item.type) \in DOMAIN R /\ R[IndexOf(R, item.type)].name = item.type
          BY <2>6, <4>1, IndexOfName
        <5>3. IndexOf(R, item.type) # Len(R)
          BY <2>6, <4>1, <5>2
        <5> QED
          BY <2>2, <5>1, <5>2, <5>3 DEF Ref
      <4>2. CASE ~Structured(e)
        <5>1. added.type = NoRef
          BY <2>3, <2>4, <2>5, <4>2 DEF Structured, Member
        <5> QED
          BY <5>1
      <4> QED
        BY <4>1, <4>2
    <3> HIDE DEF after, before, added, R
    <3>5. \A f \in Range(after.fields) : f \in Range(before.fields) \/ f = added
      <4>1. Len(before.fields) \in Nat /\ DOMAIN before.fields = 1 .. Len(before.fields)
        BY <3>2, SeqIs
      <4>2. /\ DOMAIN after.fields = 1 .. (Len(before.fields) + 1)
            /\ \A n \in 1 .. Len(before.fields) : after.fields[n] = before.fields[n]
            /\ after.fields[Len(before.fields) + 1] = added
        BY <3>1, <3>2, AppendIs
      <4> QED
        BY <4>1, <4>2 DEF Range
    <3> QED
      BY <3>3, <3>4, <3>5
  <2> DEFINE S == [R EXCEPT ![Len(R)] = after]
  <2> HIDE DEF R, after, before, added, c
  <2>13. IsSeq(S)
    BY <2>1, <2>2, ExceptIs
  <2>14. BackIn(S, cur)
    BY <2>1, <2>2, <2>12, BackReplaced
  <2>15. dicts' = [dicts EXCEPT ![cur] = S] /\ cur' = cur
    BY <1>4, <2>10
  <2>16. Holds(S, cur, spec, tag, k, c + 1)
    BY <2>11
  <2> HIDE DEF S
  <2>17. HeapOK' /\ dicts'[cur] = S /\ \A d \in 1 .. (cur - 1) : dicts'[d] = dicts[d]
    BY <2>13, <2>14, <2>15, HeapChanged DEF IndInv
  <2>18. ViewsBelow' /\ ViewsHold'
    BY <1>4, <2>17, ViewsKept DEF IndInv, ViewsBelow
  <2>19. TypeOK'
    <3>1. j' \in 1 .. (Len(e.items) + 1)
      BY <1>2, <1>4
    <3> QED
      BY <1>1, <1>2, <1>4, <2>17, <2>18, <3>1, HeapTypes DEF IndInv, TypeOK
  <2>20. ParseInv'
    <3>1. j' - 1 = c + 1
      BY <1>2, <1>4 DEF c
    <3>2. pc' = "items" /\ UNCHANGED <<cur, spec, tag, k>>
      BY <1>1, <1>4
    <3> QED
      BY <1>2, <2>16, <2>17, <3>1, <3>2 DEF ParseInv
  <2> QED
    BY <2>17, <2>18, <2>19, <2>20 DEF IndInv
<1> QED
  BY <1>3, <1>4 DEF AddItem

LEMMA ExtraEnumsKeeps ==
  ASSUME IndInv, NEW names \in {CNames, CcNames}, ExtraEnums(names)
  PROVE  IndInv'
<1> DEFINE view == dicts[cur - 1]
           messages == NameSeq(Messages(view))
           value(name) == Scalar(name, NoRef)
           types == [n \in DOMAIN messages |-> value(messages[n])]
           status == <<value("Success"), value("InvalidUid"), value("InvalidLen")>>
           clash == "Unknown" \in Range(messages)
           all == Append(types, value("Unknown"))
           X == IF clash THEN <<TypeObj(names[1], "Enum", types)>>
                ELSE <<TypeObj(names[1], "Enum", all), TypeObj(names[2], "Enum", status)>>
           R == dicts[cur]
           S == R \o X
<1>1. /\ pc = "idle" /\ outcome = "returned"
      /\ dicts' = [dicts EXCEPT ![cur] = S]
      /\ UNCHANGED <<cur, pc, spec, tag, k, j, outcome, views, calls>>
  BY DEF ExtraEnums
<1>2. /\ cur \in Nat \ {0} /\ cur \in 1 .. cur /\ IsSeq(R) /\ BackIn(R, cur)
      /\ cur - 1 \in 1 .. cur
  <2> HIDE DEF X, all, status, types, clash, value, messages, view, S
  <2>1. cur \in Nat \ {0} /\ \A d \in 1 .. cur : IsSeq(dicts[d]) /\ BackIn(dicts[d], d)
    BY DEF IndInv, HeapOK
  <2>2. cur - 1 \in 1 .. cur
    BY <1>1 DEF IndInv, ViewsBelow
  <2>3. cur \in 1 .. cur
    BY <2>1
  <2> QED
    BY <2>1, <2>2, <2>3
<1>3. PICK C \in Nat : DOMAIN messages = 1 .. C
  <2>1. IsSeq(view)
    BY <1>2 DEF IndInv, HeapOK
  <2> HIDE DEF view
  <2> DEFINE taken == Messages(view)
  <2>2. IsSeq(taken)
    BY <2>1, OfKindHas DEF Messages
  <2> HIDE DEF taken
  <2>3. DOMAIN taken = 1 .. Len(taken) /\ Len(taken) \in Nat
    BY <2>2, SeqIs
  <2>4. DOMAIN messages = DOMAIN taken
    BY DEF NameSeq, taken
  <2> HIDE DEF messages
  <2>5. Len(taken) \in Nat /\ DOMAIN messages = 1 .. Len(taken)
    BY <2>3, <2>4
  <2> WITNESS Len(taken) \in Nat
  <2> QED
    BY <2>5
<1> HIDE DEF messages, view
<1>4. \A name : value(name).type = NoRef
  BY DEF Scalar, Member
<1>5. IsSeq(types) /\ \A f \in Range(types) : f.type = NoRef
  <2>1. \A n \in 1 .. C : types[n].type = NoRef
    BY <1>3, <1>4
  <2>2. types = [n \in 1 .. C |-> types[n]]
    BY <1>3
  <2> HIDE DEF types
  <2>3. IsSeq(types) /\ DOMAIN types = 1 .. C
    BY <1>3, <2>2, FunctionIsSeq
  <2> QED
    BY <2>1, <2>3 DEF Range
<1> HIDE DEF types, value
<1>6. \A f \in Range(all) : f.type = NoRef
  <2>1. Len(types) \in Nat /\ DOMAIN types = 1 .. Len(types)
    BY <1>5, SeqIs
  <2>2. /\ DOMAIN all = 1 .. (Len(types) + 1)
        /\ \A n \in 1 .. Len(types) : all[n] = types[n]
        /\ all[Len(types) + 1] = value("Unknown")
    BY <1>5, AppendIs
  <2> HIDE DEF all
  <2> QED
    BY <1>4, <1>5, <2>1, <2>2 DEF Range
<1>7. \A f \in Range(status) : f.type = NoRef
  <2>1. Range(status) = {value("Success"), value("InvalidUid"), value("InvalidLen")}
    BY DEF Range
  <2> QED
    BY <1>4, <2>1
<1> HIDE DEF all, status, clash
<1>8. IsSeq(X) /\ \A i \in 1 .. Len(X) : \A f \in Range(X[i].fields) : f.type = NoRef
  <2> DEFINE a == TypeObj(names[1], "Enum", types)
             b == TypeObj(names[1], "Enum", all)
             c == TypeObj(names[2], "Enum", status)
  <2>1. a.fields = types /\ b.fields = all /\ c.fields = status
    BY DEF TypeObj
  <2> HIDE DEF a, b, c
  <2>2. <<a>> \in Seq({a, b, c}) /\ <<b, c>> \in Seq({a, b, c}) /\ Len(<<a>>) = 1 /\ Len(<<b, c>>) = 2
    OBVIOUS
  <2>3. IsSeq(<<a>>) /\ IsSeq(<<b, c>>)
    BY <2>2, SeqOfSome
  <2>4. CASE clash
    <3>1. X = <<a>>
      BY <2>4 DEF a
    <3> QED
      BY <1>5, <2>1, <2>2, <2>3, <3>1
  <2>5. CASE ~clash
    <3>1. X = <<b, c>>
      BY <2>5 DEF b, c
    <3>2. \A i \in 1 .. 2 : <<b, c>>[i] \in {b, c}
      OBVIOUS
    <3> QED
      BY <1>6, <1>7, <2>1, <2>2, <2>3, <3>1, <3>2
  <2> QED
    BY <2>4, <2>5
<1> HIDE DEF X, R
<1>9. IsSeq(S) /\ BackIn(S, cur)
  BY <1>2, <1>8, BackConcatenated
<1> HIDE DEF S
<1>10. HeapOK' /\ \A d \in 1 .. (cur - 1) : dicts'[d] = dicts[d]
  BY <1>1, <1>9, HeapChanged DEF IndInv
<1>11. ViewsBelow' /\ ViewsHold'
  BY <1>1, <1>10, ViewsKept DEF IndInv, ViewsBelow
<1>12. TypeOK'
  BY <1>1, <1>10, <1>11, HeapTypes DEF IndInv, TypeOK
<1>13. ParseInv'
  BY <1>1 DEF ParseInv
<1> QED
  BY <1>10, <1>11, <1>12, <1>13 DEF IndInv

-----------------------------------------------------------------------------
(* The theorems.                                                           *)

LEMMA InvInit ==
  ASSUME Init
  PROVE  IndInv
<1>1. /\ dicts = <<<<>>>> /\ cur = 1 /\ pc = "idle" /\ spec = <<>> /\ tag \in Tag /\ k = 1
      /\ outcome = "none" /\ views = {}
  BY DEF Init
<1>2. IsSeq(dicts) /\ Len(dicts) = 1 /\ IsSeq(dicts[1]) /\ DOMAIN dicts[1] = {}
  <2>1. <<<<>>>> \in Seq({<<>>}) /\ <<>> \in Seq({<<>>}) /\ <<<<>>>>[1] = <<>> /\ DOMAIN <<>> = {}
    OBVIOUS
  <2>2. IsSeq(<<<<>>>>) /\ IsSeq(<<>>) /\ Len(<<<<>>>>) = 1
    BY <2>1, SeqOfSome
  <2> QED
    BY <1>1, <2>1, <2>2
<1>3. HeapOK
  BY <1>1, <1>2 DEF HeapOK, BackIn
<1>4. DOMAIN dicts = {1}
  BY <1>1
<1> QED
  BY <1>1, <1>3, <1>4 DEF IndInv, TypeOK, ViewsBelow, ViewsHold, ParseInv

LEMMA InvNext ==
  ASSUME IndInv, [Next]_vars
  PROVE  IndInv'
<1>1. CASE Call
  BY <1>1, CallKeeps
<1>2. CASE CallOnBadFile
  BY <1>2, CallOnBadFileKeeps
<1>3. CASE StartType
  BY <1>3, StartTypeKeeps
<1>4. CASE AddItem
  BY <1>4, AddItemKeeps
<1>5. CASE FinishType
  BY <1>5, FinishTypeKeeps
<1>6. CASE Return
  BY <1>6, ReturnKeeps
<1>7. CASE \E names \in {CNames, CcNames} : ExtraEnums(names)
  BY <1>7, ExtraEnumsKeeps
<1>8. CASE UNCHANGED vars
  <2>1. HeapOK'
    BY <1>8 DEF vars, IndInv, HeapOK, IsSeq, BackIn, NoRef, Ref
  <2>2. TypeOK' /\ ViewsBelow' /\ ViewsHold' /\ ParseInv'
    BY <1>8 DEF vars, IndInv, TypeOK, ViewsBelow, ViewsHold, ParseInv
  <2> QED
    BY <2>1, <2>2 DEF IndInv
<1> QED
  BY <1>1, <1>2, <1>3, <1>4, <1>5, <1>6, <1>7, <1>8 DEF Next, Parse

\* The inductive invariant.
THEOREM Invariant == Spec => []IndInv
<1>1. Init => IndInv
  BY InvInit
<1>2. IndInv /\ [Next]_vars => IndInv'
  BY InvNext
<1> QED
  BY <1>1, <1>2, PTL DEF Spec

\* The variables of the parser keep their types: a parse never runs past the end of
\* its file or of an entry, and what was returned is in the heap.
THEOREM TypeCorrect == Spec => []TypeOK
<1>1. IndInv => TypeOK
  BY DEF IndInv
<1> QED
  BY <1>1, Invariant, PTL

\* What parse_yaml returned is what its own file means under its own alias_tag, and
\* stays so through every later parse, failed ones included, and through the enums
\* that the documentation generators register.
THEOREM ViewsAreMeanings == Spec => []ViewsHold
<1>1. IndInv => ViewsHold
  BY DEF IndInv
<1> QED
  BY <1>1, Invariant, PTL

\* A type refers to earlier types of its own registry only: the order in which the
\* generators declare them is one in which C and C++ accept them.
THEOREM TypesReferBack == Spec => []RefersBack
<1>1. IndInv => RefersBack
  <2> SUFFICES ASSUME IndInv, NEW d \in DOMAIN dicts PROVE BackIn(dicts[d], d)
    BY DEF RefersBack, BackIn
  <2>1. DOMAIN dicts = 1 .. cur
    BY SeqIs DEF IndInv, HeapOK
  <2> QED
    BY <2>1 DEF IndInv, HeapOK
<1> QED
  BY <1>1, Invariant, PTL

\* The latest call, when it returned, returned the dict before the registry.
LatestIsView ==
  outcome = "returned" => [dict |-> cur - 1, spec |-> spec, tag |-> tag] \in views

\* After parse_yaml returned, and until it is called again, the types of its view are
\* what its file means: what the generators make their files of, at any moment of it.
ReturnedIsMeaning == outcome = "returned" => dicts[cur - 1] = Meaning(spec, tag, cur - 1)

\* The view that parse_yaml returned last keeps its meaning.
THEOREM ReturnedMeaning == Spec => []ReturnedIsMeaning
<1>1. Init => LatestIsView
  BY DEF Init, LatestIsView
<1>2. IndInv /\ LatestIsView /\ [Next]_vars => LatestIsView'
  <2> SUFFICES ASSUME IndInv, LatestIsView, [Next]_vars PROVE LatestIsView'
    OBVIOUS
  <2>1. CASE Call \/ CallOnBadFile
    BY <2>1 DEF Call, CallOnBadFile, LatestIsView
  <2>2. CASE StartType
    <3>1. outcome' # "returned" \/ UNCHANGED <<cur, outcome, views, spec, tag>>
      BY <2>2 DEF StartType, Raise
    <3> QED
      BY <3>1 DEF LatestIsView
  <2>3. CASE AddItem
    <3>1. outcome' # "returned" \/ UNCHANGED <<cur, outcome, views, spec, tag>>
      BY <2>3 DEF AddItem, Raise
    <3> QED
      BY <3>1 DEF LatestIsView
  <2>4. CASE FinishType
    BY <2>4 DEF FinishType, LatestIsView
  <2>5. CASE Return
    <3>1. cur' - 1 = cur /\ UNCHANGED <<spec, tag>>
      BY <2>5, HeapReset DEF Return, IndInv, HeapOK
    <3>2. outcome' # "returned" \/ [dict |-> cur, spec |-> spec, tag |-> tag] \in views'
      BY <2>5 DEF Return
    <3> QED
      BY <3>1, <3>2 DEF LatestIsView
  <2>6. CASE \E names \in {CNames, CcNames} : ExtraEnums(names)
    BY <2>6 DEF ExtraEnums, LatestIsView
  <2>7. CASE UNCHANGED vars
    BY <2>7 DEF vars, LatestIsView
  <2> QED
    BY <2>1, <2>2, <2>3, <2>4, <2>5, <2>6, <2>7 DEF Next, Parse
<1>3. IndInv /\ LatestIsView => ReturnedIsMeaning
  BY DEF IndInv, ViewsHold, LatestIsView, ReturnedIsMeaning
<1> QED
  BY <1>1, <1>2, <1>3, Invariant, PTL DEF Spec

-----------------------------------------------------------------------------
(* The verdict.                                                            *)

\* The names an entry may use, and what WellFormed asks of it; and what it asks of
\* the first c items.
Earlier(s, m) == Reserved \cup {s[n].name : n \in 1 .. (m - 1)}
EntryBegun(s, m) ==
  s[m].shape = "ok" /\ s[m].kind \in Kinds /\ s[m].name \notin Earlier(s, m)
ItemsOK(s, m, c) ==
  /\ \A n \in 1 .. c : MemberOK(s[m], n, Earlier(s, m))
  /\ s[m].kind = "Bitfield" => Bits(First(s[m].items, c)) <= MaxBits
EntryOK(s, m) == EntryBegun(s, m) /\ ItemsOK(s, m, Len(s[m].items))

LEMMA WellFormedIs ==
  ASSUME NEW s \in SpecFile
  PROVE  WellFormed(s) <=> \A m \in 1 .. Len(s) : EntryOK(s, m)
<1>1. DOMAIN s = 1 .. Len(s)
  BY SpecIs
<1>2. ASSUME NEW m \in 1 .. Len(s)
      PROVE  /\ DOMAIN s[m].items = 1 .. Len(s[m].items)
             /\ First(s[m].items, Len(s[m].items)) = s[m].items
  <2>1. IsSeq(s[m].items)
    BY <1>1, SpecShapeAssumption DEF SpecShapeAssumption, IsSeq
  <2> QED
    BY <2>1, SeqIs DEF First
<1>3. ASSUME NEW m \in 1 .. Len(s)
      PROVE  EntryOK(s, m) <=>
               /\ s[m].shape = "ok" /\ s[m].kind \in Kinds /\ s[m].name \notin Earlier(s, m)
               /\ \A n \in DOMAIN s[m].items : MemberOK(s[m], n, Earlier(s, m))
               /\ s[m].kind = "Bitfield" => Bits(s[m].items) <= MaxBits
  BY <1>2 DEF EntryOK, EntryBegun, ItemsOK
<1> QED
  BY <1>1, <1>3 DEF WellFormed, Earlier

\* The registry has the names of the types that are always there and of those read.
LEMMA NamesRead ==
  ASSUME NEW R, NEW d, NEW s, NEW t, NEW n, NEW c, Holds(R, d, s, t, n, c)
  PROVE  Names(R) = Earlier(s, n + 1)
<1> DEFINE B == NumBuiltins
<1>1. DOMAIN R = 1 .. (B + n) /\ B \in Nat /\ B >= 1 /\ n \in Nat /\ (n + 1) - 1 = n
  <2>1. n \in Nat
    BY DEF Holds
  <2> QED
    BY <2>1, HeaderRead
<1>2. \A m \in 1 .. n : B + m \in DOMAIN R /\ R[B + m].name = s[m].name
  BY ReadIs
<1>3. DOMAIN Primitive = 1 .. (B - 1)
  BY PrimitiveAssumption DEF PrimitiveAssumption, NumBuiltins
<1>4. \A m \in 1 .. (B - 1) : m \in DOMAIN R /\ R[m].name = Primitive[m]
  BY <1>1, BuiltinsAre DEF Holds
<1>5. R[B].name = "SsHeader" /\ B \in DOMAIN R
  BY <1>1, BuiltinsAre DEF Holds
<1> HIDE DEF B
<1>6. ASSUME NEW m \in DOMAIN R PROVE R[m].name \in Earlier(s, n + 1)
  <2>1. CASE m \in 1 .. (B - 1)
    BY <1>3, <1>4, <2>1 DEF Earlier, Reserved, Range
  <2>2. CASE m = B
    BY <1>5, <2>2 DEF Earlier, Reserved
  <2>3. CASE m \in (B + 1) .. (B + n)
    <3>1. m - B \in 1 .. n /\ B + (m - B) = m
      BY <1>1, <2>3
    <3> QED
      BY <1>1, <1>2, <3>1 DEF Earlier
  <2> QED
    BY <1>1, <2>1, <2>2, <2>3
<1>7. ASSUME NEW name \in Earlier(s, n + 1) PROVE \E m \in DOMAIN R : R[m].name = name
  <2>1. CASE name \in Range(Primitive)
    BY <1>3, <1>4, <2>1 DEF Range
  <2>2. CASE name = "SsHeader"
    BY <1>5, <2>2
  <2>3. CASE \E m \in 1 .. n : name = s[m].name
    BY <1>2, <2>3
  <2> QED
    BY <1>1, <2>1, <2>2, <2>3 DEF Earlier, Reserved
<1> QED
  BY <1>6, <1>7 DEF Names

Accepted ==
  /\ pc # "idle" => \A m \in 1 .. (k - 1) : EntryOK(spec, m)
  /\ pc = "items" => EntryBegun(spec, k) /\ ItemsOK(spec, k, j - 1)

\* What add_field and add_value refuse is what is not well formed.
LEMMA RefusedIs ==
  ASSUME IndInv, Accepted, pc = "items", j <= Len(spec[k].items)
  PROVE  /\ ~Refused(Last(Registered), spec[k].items[j]) => ItemsOK(spec, k, (j - 1) + 1)
         /\ Refused(Last(Registered), spec[k].items[j]) => ~EntryOK(spec, k)
<1> DEFINE R == dicts[cur]
           e == spec[k]
           items == e.items
           item == items[j]
           c == j - 1
           obj == ObjectOf(e, c, tag, cur, R)
           earlier == Earlier(spec, k)
           refused == Refused(Last(Registered), item)
<1>1. /\ spec \in SpecFile /\ Len(spec) \in Nat /\ k \in 1 .. Len(spec) /\ k \in 1 .. k
      /\ Len(items) \in Nat /\ j \in 1 .. Len(items) /\ c \in Nat /\ c + 1 = j
  BY SpecIs DEF IndInv, ParseInv, TypeOK
<1>2. Holds(R, cur, spec, tag, k, c) /\ IsSeq(items) /\ DOMAIN spec = 1 .. Len(spec)
  BY <1>1, SpecIs, SpecShapeAssumption DEF IndInv, ParseInv, SpecShapeAssumption, IsSeq
<1>3. Last(Registered) = obj
  <2>1. Len(R) = NumBuiltins + k /\ R[NumBuiltins + k] = ObjectOf(e, Taken(spec, k, k, c), tag, cur, R)
    BY <1>1, <1>2 DEF Holds, Read
  <2> QED
    BY <2>1 DEF Taken, Last, Registered
<1>4. obj.kind = e.kind /\ obj.name = e.name
  BY DEF ObjectOf, TypeObj
<1>5. Names(Registered) = earlier \cup {e.name}
  <2>1. Names(R) = Earlier(spec, k + 1)
    BY <1>2, NamesRead
  <2>2. \A n \in 1 .. ((k + 1) - 1) : n \in 1 .. (k - 1) \/ n = k
    BY <1>1
  <2>3. \A n \in 1 .. (k - 1) : n \in 1 .. ((k + 1) - 1)
    BY <1>1
  <2>4. k \in 1 .. ((k + 1) - 1)
    BY <1>1
  <2> QED
    BY <2>1, <2>2, <2>3, <2>4 DEF Earlier, Registered
<1>6. e.shape = "ok" /\ e.kind \in Kinds /\ e.name \notin earlier
  BY DEF Accepted, EntryBegun
<1>7. Names(obj.fields) = Taking(e, c)
  <2>1. c \in Nat /\ e.kind \in Kinds
    BY <1>1, <1>6
  <2> HIDE DEF c, e, R
  <2> QED
    BY <2>1, FieldNames
<1>8. e.kind = "Bitfield" => Bits(obj.fields) = Bits(First(items, c))
  BY <1>1, FieldBits
<1>9. e.kind = "Bitfield" => Bits(First(items, j)) = Bits(First(items, c)) + item.bits
  BY <1>1, BitsOneMore DEF First
<1>10. item.shape = "ok" => item.bits \in Int /\ \A m \in DOMAIN item.lens : item.lens[m] \in Int
  <2>1. item \in Range(items)
    BY <1>1, <1>2, SeqIs DEF Range
  <2> QED
    BY <1>1, <1>2, <2>1, NumberAssumption DEF NumberAssumption
<1>11. refused <=>
         \/ item.shape # "ok"
         \/ e.kind = "Message" /\ item.name = "ss_header"
         \/ \E i \in 1 .. c : items[i].name = item.name
         \/ e.kind = "Bitfield" /\ (item.bits < 1 \/ Bits(First(items, c)) + item.bits > MaxBits)
         \/ /\ Structured(e)
            /\ \/ item.type \notin earlier
               \/ \E n \in DOMAIN item.lens : item.lens[n] < 1
  <2> HIDE DEF obj, item, items, earlier, e, c
  <2>1. refused <=>
         \/ item.shape # "ok"
         \/ item.name \in Names(obj.fields)
         \/ obj.kind = "Bitfield" /\ (item.bits < 1 \/ Bits(obj.fields) + item.bits > MaxBits)
         \/ /\ obj.kind \in {"Struct", "Message"}
            /\ \/ item.type \notin Names(Registered)
               \/ item.type = obj.name
               \/ \E n \in DOMAIN item.lens : item.lens[n] < 1
    BY <1>3 DEF Refused, Names
  <2>2. item.type \notin Names(Registered) \/ item.type = obj.name <=> item.type \notin earlier
    BY <1>4, <1>5, <1>6
  <2>3. item.name \in Names(obj.fields) <=>
          \/ e.kind = "Message" /\ item.name = "ss_header"
          \/ \E i \in 1 .. c : items[i].name = item.name
    BY <1>7 DEF Taking, items
  <2> QED
    BY <1>4, <1>8, <2>1, <2>2, <2>3 DEF Structured
<1>12. MemberOK(e, j, earlier) <=>
         /\ item.shape = "ok"
         /\ \A m \in 1 .. c : items[m].name # item.name
         /\ e.kind = "Message" => item.name # "ss_header"
         /\ e.kind = "Bitfield" => item.bits >= 1
         /\ Structured(e) => item.type \in earlier /\ \A m \in DOMAIN item.lens : item.lens[m] >= 1
  BY DEF MemberOK, Structured
<1>13. \A n \in 1 .. c : MemberOK(e, n, earlier)
  BY DEF Accepted, ItemsOK
<1>14. ASSUME ~refused PROVE ItemsOK(spec, k, j)
  <2>1. MemberOK(e, j, earlier)
    <3> HIDE DEF refused, item, items, earlier, e, c
    <3> QED
      BY <1>10, <1>11, <1>12, <1>14
  <2>2. \A n \in 1 .. j : n \in 1 .. c \/ n = j
    BY <1>1
  <2>3. e.kind = "Bitfield" => Bits(First(items, j)) <= MaxBits
    <3> SUFFICES ASSUME e.kind = "Bitfield" PROVE Bits(First(items, j)) <= MaxBits
      OBVIOUS
    <3>1. \A n \in 1 .. j : items[n].bits \in Int /\ items[n].bits >= 1
      <4>1. ASSUME NEW n \in 1 .. j PROVE MemberOK(e, n, earlier)
        BY <1>13, <2>1, <2>2
      <4>2. ASSUME NEW n \in 1 .. j PROVE items[n] \in Range(items)
        BY <1>1, <1>2, SeqIs DEF Range
      <4>3. ASSUME NEW n \in 1 .. j PROVE items[n].shape = "ok" /\ items[n].bits >= 1
        BY <4>1 DEF MemberOK
      <4> QED
        BY <1>1, <1>2, <4>2, <4>3, NumberAssumption DEF NumberAssumption
    <3>2. \A n \in 1 .. j : First(items, j)[n] = items[n]
      BY DEF First
    <3>3. DOMAIN First(items, j) = 1 .. j /\ First(First(items, j), j) = First(items, j)
      BY DEF First
    <3>4. Bits(First(items, j)) \in Nat
      <4> DEFINE f == First(items, j)
      <4>1. \A n \in 1 .. j : f[n].bits \in Int /\ f[n].bits >= 1
        BY <3>1, <3>2
      <4> HIDE DEF f
      <4>2. j \in Nat /\ j \in 0 .. j /\ DOMAIN f = 1 .. j
        BY <1>1, <3>3 DEF f
      <4>3. Bits(First(f, j)) \in Nat
        BY <4>1, <4>2, BitsGrow
      <4> QED
        BY <3>3, <4>3 DEF f
    <3> HIDE DEF refused, item, items, earlier, e, c
    <3>5. ~(Bits(First(items, c)) + item.bits > MaxBits)
      BY <1>11, <1>14
    <3> QED
      BY <1>9, <3>4, <3>5 DEF MaxBits
  <2> QED
    BY <1>13, <2>1, <2>2, <2>3 DEF ItemsOK
<1>15. ASSUME refused, EntryOK(spec, k) PROVE FALSE
  <2>1. \A n \in 1 .. Len(items) : MemberOK(e, n, earlier)
    BY <1>15 DEF EntryOK, ItemsOK
  <2>2. MemberOK(e, j, earlier)
    BY <1>1, <2>1
  <2>3. e.kind = "Bitfield" /\ Bits(First(items, j)) > MaxBits /\ item.bits >= 1
    <3> HIDE DEF refused, item, items, earlier, e, c
    <3> QED
      BY <1>9, <1>10, <1>11, <1>12, <1>15, <2>2
  <2>4. ASSUME NEW n \in 1 .. Len(items) PROVE items[n].bits \in Int /\ items[n].bits >= 1
    <3>1. items[n].shape = "ok" /\ items[n].bits >= 1
      BY <2>1, <2>3 DEF MemberOK
    <3>2. items[n] \in Range(items)
      BY <1>2, SeqIs DEF Range
    <3> QED
      BY <1>1, <1>2, <3>1, <3>2, NumberAssumption DEF NumberAssumption
  <2>5. DOMAIN items = 1 .. Len(items) /\ j \in 0 .. Len(items) /\ Len(items) \in 0 .. Len(items)
    BY <1>1, <1>2, SeqIs
  <2>6. Bits(First(items, Len(items))) <= MaxBits
    BY <1>15, <2>3 DEF EntryOK, ItemsOK
  <2> HIDE DEF refused, item, items, earlier, e, c
  <2>7. /\ Bits(First(items, j)) \in Nat /\ Bits(First(items, Len(items))) \in Nat
        /\ Bits(First(items, j)) <= Bits(First(items, Len(items)))
    BY <1>1, <2>4, <2>5, BitsGrow
  <2> QED
    BY <2>3, <2>6, <2>7 DEF MaxBits
<1> QED
  BY <1>1, <1>14, <1>15

\* A parse that ends early has met what is not well formed.
LEMMA NotWellFormed ==
  ASSUME NEW s \in SpecFile, NEW m \in 1 .. Len(s), ~EntryOK(s, m)
  PROVE  ~WellFormed(s)
BY WellFormedIs

LEMMA VerdictOfRefusal ==
  ASSUME ~WellFormed(spec'), outcome' \in {"SpecParseError", "KeyError"}
  PROVE  VerdictRight'
BY DEF VerdictRight

LEMMA StartTypeJudges ==
  ASSUME IndInv, Accepted, StartType
  PROVE  Accepted' /\ VerdictRight'
<1> DEFINE e == spec[k]
           R == dicts[cur]
<1>1. /\ pc = "entries" /\ k <= Len(spec) /\ j' = 1 /\ UNCHANGED <<spec, tag, k, extras, calls>>
      /\ \/ /\ e.shape # "ok" \/ e.kind \notin Kinds \/ e.name \in Names(R)
            /\ Raise("SpecParseError")
         \/ /\ e.shape = "ok" /\ e.kind \in Kinds /\ e.name \notin Names(R)
            /\ pc' = "items"
  BY DEF StartType, Registered
<1>2. /\ spec \in SpecFile /\ Len(spec) \in Nat /\ k \in 1 .. Len(spec) /\ (k - 1) + 1 = k
  BY <1>1, SpecIs DEF IndInv, ParseInv, TypeOK
<1>3. Names(R) = Earlier(spec, k)
  <2>1. Holds(R, cur, spec, tag, k - 1, Len(spec[k - 1].items))
    BY <1>1 DEF IndInv, ParseInv
  <2>2. Names(R) = Earlier(spec, (k - 1) + 1)
    BY <2>1, NamesRead
  <2> QED
    BY <1>2, <2>2
<1>4. CASE /\ e.shape # "ok" \/ e.kind \notin Kinds \/ e.name \in Names(R)
           /\ Raise("SpecParseError")
  <2>1. ~EntryOK(spec, k)
    BY <1>3, <1>4 DEF EntryOK, EntryBegun
  <2>2. ~WellFormed(spec')
    BY <1>1, <1>2, <2>1, NotWellFormed
  <2>3. pc' = "idle" /\ outcome' = "SpecParseError"
    BY <1>4 DEF Raise
  <2> QED
    BY <2>2, <2>3, VerdictOfRefusal DEF Accepted
<1>5. CASE e.shape = "ok" /\ e.kind \in Kinds /\ e.name \notin Names(R) /\ pc' = "items"
  <2>1. EntryBegun(spec, k)
    BY <1>3, <1>5 DEF EntryBegun
  <2>2. ItemsOK(spec, k, 0)
    <3>1. Bits(First(e.items, 0)) = 0
      BY BitsOfNone DEF First
    <3> QED
      BY <3>1 DEF ItemsOK, MaxBits
  <2>3. \A m \in 1 .. (k - 1) : EntryOK(spec, m)
    BY <1>1 DEF Accepted
  <2>4. UNCHANGED <<spec, k>> /\ j' - 1 = 0
    BY <1>1
  <2> QED
    BY <1>5, <2>1, <2>2, <2>3, <2>4 DEF Accepted, VerdictRight
<1> QED
  BY <1>1, <1>4, <1>5

LEMMA AddItemJudges ==
  ASSUME IndInv, Accepted, AddItem
  PROVE  Accepted' /\ VerdictRight'
<1> DEFINE refused == Refused(Last(Registered), spec[k].items[j])
<1>1. /\ pc = "items" /\ j <= Len(spec[k].items) /\ UNCHANGED <<spec, tag, k, calls>>
      /\ \/ refused /\ \E x \in {"KeyError", "SpecParseError"} : Raise(x)
         \/ ~refused /\ j' = j + 1 /\ pc' = pc
  BY DEF AddItem
<1>2. /\ ~refused => ItemsOK(spec, k, (j - 1) + 1)
      /\ refused => ~EntryOK(spec, k)
  BY <1>1, RefusedIs
<1>3. spec \in SpecFile /\ k \in 1 .. Len(spec) /\ (j - 1) + 1 = j /\ (j + 1) - 1 = j
  BY <1>1, SpecIs DEF IndInv, ParseInv, TypeOK
<1> HIDE DEF refused
<1>4. CASE refused /\ \E x \in {"KeyError", "SpecParseError"} : Raise(x)
  <2>1. ~WellFormed(spec')
    BY <1>1, <1>2, <1>3, <1>4, NotWellFormed
  <2>2. pc' = "idle" /\ outcome' \in {"KeyError", "SpecParseError"}
    BY <1>4 DEF Raise
  <2> QED
    BY <2>1, <2>2, VerdictOfRefusal DEF Accepted
<1>5. CASE ~refused /\ j' = j + 1 /\ pc' = pc
  BY <1>1, <1>2, <1>3, <1>5 DEF Accepted, VerdictRight
<1> QED
  BY <1>1, <1>4, <1>5

LEMMA FinishTypeJudges ==
  ASSUME IndInv, Accepted, FinishType
  PROVE  Accepted' /\ VerdictRight'
<1>1. /\ pc = "items" /\ j > Len(spec[k].items) /\ pc' = "entries" /\ k' = k + 1 /\ spec' = spec
  BY DEF FinishType
<1>2. spec \in SpecFile /\ k \in 1 .. Len(spec) /\ Len(spec) \in Nat /\ j - 1 = Len(spec[k].items)
  <2>1. spec \in SpecFile /\ Len(spec) \in Nat /\ k \in 1 .. Len(spec) /\ Len(spec[k].items) \in Nat
    BY <1>1, SpecIs DEF IndInv, ParseInv, TypeOK
  <2>2. j \in 1 .. (Len(spec[k].items) + 1)
    BY <1>1 DEF IndInv, TypeOK
  <2> QED
    BY <1>1, <2>1, <2>2
<1>3. EntryOK(spec, k)
  BY <1>1, <1>2 DEF Accepted, EntryOK
<1>4. \A m \in 1 .. (k' - 1) : m \in 1 .. (k - 1) \/ m = k
  BY <1>1, <1>2
<1> QED
  BY <1>1, <1>3, <1>4 DEF Accepted, VerdictRight

LEMMA ReturnJudges ==
  ASSUME IndInv, Accepted, Return
  PROVE  Accepted' /\ VerdictRight'
<1>1. pc = "entries" /\ k > Len(spec) /\ pc' = "idle" /\ UNCHANGED <<spec, tag>>
  BY DEF Return
<1>2. /\ spec \in SpecFile /\ IsSeq(spec) /\ Len(spec) \in Nat /\ k - 1 = Len(spec)
      /\ \A m \in 1 .. Len(spec) : Len(spec[m].items) \in Nat
  BY <1>1, SpecIs DEF IndInv, ParseInv, TypeOK
<1>3. WellFormed(spec)
  BY <1>1, <1>2, WellFormedIs DEF Accepted
<1>4. dicts[cur] = Meaning(spec, tag, cur)
  <2>1. Holds(dicts[cur], cur, spec, tag, Len(spec), Len(spec[Len(spec)].items))
    BY <1>1, <1>2 DEF IndInv, ParseInv
  <2> QED
    BY <1>2, <2>1, AllRead
<1>5. Uids(Meaning(spec, tag, 1)) = Uids(Meaning(spec, tag, cur))
  BY <1>2, SameUids
<1>6. Collide(Registered) <=> Collide(Meaning(spec, tag, 1))
  BY <1>4, <1>5 DEF Collide, Registered
<1>7. outcome' = IF Collide(Registered) THEN "AssertionError" ELSE "returned"
  BY DEF Return
<1> QED
  BY <1>1, <1>3, <1>6, <1>7 DEF Accepted, VerdictRight

LEMMA VerdictNext ==
  ASSUME IndInv, Accepted, VerdictRight, [Next]_vars
  PROVE  Accepted' /\ VerdictRight'
<1>1. CASE Call
  <2>1. pc' = "entries" /\ k' = 1
    BY <1>1 DEF Call
  <2> QED
    BY <2>1 DEF Accepted, VerdictRight
<1>2. CASE CallOnBadFile
  <2>1. pc' = "idle" /\ outcome' = "SpecParseError" /\ spec' = NotAMap
    BY <1>2 DEF CallOnBadFile
  <2>2. ~WellFormed(NotAMap)
    <3> DEFINE bad == [shape |-> "bad", name |-> "", kind |-> "", items |-> <<>>]
    <3>1. 1 \in DOMAIN NotAMap /\ NotAMap[1].shape = "bad"
      <4>1. NotAMap = <<bad>> /\ bad.shape = "bad"
        BY DEF NotAMap
      <4> HIDE DEF bad
      <4>2. 1 \in DOMAIN <<bad>> /\ <<bad>>[1] = bad
        OBVIOUS
      <4> QED
        BY <4>1, <4>2
    <3> QED
      BY <3>1 DEF WellFormed
  <2> QED
    BY <2>1, <2>2, VerdictOfRefusal DEF Accepted
<1>3. CASE StartType
  BY <1>3, StartTypeJudges
<1>4. CASE AddItem
  BY <1>4, AddItemJudges
<1>5. CASE FinishType
  BY <1>5, FinishTypeJudges
<1>6. CASE Return
  BY <1>6, ReturnJudges
<1>7. CASE \E names \in {CNames, CcNames} : ExtraEnums(names)
  <2>1. pc' = pc /\ spec' = spec /\ tag' = tag /\ k' = k /\ j' = j /\ outcome' = outcome /\ calls' = calls
    BY <1>7 DEF ExtraEnums
  <2> QED
    BY <2>1 DEF Accepted, VerdictRight
<1>8. CASE UNCHANGED vars
  BY <1>8 DEF vars, Accepted, VerdictRight
<1> QED
  BY <1>1, <1>2, <1>3, <1>4, <1>5, <1>6, <1>7, <1>8 DEF Next, Parse

\* The checks of a parse so far, and its verdict.
LEMMA Judged == Spec => [](Accepted /\ VerdictRight)
<1>1. Init => Accepted /\ VerdictRight
  BY DEF Init, Accepted, VerdictRight
<1>2. IndInv /\ Accepted /\ VerdictRight /\ [Next]_vars => Accepted' /\ VerdictRight'
  BY VerdictNext
<1> QED
  BY <1>1, <1>2, Invariant, PTL DEF Spec

\* parse_yaml returns exactly for the specifications that are well formed and whose
\* types all differ in UID, however many calls, good or bad, came before it in the
\* process: its checks on the way, of one name, type, length and sum of bits at a time
\* against the registry as it stands, come to that definition of the whole.
THEOREM VerdictIsRight == Spec => []VerdictRight
<1>1. Accepted /\ VerdictRight => VerdictRight
  OBVIOUS
<1> QED
  BY <1>1, Judged, PTL

-----------------------------------------------------------------------------
(* The programs that parse.                                                *)

\* A program uses the parser as its specification allows: every step of a generator
\* or of a Python program is a step of parse_yaml, of an enum that is registered
\* after it, or none of the registry.
THEOREM ImplementsParser == GenSpec => Spec
<1>1. GenInit => Init
  BY DEF GenInit
<1>2. [GenNext]_genVars => [Next]_vars
  <2> SUFFICES ASSUME [GenNext]_genVars PROVE [Next]_vars
    OBVIOUS
  <2>1. CASE Start
    BY <2>1 DEF Start, Next
  <2>2. CASE Run
    BY <2>2 DEF Run, Next
  <2>3. CASE Extra
    <3>1. \E names \in {CNames, CcNames} : ExtraEnums(names)
      BY <2>3 DEF Extra
    <3> QED
      BY <3>1 DEF Next
  <2>4. CASE Write
    BY <2>4 DEF Write
  <2>5. CASE WriteRaises
    BY <2>5 DEF WriteRaises, vars
  <2>6. CASE Abort
    BY <2>6 DEF Abort, vars
  <2>7. CASE UNCHANGED genVars
    BY <2>7 DEF genVars, vars
  <2> QED
    BY <2>1, <2>2, <2>3, <2>4, <2>5, <2>6, <2>7 DEF GenNext
<1> QED
  BY <1>1, <1>2, PTL DEF GenSpec, Spec

\* What the programs were given by parse_yaml stays the meaning of its file while
\* they go on parsing, register enums and write.
THEOREM GeneratorsKeepViews == GenSpec => []ViewsHold
BY ImplementsParser, ViewsAreMeanings, PTL

\* The types that the programs generate code of refer to earlier types only.
THEOREM GeneratorsReferBack == GenSpec => []RefersBack
BY ImplementsParser, TypesReferBack, PTL

\* A file is written of the meaning of the specification and alias tag that its
\* program parsed: nothing of an earlier parse or of another document is in it,
\* except the registry that the documents take the extra enums from.
WritesMeaning ==
  [][Write => files' = Written(Text(Out, Meaning(spec, tag, cur - 1), dicts[cur]))]_genVars

\* Every file of a program, C, C++, Python or a document, is of its own specification.
THEOREM FilesAreOfMeanings == GenSpec => WritesMeaning
<1>1. ReturnedIsMeaning =>
        [Write => files' = Written(Text(Out, Meaning(spec, tag, cur - 1), dicts[cur]))]_genVars
  BY DEF ReturnedIsMeaning, Write, Ready
<1>2. GenSpec => []ReturnedIsMeaning
  BY ImplementsParser, ReturnedMeaning, PTL
<1> QED
  BY <1>1, <1>2, PTL DEF WritesMeaning

-----------------------------------------------------------------------------
(* Type correctness.                                                       *)

\* What is left of a program, and that a file is written with a tag of its kind.
Rest(job, n) == SubSeq(job, n, Len(job))
StepInv ==
  /\ GenTypeOK /\ IsSeq(files)
  /\ stage = "write" => todo # <<>> /\ tag \in TagsOf(Out)

LEMMA TwoOrThree ==
  ASSUME NEW a, NEW b, NEW c
  PROVE  IsSeq(<<a, b>>) /\ IsSeq(<<a, b, c>>)
<1>1. <<a, b>> \in Seq({a, b, c}) /\ <<a, b, c>> \in Seq({a, b, c})
  OBVIOUS
<1> QED
  BY <1>1, SeqOfSome

LEMMA JobIs ==
  ASSUME NEW job \in Jobs
  PROVE  job \in Seq(Range(job)) /\ Len(job) \in Nat /\ DOMAIN job = 1 .. Len(job)
<1>1. IsSeq(job)
  BY TwoOrThree DEF Jobs
<1> QED
  BY <1>1, SeqIs DEF IsSeq

LEMMA RestIs ==
  ASSUME NEW job \in Jobs, NEW n \in 1 .. (Len(job) + 1)
  PROVE  /\ Rest(job, n) = <<>> <=> n = Len(job) + 1
         /\ n # Len(job) + 1 => /\ Tail(Rest(job, n)) = Rest(job, n + 1)
                                /\ Head(Rest(job, n)) \in Range(job)
                                /\ n + 1 \in 1 .. (Len(job) + 1)
<1> DEFINE N == Len(job)
<1>1. job \in Seq(Range(job)) /\ N \in Nat /\ DOMAIN job = 1 .. N
  BY JobIs
<1>2. CASE n = N + 1
  BY <1>1, <1>2, SubSeqEmpty DEF Rest
<1>3. CASE n # N + 1
  <2>1. n \in 1 .. N /\ N \in n .. N /\ n + 1 \in 1 .. (N + 1)
    BY <1>1, <1>3
  <2>2. Head(Rest(job, n)) = job[n] /\ Tail(Rest(job, n)) = Rest(job, n + 1)
    BY <1>1, <2>1, HeadTailOfSubSeq DEF Rest
  <2>3. Rest(job, n) # <<>>
    <3>1. \A i \in n .. N : job[i] \in Range(job)
      BY <1>1, <2>1, ElementOfSeq
    <3>2. Len(Rest(job, n)) = N - n + 1
      BY <1>1, <2>1, <3>1, SubSeqProperties DEF Rest
    <3> QED
      BY <1>1, <2>1, <3>2, EmptySeq
  <2> QED
    BY <1>1, <1>3, <2>1, <2>2, <2>3 DEF Range
<1> QED
  BY <1>2, <1>3

\* One more file.
LEMMA FileAdded ==
  ASSUME StepInv, todo # <<>>, stage = "write", NEW text, files' = Written(text)
  PROVE  /\ IsSeq(files')
         /\ \A n \in DOMAIN files' :
              \E job \in Jobs : files'[n].out \in Range(job) /\ files'[n].tag \in TagsOf(files'[n].out)
<1> DEFINE f == [out |-> Out, spec |-> spec, tag |-> tag, dict |-> cur - 1, text |-> text]
<1>1. PICK job \in Jobs : \E n \in 1 .. (Len(job) + 1) : todo = Rest(job, n)
  BY DEF StepInv, GenTypeOK, Rest
<1>2. PICK n \in 1 .. (Len(job) + 1) : todo = Rest(job, n)
  BY <1>1
<1>3. f.out \in Range(job) /\ f.tag \in TagsOf(f.out)
  <2>1. Head(todo) \in Range(job)
    BY <1>2, RestIs
  <2> QED
    BY <2>1 DEF StepInv, Out
<1> HIDE DEF f
<1>4. DOMAIN files = 1 .. Len(files) /\ Len(files) \in Nat
  BY SeqIs DEF StepInv
<1>5. /\ IsSeq(files') /\ DOMAIN files' = 1 .. (Len(files) + 1)
      /\ \A i \in 1 .. Len(files) : files'[i] = files[i]
      /\ files'[Len(files) + 1] = f
  BY AppendIs DEF StepInv, Written, f
<1>6. \A i \in 1 .. (Len(files) + 1) : i \in 1 .. Len(files) \/ i = Len(files) + 1
  BY <1>4
<1> QED
  BY <1>1, <1>3, <1>4, <1>5, <1>6 DEF StepInv, GenTypeOK

\* A program makes its outputs in their order, and each with an alias tag of its language.
THEOREM StepsRight == GenSpec => []StepInv
<1>1. GenInit /\ TypeOK => StepInv
  <2> SUFFICES ASSUME GenInit, TypeOK PROVE StepInv
    OBVIOUS
  <2>1. todo \in Jobs /\ stage = "parse" /\ files = <<>>
    BY DEF GenInit
  <2>2. IsSeq(files) /\ DOMAIN files = {}
    <3>1. <<>> \in Seq({}) /\ DOMAIN <<>> = {}
      OBVIOUS
    <3> QED
      BY <2>1, <3>1, SeqOfSome
  <2>3. todo = SubSeq(todo, 1, Len(todo)) /\ 1 \in 1 .. (Len(todo) + 1)
    BY <2>1, JobIs, SubSeqFull
  <2> QED
    BY <2>1, <2>2, <2>3 DEF StepInv, GenTypeOK
<1>2. StepInv /\ TypeOK' /\ [GenNext]_genVars => StepInv'
  <2> SUFFICES ASSUME StepInv, TypeOK', [GenNext]_genVars PROVE StepInv'
    OBVIOUS
  <2>1. CASE Start
    BY <2>1 DEF Start, StepInv, GenTypeOK, Out, IsSeq, Range
  <2>2. CASE Run
    <3>1. UNCHANGED <<todo, stage, files, tag>>
      BY <2>2 DEF Run, Parse, StartType, AddItem, FinishType, Return
    <3> QED
      BY <3>1 DEF StepInv, GenTypeOK, Out, IsSeq, Range
  <2>3. CASE Extra
    <3>1. UNCHANGED <<todo, files, tag>> /\ todo # <<>> /\ stage = "write" /\ stage' \in {"failed", "write"}
      BY <2>3 DEF Extra, ExtraEnums
    <3> QED
      BY <3>1 DEF StepInv, GenTypeOK, Out, IsSeq, Range
  <2>4. CASE Write
    <3>1. /\ todo # <<>> /\ stage = "write" /\ UNCHANGED <<tag>> /\ todo' = Tail(todo)
          /\ files' = Written(Text(Out, dicts[cur - 1], dicts[cur]))
          /\ stage' = IF todo' # <<>> /\ Head(todo') \in Sources THEN "write" ELSE "parse"
      BY <2>4 DEF Write, Ready, vars
    <3>2. /\ IsSeq(files')
          /\ \A n \in DOMAIN files' :
               \E job \in Jobs : files'[n].out \in Range(job) /\ files'[n].tag \in TagsOf(files'[n].out)
      BY <3>1, FileAdded
    <3>3. \E job \in Jobs : \E n \in 1 .. (Len(job) + 1) : todo' = SubSeq(job, n, Len(job))
      <4>1. PICK job \in Jobs : \E n \in 1 .. (Len(job) + 1) : todo = Rest(job, n)
        BY DEF StepInv, GenTypeOK, Rest
      <4>2. PICK n \in 1 .. (Len(job) + 1) : todo = Rest(job, n)
        BY <4>1
      <4>3. Tail(todo) = Rest(job, n + 1) /\ n + 1 \in 1 .. (Len(job) + 1)
        BY <3>1, <4>2, RestIs
      <4> QED
        BY <3>1, <4>3 DEF Rest
    <3>4. stage' = "write" => todo' # <<>> /\ tag' \in TagsOf(Head(todo'))
      <4>1. tag' \in Tag
        BY DEF TypeOK
      <4>2. \A out \in Sources : TagsOf(out) = Tag
        BY DEF Sources, TagsOf
      <4> QED
        BY <3>1, <4>1, <4>2
    <3>5. stage' \in {"parse", "write", "failed"}
      BY <3>1
    <3> QED
      BY <3>2, <3>3, <3>4, <3>5 DEF StepInv, GenTypeOK, Out, IsSeq
  <2>5. CASE WriteRaises
    <3>1. /\ todo # <<>> /\ stage = "write" /\ UNCHANGED <<todo, tag>>
          /\ files' = Written(<<>>) /\ stage' = "failed"
      BY <2>5 DEF WriteRaises, Ready, vars
    <3>2. /\ IsSeq(files')
          /\ \A n \in DOMAIN files' :
               \E job \in Jobs : files'[n].out \in Range(job) /\ files'[n].tag \in TagsOf(files'[n].out)
      BY <3>1, FileAdded
    <3> QED
      BY <3>1, <3>2 DEF StepInv, GenTypeOK, IsSeq
  <2>6. CASE Abort
    <3>1. /\ todo # <<>> /\ UNCHANGED files /\ stage' = "parse"
          /\ todo' = IF Out = "py" THEN Tail(todo) ELSE <<>>
      BY <2>6 DEF Abort
    <3>2. \E job \in Jobs : \E n \in 1 .. (Len(job) + 1) : todo' = SubSeq(job, n, Len(job))
      <4>1. PICK job \in Jobs : \E n \in 1 .. (Len(job) + 1) : todo = Rest(job, n)
        BY DEF StepInv, GenTypeOK, Rest
      <4>2. PICK n \in 1 .. (Len(job) + 1) : todo = Rest(job, n)
        BY <4>1
      <4>3. Tail(todo) = Rest(job, n + 1) /\ n + 1 \in 1 .. (Len(job) + 1)
        BY <3>1, <4>2, RestIs
      <4>4. Rest(job, Len(job) + 1) = <<>> /\ Len(job) + 1 \in 1 .. (Len(job) + 1)
        <5>1. Len(job) \in Nat
          BY JobIs
        <5>2. Len(job) + 1 \in 1 .. (Len(job) + 1)
          BY <5>1
        <5> QED
          BY <5>2, RestIs
      <4> QED
        BY <3>1, <4>3, <4>4 DEF Rest
    <3> QED
      BY <3>1, <3>2 DEF StepInv, GenTypeOK, IsSeq, Range
  <2>7. CASE UNCHANGED genVars
    BY <2>7 DEF genVars, StepInv, GenTypeOK, Out, IsSeq, Range
  <2> QED
    BY <2>1, <2>2, <2>3, <2>4, <2>5, <2>6, <2>7 DEF GenNext
<1>3. GenSpec => []TypeOK
  BY ImplementsParser, TypeCorrect, PTL
<1> QED
  BY <1>1, <1>2, <1>3, PTL DEF GenSpec

\* The variables of the programs and of the parser keep their types.
THEOREM GenTypeCorrect == GenSpec => []GenTypeOK
<1>1. StepInv => GenTypeOK
  BY DEF StepInv
<1> QED
  BY <1>1, StepsRight, PTL

-----------------------------------------------------------------------------
(* What is in the files.                                                   *)

\* The enums that a documentation generator registers.
StatusNames == <<"Success", "InvalidUid", "InvalidLen">>
ExtraOf(names, types) ==
  {ExtraEnum(names[1], Append(NameSeq(Messages(types)), "Unknown")),
   ExtraEnum(names[2], StatusNames)}
NamesFor(out) == IF out = "cc_doc" THEN CcNames ELSE CNames

\* What a program finds in the registry after a parse.
RegistryInv ==
  /\ pc # "idle" => ~extras
  /\ outcome = "returned" =>
       /\ pc = "idle" /\ spec \in SpecFile /\ WellFormed(spec)
       /\ ~extras => dicts[cur] = Builtins(cur)
       /\ extras /\ todo # <<>> /\ stage = "write" /\ Out \in Docs =>
            Range(OfKind(dicts[cur], {"Enum"})) = ExtraOf(NamesFor(Out), dicts[cur - 1])

\* A file has what its generator makes of the meaning of its specification.
TextIs(out, types, quoted, text) ==
  IF out \in Sources /\ TooDeep(types) THEN text = <<>>
  ELSE /\ out = "c_source" => text = CSource(types, quoted)
       /\ out = "cc_source" => text = CcSource(types)
       /\ out = "py" => text = PyModule(types)
       /\ out \in Docs => \E extra :
            /\ Range(extra) = ExtraOf(NamesFor(out), types)
            /\ out = "c_doc" => text = CDoc(extra, types)
            /\ out = "cc_doc" => text = CcDoc(extra, types)
            /\ out = "py_doc" => text = PyDoc(extra, types)
FileOK(f) ==
  /\ f.spec \in SpecFile /\ WellFormed(f.spec)
  /\ TextIs(f.out, Types(f, f.tag), Quoted(f.spec), f.text)
FilesOK == \A n \in DOMAIN files : FileOK(files[n])

GenInv == RegistryInv /\ FilesOK

\* A sequence of objects made of a sequence of names.
LEMMA ValuesAppended ==
  ASSUME NEW names, IsSeq(names), NEW name
  PROVE  LET value(x) == Scalar(x, NoRef)
             more == Append(names, name)
         IN  Append([n \in DOMAIN names |-> value(names[n])], value(name))
               = [n \in DOMAIN more |-> value(more[n])]
<1> DEFINE value(x) == Scalar(x, NoRef)
           more == Append(names, name)
           some == [n \in DOMAIN names |-> value(names[n])]
           all == [n \in DOMAIN more |-> value(more[n])]
           N == Len(names)
<1>1. N \in Nat /\ DOMAIN names = 1 .. N
  BY SeqIs
<1>2. /\ DOMAIN more = 1 .. (N + 1) /\ more[N + 1] = name
      /\ \A n \in 1 .. N : more[n] = names[n]
  BY AppendIs
<1> HIDE DEF value, more
<1>3. some = [n \in 1 .. N |-> some[n]] /\ all = [n \in 1 .. (N + 1) |-> all[n]]
  BY <1>1, <1>2
<1>4. \A n \in 1 .. N : some[n] = value(names[n])
  BY <1>1
<1>5. \A n \in 1 .. (N + 1) : all[n] = value(more[n])
  BY <1>2
<1> HIDE DEF some, all, N
<1>6. IsSeq(some) /\ Len(some) = N
  BY <1>1, <1>3, FunctionIsSeq
<1>7. N + 1 \in Nat
  BY <1>1
<1>8. IsSeq(all) /\ Len(all) = N + 1
  BY <1>3, <1>7, FunctionIsSeq
<1>9. /\ IsSeq(Append(some, value(name))) /\ Len(Append(some, value(name))) = N + 1
      /\ \A n \in 1 .. N : Append(some, value(name))[n] = some[n]
      /\ Append(some, value(name))[N + 1] = value(name)
  BY <1>6, AppendIs
<1>10. \A n \in 1 .. (N + 1) : Append(some, value(name))[n] = all[n]
  <2>1. \A n \in 1 .. (N + 1) : n \in 1 .. N \/ n = N + 1
    BY <1>1
  <2> QED
    BY <1>1, <1>2, <1>4, <1>5, <1>9, <2>1
<1>11. Append(some, value(name)) = all
  BY <1>7, <1>8, <1>9, <1>10, SameSeq
<1> QED
  BY <1>11 DEF some, all, value, more

LEMMA StatusValues ==
  LET value(x) == Scalar(x, NoRef)
  IN  <<value("Success"), value("InvalidUid"), value("InvalidLen")>>
        = [n \in DOMAIN StatusNames |-> value(StatusNames[n])]
<1> DEFINE value(x) == Scalar(x, NoRef)
<1>1. DOMAIN StatusNames = 1 .. 3
  BY DEF StatusNames
<1>2. StatusNames[1] = "Success" /\ StatusNames[2] = "InvalidUid" /\ StatusNames[3] = "InvalidLen"
  BY DEF StatusNames
<1> HIDE DEF value
<1>3. <<value("Success"), value("InvalidUid"), value("InvalidLen")>>
        = [n \in 1 .. 3 |-> value(StatusNames[n])]
  BY <1>2
<1> QED
  BY <1>1, <1>3 DEF value

\* The extra enums are the only ones in the registry.
LEMMA ExtrasAre ==
  ASSUME IndInv, NEW names \in {CNames, CcNames}, ExtraEnums(names), dicts[cur] = Builtins(cur),
         "Unknown" \notin Names(Messages(dicts[cur - 1]))
  PROVE  Range(OfKind(dicts'[cur], {"Enum"})) = ExtraOf(names, dicts[cur - 1])
<1> DEFINE view == dicts[cur - 1]
           messages == NameSeq(Messages(view))
           value(name) == Scalar(name, NoRef)
           types == [n \in DOMAIN messages |-> value(messages[n])]
           status == <<value("Success"), value("InvalidUid"), value("InvalidLen")>>
           a == ExtraEnum(names[1], Append(messages, "Unknown"))
           b == ExtraEnum(names[2], StatusNames)
           B == Builtins(cur)
           R == B \o <<a, b>>
<1>1. cur \in Nat \ {0} /\ IsSeq(view)
  <2>1. outcome = "returned"
    BY DEF ExtraEnums
  <2> QED
    BY <2>1 DEF IndInv, HeapOK, ViewsBelow
<1>2. "Unknown" \notin Range(messages)
  <2> DEFINE taken == Messages(view)
  <2>1. messages = NameSeq(taken) /\ "Unknown" \notin Names(taken)
    OBVIOUS
  <2> HIDE DEF taken, messages
  <2> QED
    BY <2>1 DEF NameSeq, Names, Range
<1>3. IsSeq(messages)
  <2> DEFINE taken == Messages(view)
  <2>1. IsSeq(taken)
    <3> HIDE DEF view
    <3> QED
      BY <1>1, OfKindHas DEF Messages
  <2> HIDE DEF taken
  <2>2. DOMAIN taken = 1 .. Len(taken) /\ Len(taken) \in Nat
    BY <2>1, SeqIs
  <2>3. messages = [n \in 1 .. Len(taken) |-> messages[n]]
    BY <2>2 DEF NameSeq, taken
  <2> HIDE DEF messages
  <2> QED
    BY <2>2, <2>3, FunctionIsSeq
<1>4. a = TypeObj(names[1], "Enum", Append(types, value("Unknown")))
  <2>1. Append(types, value("Unknown"))
          = [n \in DOMAIN Append(messages, "Unknown") |-> value(Append(messages, "Unknown")[n])]
    <3> HIDE DEF messages
    <3> QED
      BY <1>3, ValuesAppended
  <2> HIDE DEF messages, types, value
  <2> QED
    BY <2>1 DEF ExtraEnum, value
<1>5. b = TypeObj(names[2], "Enum", status)
  BY StatusValues DEF ExtraEnum
<1>6. dicts' = [dicts EXCEPT ![cur] = @ \o
           IF "Unknown" \in Range(messages) THEN <<TypeObj(names[1], "Enum", types)>>
           ELSE <<TypeObj(names[1], "Enum", Append(types, value("Unknown"))),
                  TypeObj(names[2], "Enum", status)>>]
  BY DEF ExtraEnums
<1>7. a.kind = "Enum" /\ b.kind = "Enum"
  BY <1>4, <1>5, ObjIs
<1> HIDE DEF a, b, types, status, value, messages, view
<1>8. dicts' = [dicts EXCEPT ![cur] = R]
  BY <1>2, <1>4, <1>5, <1>6
<1>9. dicts'[cur] = R
  <2>1. cur \in DOMAIN dicts
    BY DEF IndInv, TypeOK
  <2> QED
    BY <1>8, <2>1
<1>10. <<a, b>> \in Seq({a, b}) /\ Len(<<a, b>>) = 2
  OBVIOUS
<1> DEFINE X == <<a, b>>
<1>11. IsSeq(X) /\ Len(X) = 2 /\ X[1] = a /\ X[2] = b
  BY <1>10, SeqOfSome
<1> HIDE DEF X
<1>12. IsSeq(B) /\ Len(B) = NumBuiltins /\ NumBuiltins \in Nat
  BY BuiltinsAre
<1>13. R = B \o X
  BY DEF X
<1>14. \A n \in 1 .. NumBuiltins : B[n].kind # "Enum"
  <2>1. \A n \in 1 .. NumBuiltins : n \in 1 .. (NumBuiltins - 1) \/ n = NumBuiltins
    BY <1>12
  <2>2. \A n \in 1 .. (NumBuiltins - 1) : B[n].kind = "Primitive"
    BY BuiltinsAreTypes, ObjIs
  <2>3. B[NumBuiltins].kind = "Struct"
    <3>1. PICK i, l \in 1 .. (NumBuiltins - 1) :
            B[NumBuiltins] =
              TypeObj("SsHeader", "Struct", <<Scalar("uid", Ref(cur, i)), Scalar("len", Ref(cur, l))>>)
      BY BuiltinsAreTypes
    <3> QED
      BY <3>1, ObjIs
  <2> HIDE DEF B
  <2> QED
    BY <2>1, <2>2, <2>3
<1> HIDE DEF B, R
<1>15. /\ IsSeq(R) /\ Len(R) = Len(B) + Len(X) /\ DOMAIN R = 1 .. (Len(B) + Len(X))
       /\ \A n \in 1 .. Len(B) : R[n] = B[n]
       /\ \A n \in 1 .. Len(X) : R[Len(B) + n] = X[n]
  <2>1. IsSeq(B) /\ IsSeq(X)
    BY <1>11, <1>12
  <2> QED
    BY ONLY <1>13, <2>1, ConcatIs
<1>16. {t \in Range(R) : t.kind \in {"Enum"}} = {a, b}
  <2>1. DOMAIN R = 1 .. (NumBuiltins + 2)
    BY <1>11, <1>12, <1>15
  <2>2. R[NumBuiltins + 1] = a /\ R[NumBuiltins + 2] = b
    BY <1>11, <1>12, <1>15
  <2>3. \A n \in 1 .. NumBuiltins : R[n].kind # "Enum"
    BY <1>12, <1>14, <1>15
  <2>4. \A n \in 1 .. (NumBuiltins + 2) : n \in 1 .. NumBuiltins \/ n = NumBuiltins + 1 \/ n = NumBuiltins + 2
    BY <1>12
  <2>5. NumBuiltins + 1 \in 1 .. (NumBuiltins + 2) /\ NumBuiltins + 2 \in 1 .. (NumBuiltins + 2)
    BY <1>12
  <2>6. a \in Range(R) /\ b \in Range(R)
    BY <2>1, <2>2, <2>5 DEF Range
  <2>7. ASSUME NEW t \in Range(R), t.kind \in {"Enum"} PROVE t \in {a, b}
    <3>1. PICK n \in 1 .. (NumBuiltins + 2) : t = R[n]
      BY <2>1 DEF Range
    <3> QED
      BY <2>2, <2>3, <2>4, <2>7, <3>1
  <2> QED
    BY <1>7, <2>6, <2>7
<1>17. Range(OfKind(R, {"Enum"})) = {a, b}
  BY <1>15, <1>16, OfKindHas
<1> QED
  BY <1>9, <1>17 DEF ExtraOf, a, b, messages, view

\* A file that is written has what it should have.
LEMMA WriteFiles ==
  ASSUME IndInv, ReturnedIsMeaning, StepInv, GenInv, Write \/ WriteRaises
  PROVE  FilesOK'
<1> DEFINE types == dicts[cur - 1]
           text == IF Write THEN Text(Out, types, dicts[cur]) ELSE <<>>
           f == [out |-> Out, spec |-> spec, tag |-> tag, dict |-> cur - 1, text |-> text]
<1>1. /\ todo # <<>> /\ stage = "write" /\ outcome = "returned"
      /\ Out \in Docs => extras
  BY DEF Write, WriteRaises, Ready
<1>2. /\ spec \in SpecFile /\ WellFormed(spec)
      /\ Out \in Docs => Range(OfKind(dicts[cur], {"Enum"})) = ExtraOf(NamesFor(Out), types)
  BY <1>1 DEF GenInv, RegistryInv
<1>3. types = Meaning(spec, tag, cur - 1)
  BY <1>1 DEF ReturnedIsMeaning
<1>4. Out \in Sources /\ TooDeep(types) <=> ~Write
  BY DEF Write, WriteRaises, Ready
<1>5. files' = Append(files, f)
  <2>1. CASE Write
    BY <2>1 DEF Write, Written
  <2>2. CASE ~Write
    BY <2>2 DEF WriteRaises, Written
  <2> QED
    BY <2>1, <2>2
<1>6. TextIs(Out, types, Quoted(spec), text)
  <2>1. CASE ~Write
    BY <1>4, <2>1 DEF TextIs
  <2>2. CASE Write
    <3>1. ~(Out \in Sources /\ TooDeep(types)) /\ text = Text(Out, types, dicts[cur])
      BY <1>4, <2>2
    <3> DEFINE extra == OfKind(dicts[cur], {"Enum"})
    <3>2. /\ Out = "c_source" => text = CSource(types, Quoted(spec))
          /\ Out = "cc_source" => text = CcSource(types)
          /\ Out = "py" => text = PyModule(types)
          /\ Out = "c_doc" => text = CDoc(extra, types)
          /\ Out = "cc_doc" => text = CcDoc(extra, types)
          /\ Out = "py_doc" => text = PyDoc(extra, types)
      <4> HIDE DEF text, types
      <4> QED
        BY <3>1 DEF Text
    <3>3. Out \in Docs => Range(extra) = ExtraOf(NamesFor(Out), types)
      BY <1>2
    <3> HIDE DEF extra, text, types
    <3> QED
      BY <3>1, <3>2, <3>3 DEF TextIs
  <2> QED
    BY <2>1, <2>2
<1>7. /\ f.out = Out /\ f.spec = spec /\ f.tag = tag /\ f.dict = cur - 1 /\ f.text = text
  OBVIOUS
<1> HIDE DEF f, text, types
<1>8. FileOK(f)
  <2>1. Types(f, f.tag) = types
    BY <1>3, <1>7 DEF Types
  <2> QED
    BY <1>2, <1>6, <1>7, <2>1 DEF FileOK
<1>9. DOMAIN files = 1 .. Len(files) /\ Len(files) \in Nat
  BY SeqIs DEF StepInv
<1>10. /\ DOMAIN files' = 1 .. (Len(files) + 1)
       /\ \A n \in 1 .. Len(files) : files'[n] = files[n]
       /\ files'[Len(files) + 1] = f
  BY <1>5, AppendIs DEF StepInv
<1>11. \A n \in 1 .. (Len(files) + 1) : n \in 1 .. Len(files) \/ n = Len(files) + 1
  BY <1>9
<1>12. \A n \in 1 .. Len(files) : FileOK(files[n])
  BY <1>9 DEF GenInv, FilesOK
<1>13. ASSUME NEW n \in DOMAIN files' PROVE FileOK(files'[n])
  BY <1>8, <1>10, <1>11, <1>12
<1> QED
  BY <1>13 DEF FilesOK

LEMMA RegistryNext ==
  ASSUME IndInv, Accepted, StepInv, RegistryInv, [GenNext]_genVars
  PROVE  RegistryInv'
<1>1. CASE Start
  <2>1. CASE Call
    BY <2>1 DEF Call, RegistryInv
  <2>2. CASE CallOnBadFile
    BY <2>2 DEF CallOnBadFile, RegistryInv
  <2> QED
    BY <1>1, <2>1, <2>2 DEF Start
<1>2. CASE Run
  <2>1. UNCHANGED <<todo, stage>>
    BY <1>2 DEF Run
  <2>2. CASE StartType
    <3>1. /\ ~extras /\ extras' = extras
          /\ outcome' # "returned"
      BY <2>2 DEF StartType, Raise, RegistryInv
    <3> QED
      BY <3>1 DEF RegistryInv
  <2>3. CASE AddItem
    <3>1. /\ ~extras /\ extras' = extras
          /\ outcome' # "returned"
      BY <2>3 DEF AddItem, Raise, RegistryInv
    <3> QED
      BY <3>1 DEF RegistryInv
  <2>4. CASE FinishType
    <3>1. ~extras /\ extras' = extras /\ outcome' # "returned"
      BY <2>4 DEF FinishType, RegistryInv
    <3> QED
      BY <3>1 DEF RegistryInv
  <2>5. CASE Return
    <3>1. ~extras /\ extras' = extras /\ pc' = "idle" /\ spec' = spec
      BY <2>5 DEF Return, RegistryInv
    <3>2. dicts'[cur'] = Builtins(cur')
      BY <2>5, HeapReset DEF Return, IndInv
    <3>3. spec \in SpecFile
      BY <2>5 DEF Return, IndInv, ParseInv
    <3>4. WellFormed(spec)
      <4>1. pc = "entries" /\ k > Len(spec) /\ k \in 1 .. (Len(spec) + 1)
        BY <2>5 DEF Return, IndInv, TypeOK
      <4>2. Len(spec) \in Nat
        BY <3>3, SpecIs
      <4>3. k - 1 = Len(spec)
        BY <4>1, <4>2
      <4>4. \A m \in 1 .. Len(spec) : EntryOK(spec, m)
        BY <4>1, <4>3 DEF Accepted
      <4> QED
        BY <3>3, <4>4, WellFormedIs
    <3> QED
      BY <3>1, <3>2, <3>3, <3>4 DEF RegistryInv
  <2> QED
    BY <1>2, <2>2, <2>3, <2>4, <2>5 DEF Run, Parse
<1>3. CASE Extra
  <2> DEFINE names == NamesFor(Out)
  <2>1. /\ names \in {CNames, CcNames} /\ ExtraEnums(names)
        /\ stage' = IF Unnumbered THEN "failed" ELSE "write"
        /\ UNCHANGED <<todo, files>>
    BY <1>3 DEF Extra, NamesFor
  <2> HIDE DEF names
  <2>2. /\ pc = "idle" /\ outcome = "returned" /\ ~extras /\ extras' = TRUE
        /\ UNCHANGED <<cur, pc, spec, outcome>>
        /\ cur - 1 # cur
        /\ \E R : dicts' = [dicts EXCEPT ![cur] = R]
    <3>1. /\ pc = "idle" /\ outcome = "returned" /\ ~extras /\ extras' = TRUE
          /\ UNCHANGED <<cur, pc, spec, outcome>>
      BY <2>1 DEF ExtraEnums
    <3>2. cur - 1 # cur
      BY DEF IndInv, HeapOK
    <3>3. \E R : dicts' = [dicts EXCEPT ![cur] = R]
      BY <2>1 DEF ExtraEnums
    <3> QED
      BY <3>1, <3>2, <3>3
  <2>3. dicts'[cur' - 1] = dicts[cur - 1]
    <3>1. DOMAIN dicts = 1 .. cur /\ cur - 1 \in 1 .. cur
      BY <2>2, SeqIs DEF IndInv, HeapOK, ViewsBelow
    <3> QED
      BY <2>2, <3>1
  <2>4. spec \in SpecFile /\ WellFormed(spec) /\ dicts[cur] = Builtins(cur)
    BY <2>2 DEF RegistryInv
  <2>5. CASE Unnumbered
    <3>1. stage' = "failed"
      BY <2>1, <2>5
    <3> QED
      BY <2>2, <2>4, <3>1 DEF RegistryInv
  <2>6. CASE ~Unnumbered
    <3>1. Range(OfKind(dicts'[cur], {"Enum"})) = ExtraOf(names, dicts[cur - 1])
      BY <2>1, <2>4, <2>6, ExtrasAre DEF Unnumbered
    <3>2. Out' = Out /\ cur' = cur
      BY <2>1, <2>2 DEF Out
    <3> QED
      BY <2>2, <2>3, <2>4, <3>1, <3>2 DEF RegistryInv, names
  <2> QED
    BY <2>5, <2>6
<1>4. CASE Write
  <2>1. stage' = "write" => todo' # <<>> /\ Out' \in Sources
    BY <1>4 DEF Write, Out
  <2>2. \A out \in Sources : out \notin Docs
    BY DEF Sources, Docs
  <2>3. UNCHANGED vars
    BY <1>4 DEF Write
  <2> QED
    BY <2>1, <2>2, <2>3 DEF RegistryInv, vars
<1>5. CASE WriteRaises
  <2>1. UNCHANGED vars /\ stage' = "failed"
    BY <1>5 DEF WriteRaises, vars
  <2> QED
    BY <2>1 DEF RegistryInv, vars
<1>6. CASE Abort
  <2>1. UNCHANGED vars /\ stage' = "parse"
    BY <1>6 DEF Abort, vars
  <2> QED
    BY <2>1 DEF RegistryInv, vars
<1>7. CASE UNCHANGED genVars
  BY <1>7 DEF genVars, RegistryInv, Out
<1> QED
  BY <1>1, <1>2, <1>3, <1>4, <1>5, <1>6, <1>7 DEF GenNext

\* Every file has what its generator makes of the meaning of its specification.
THEOREM FilesAreRight == GenSpec => []FilesOK
<1> DEFINE All == IndInv /\ Accepted /\ ReturnedIsMeaning /\ StepInv
<1>1. GenInit => GenInv
  <2> SUFFICES ASSUME GenInit PROVE GenInv
    OBVIOUS
  <2>1. pc = "idle" /\ outcome = "none" /\ files = <<>>
    BY DEF GenInit, Init
  <2>2. DOMAIN files = {}
    BY <2>1
  <2> QED
    BY <2>1, <2>2 DEF GenInv, RegistryInv, FilesOK
<1>2. All /\ GenInv /\ [GenNext]_genVars => GenInv'
  <2> SUFFICES ASSUME All, GenInv, [GenNext]_genVars PROVE GenInv'
    OBVIOUS
  <2>1. RegistryInv'
    BY RegistryNext DEF GenInv
  <2>2. CASE Write \/ WriteRaises
    BY <2>2, WriteFiles, <2>1 DEF GenInv
  <2>3. CASE ~(Write \/ WriteRaises)
    <3>1. files' = files
      BY <2>3 DEF GenNext, genVars, Start, Run, Extra, Abort
    <3> QED
      BY <2>1, <3>1 DEF GenInv, FilesOK
  <2> QED
    BY <2>2, <2>3
<1>3. GenSpec => []All
  <2>1. GenSpec => []StepInv
    BY StepsRight
  <2> QED
    BY <2>1, ImplementsParser, Invariant, Judged, ReturnedMeaning, PTL
<1>4. GenInv => FilesOK
  BY DEF GenInv
<1> QED
  <2> HIDE DEF All
  <2> QED
    BY <1>1, <1>2, <1>3, <1>4, PTL DEF GenSpec

-----------------------------------------------------------------------------
(* The types that files are made of.                                       *)

\* What is known of the n-th type, and of all types.
TypeUsable(t, n) ==
  /\ Distinct(t.fields) /\ t.name \in DOMAIN Camel
  /\ n < NumBuiltins => t = TypeObj(Primitive[n], "Primitive", <<>>) /\ t.name \in Range(Primitive)
  /\ n = NumBuiltins => t.kind = "Struct" /\ t.name = "SsHeader"
  /\ n > NumBuiltins => t.kind \in Kinds /\ t.name \notin Reserved
Usable(types) ==
  /\ AllReady(types, Len(types)) /\ Distinct(types) /\ NumBuiltins <= Len(types)
  /\ \A n \in DOMAIN types : TypeUsable(types[n], n)

LEMMA FileAcceptable ==
  ASSUME NEW s \in SpecFile, WellFormed(s)
  PROVE  Acceptable(s)
<1>1. s \in Seq(Range(s))
  BY SpecIs DEF IsSeq
<1>2. ASSUME NEW m \in DOMAIN s
      PROVE  /\ s[m].items \in Seq(Range(s[m].items)) /\ Len(s[m].items) <= IntMax
             /\ \A i \in Range(s[m].items) : i.bits \in Int /\ i.lens \in Seq(Int)
  <2>1. s[m].items \in Seq(Range(s[m].items))
    BY SpecShapeAssumption DEF SpecShapeAssumption
  <2>2. Len(s[m].items) <= IntMax
    BY TypeNameAssumption DEF TypeNameAssumption
  <2>3. ASSUME NEW i \in Range(s[m].items) PROVE i.bits \in Int /\ i.lens \in Seq(Int)
    <3>1. PICK n \in DOMAIN s[m].items : s[m].items[n] = i
      BY DEF Range
    <3>2. i.shape = "ok"
      BY <3>1 DEF WellFormed, MemberOK
    <3> QED
      BY <3>2, NumberAssumption DEF NumberAssumption
  <2> QED
    BY <2>1, <2>2, <2>3
<1> QED
  BY <1>1, <1>2 DEF Acceptable

LEMMA BuiltinUsable ==
  ASSUME NEW d, NEW n \in 1 .. NumBuiltins
  PROVE  TypeUsable(Builtins(d)[n], n)
<1> DEFINE t == Builtins(d)[n]
<1>1. NumBuiltins \in Nat /\ DOMAIN Primitive = 1 .. (NumBuiltins - 1)
  <2>1. NumBuiltins - 1 = Len(Primitive) /\ NumBuiltins \in Nat
    BY BuiltinsAre, PrimitiveAssumption, LenProperties DEF PrimitiveAssumption, NumBuiltins
  <2> QED
    BY <2>1, PrimitiveAssumption, LenProperties DEF PrimitiveAssumption
<1>2. CASE n \in 1 .. (NumBuiltins - 1)
  <2>1. t = TypeObj(Primitive[n], "Primitive", <<>>)
    BY <1>2, BuiltinsAreTypes
  <2>2. Primitive[n] \in Range(Primitive)
    BY <1>1, <1>2 DEF Range
  <2>3. Primitive[n] \in DOMAIN Camel
    BY <2>2, TypeNameAssumption DEF TypeNameAssumption, Reserved
  <2> HIDE DEF t
  <2>4. t.fields = <<>> /\ t.name = Primitive[n]
    BY <2>1 DEF TypeObj
  <2>5. Distinct(t.fields)
    BY <2>4 DEF Distinct
  <2>6. TypeUsable(t, n)
    BY <1>1, <1>2, <2>1, <2>2, <2>3, <2>4, <2>5 DEF TypeUsable
  <2> QED
    BY <2>6 DEF t
<1>3. CASE n = NumBuiltins
  <2>1. PICK a \in 1 .. (NumBuiltins - 1), b \in 1 .. (NumBuiltins - 1) :
          t = TypeObj("SsHeader", "Struct", <<Scalar("uid", Ref(d, a)), Scalar("len", Ref(d, b))>>)
    BY <1>3, BuiltinsAreTypes
  <2> DEFINE x == Scalar("uid", Ref(d, a))
             y == Scalar("len", Ref(d, b))
             fields == <<x, y>>
  <2>2. t = TypeObj("SsHeader", "Struct", fields)
    BY <2>1
  <2>3. x.name = "uid" /\ y.name = "len"
    BY DEF Scalar, Member
  <2> HIDE DEF t, x, y
  <2>4. DOMAIN fields = 1 .. 2 /\ fields[1] = x /\ fields[2] = y
    OBVIOUS
  <2> HIDE DEF fields
  <2>5. Distinct(fields)
    BY <2>3, <2>4 DEF Distinct
  <2>6. t.name = "SsHeader" /\ t.kind = "Struct" /\ t.fields = fields
    BY <2>2 DEF TypeObj
  <2>7. "SsHeader" \in DOMAIN Camel
    BY TypeNameAssumption DEF TypeNameAssumption, Reserved
  <2>8. TypeUsable(t, n)
    BY <1>1, <1>3, <2>5, <2>6, <2>7 DEF TypeUsable
  <2> QED
    BY <2>8 DEF t
<1> QED
  BY <1>1, <1>2, <1>3

LEMMA EntryUsable ==
  ASSUME NEW s \in SpecFile, WellFormed(s), NEW m \in 1 .. Len(s), NEW t, NEW d
  PROVE  TypeUsable(Meaning(s, t, d)[NumBuiltins + m], NumBuiltins + m)
<1> DEFINE R == Builtins(d) \o s
           e == s[m]
           c == Len(e.items)
           o == ObjectOf(e, c, t, d, R)
           h == HeaderCount(e)
           n == NumBuiltins + m
<1>1. IsSeq(s) /\ Len(s) \in Nat /\ DOMAIN s = 1 .. Len(s) /\ c \in Nat
  BY SpecIs
<1>2. Meaning(s, t, d)[n] = o
  BY <1>1, MeaningIs
<1>3. NumBuiltins \in Nat /\ n > NumBuiltins /\ ~(n < NumBuiltins) /\ n # NumBuiltins
  BY <1>1, BuiltinsAre
<1>4. e.kind \in Kinds /\ e.name \notin Reserved /\ e.name \in DOMAIN Camel
  <2>1. e.name \in DOMAIN Camel
    BY <1>1, TypeNameAssumption DEF TypeNameAssumption
  <2> QED
    BY <1>1, <2>1 DEF WellFormed
<1>5. DOMAIN e.items = 1 .. c
  <2>1. IsSeq(e.items)
    BY <1>1, SpecShapeAssumption DEF SpecShapeAssumption, IsSeq
  <2> HIDE DEF e
  <2> QED
    BY <2>1, SeqIs
<1>6. \A i \in 1 .. c : /\ \A l \in 1 .. (i - 1) : e.items[l].name # e.items[i].name
                        /\ e.kind = "Message" => e.items[i].name # "ss_header"
  <2>1. \E earlier : \A i \in DOMAIN e.items : MemberOK(e, i, earlier)
    BY <1>1 DEF WellFormed
  <2> HIDE DEF e, c
  <2> QED
    BY <1>5, <2>1 DEF MemberOK
<1>7. o.name = e.name /\ o.kind = e.kind
  BY DEF ObjectOf, TypeObj
<1>8. /\ DOMAIN o.fields = 1 .. (h + c)
      /\ h = 1 => o.fields[1] = HeaderOf(d, R)
      /\ \A i \in 1 .. c : o.fields[h + i] = MemberOf(e, e.items[i], t, d, R)
  BY <1>1, FieldsAre
<1>9. h \in {0, 1} /\ (h = 1 <=> e.kind = "Message")
  BY DEF HeaderCount
<1> HIDE DEF o, h, c, n
<1>10. HeaderOf(d, R).name = "ss_header"
  BY DEF HeaderOf, Scalar, Member
<1>11. \A i \in 1 .. c : MemberOf(e, e.items[i], t, d, R).name = e.items[i].name
  BY DEF MemberOf, Member
<1>12. ASSUME NEW i \in 1 .. (h + c)
       PROVE  \/ h = 1 /\ i = 1 /\ o.fields[i].name = "ss_header"
              \/ \E l \in 1 .. c : i = h + l /\ o.fields[i].name = e.items[l].name
  <2>1. CASE h = 1 /\ i = 1
    BY <1>8, <1>10, <2>1
  <2>2. CASE ~(h = 1 /\ i = 1)
    <3>1. i - h \in 1 .. c /\ i = h + (i - h)
      BY <1>1, <1>9, <2>2
    <3> QED
      BY <1>8, <1>11, <3>1
  <2> QED
    BY <2>1, <2>2
<1>13. ASSUME NEW a \in 1 .. c, NEW b \in 1 .. c, e.items[a].name = e.items[b].name PROVE a = b
  <2>1. ~(a \in 1 .. (b - 1)) /\ ~(b \in 1 .. (a - 1))
    BY <1>6, <1>13
  <2> QED
    BY <1>1, <2>1
<1>14. ASSUME NEW a \in 1 .. (h + c), NEW b \in 1 .. (h + c), o.fields[a].name = o.fields[b].name
       PROVE  a = b
  <2> HIDE DEF e
  <2> QED
    BY <1>6, <1>9, <1>12, <1>13, <1>14
<1>15. Distinct(o.fields)
  BY <1>8, <1>14 DEF Distinct
<1>16. TypeUsable(o, n)
  BY <1>3, <1>4, <1>7, <1>15 DEF TypeUsable
<1> QED
  BY <1>2, <1>16 DEF n

LEMMA FileUsable ==
  ASSUME NEW s \in SpecFile, WellFormed(s), NEW t, NEW d
  PROVE  Usable(Meaning(s, t, d))
<1> DEFINE types == Meaning(s, t, d)
           N == NumBuiltins + Len(s)
<1>1. IsSeq(s) /\ Len(s) \in Nat /\ NumBuiltins \in Nat
  BY SpecIs, BuiltinsAre
<1>2. Acceptable(s)
  BY FileAcceptable
<1>3. AllReady(types, N)
  BY <1>2, MeaningReady
<1>4. /\ IsSeq(types) /\ Len(types) = N /\ DOMAIN types = 1 .. N
      /\ \A i \in 1 .. NumBuiltins : types[i] = Builtins(d)[i]
  BY <1>1, MeaningIs
<1>5. Distinct(types)
  <2>1. Placed(Builtins(d) \o s, types, N)
    BY <1>2, PlacesAre
  <2> HIDE DEF types, N
  <2> QED
    BY <2>1 DEF Placed, Distinct
<1>6. ASSUME NEW n \in 1 .. N PROVE TypeUsable(types[n], n)
  <2>1. CASE n \in 1 .. NumBuiltins
    BY <1>4, <2>1, BuiltinUsable
  <2>2. CASE n \notin 1 .. NumBuiltins
    <3>1. n - NumBuiltins \in 1 .. Len(s) /\ NumBuiltins + (n - NumBuiltins) = n
      BY <1>1, <2>2
    <3>2. PICK m \in 1 .. Len(s) : NumBuiltins + m = n
      BY <3>1
    <3>3. TypeUsable(Meaning(s, t, d)[NumBuiltins + m], NumBuiltins + m)
      BY EntryUsable
    <3> QED
      BY <3>2, <3>3
  <2> QED
    BY <2>1, <2>2
<1> HIDE DEF types
<1> QED
  BY <1>1, <1>3, <1>4, <1>5, <1>6 DEF Usable, types

LEMMA SizesAreInts ==
  ASSUME NEW types, Usable(types)
  PROVE  \A n \in DOMAIN types : Sizes(types)[n] \in Int
<1> DEFINE S == Sizes(types)
           N == Len(types)
           K == {n \in Nat : \A i \in 1 .. n : i <= N => S[i] \in Int}
<1>1. N \in Nat /\ DOMAIN types = 1 .. N /\ \A n \in 1 .. N : ReadyType(types[n], n)
  BY DEF Usable, AllReady
<1>2. FoundFirst(types)
  <2>1. ASSUME NEW n \in 1 .. N PROVE FieldsBack(types[n], n)
    <3>1. ReadyType(types[n], n)
      BY <1>1
    <3> DEFINE u == types[n]
    <3> HIDE DEF u
    <3>2. IsSeq(u.fields) /\ ReadyType(u, n)
      BY <3>1 DEF u, ReadyType
    <3>3. DOMAIN u.fields = 1 .. Len(u.fields) /\ Len(u.fields) \in Nat
      BY <3>2, SeqIs
    <3>4. FieldsBack(u, n)
      BY <3>2, <3>3 DEF ReadyType, FieldsBack
    <3> QED
      BY <3>4 DEF u
  <2> QED
    BY <1>1, <2>1 DEF FoundFirst
<1>3. \A n \in 1 .. N : S[n] = TypeSize(types[n], S)
  BY <1>1, <1>2, SizesAre
<1>4. 0 \in K
  OBVIOUS
<1> HIDE DEF S
<1>5. ASSUME NEW n \in Nat, n \in K PROVE n + 1 \in K
  <2> SUFFICES ASSUME n + 1 <= N PROVE S[n + 1] \in Int
    <3>1. \A i \in 1 .. (n + 1) : i \in 1 .. n \/ i = n + 1
      OBVIOUS
    <3> QED
      BY <1>5, <3>1
  <2> DEFINE t == types[n + 1]
  <2>1. n + 1 \in 1 .. N /\ (n + 1) - 1 = n
    BY <1>1
  <2>2. ReadyType(t, n + 1) /\ S[n + 1] = TypeSize(t, S)
    BY <1>1, <1>3, <2>1
  <2> HIDE DEF t
  <2>3. CASE ~HasMembers(t)
    BY <2>2, <2>3 DEF ReadyType
  <2>4. CASE HasMembers(t)
    <3> DEFINE f == t.fields
    <3>1. IsSeq(f) /\ DOMAIN f = 1 .. Len(f) /\ Len(f) \in Nat
      <4>1. IsSeq(f)
        BY <2>2 DEF ReadyType
      <4> HIDE DEF f
      <4> QED
        BY <4>1, SeqIs
    <3>2. \A i \in 1 .. Len(f) : f[i].type.index \in 1 .. n /\ f[i].lens \in Seq(Int)
      BY <2>1, <2>2, <2>4 DEF ReadyType
    <3>3. \A i \in 1 .. Len(f) : S[f[i].type.index] \in Int
      BY <1>1, <1>5, <2>1, <3>2
    <3> HIDE DEF f
    <3>4. ASSUME NEW a \in Int, NEW i \in 1 .. Len(f)
          PROVE  a + ArraySize(S[f[i].type.index], f[i].lens) \in Int
      <4>1. ArraySize(S[f[i].type.index], f[i].lens) \in Int
        BY <3>2, <3>3, ArraySizeInt
      <4> QED
        BY <4>1
    <3>5. MembersFold!Fold(S, 0, f) \in Int
      <4>1. PICK w : MembersFold!FoldsTo(w, S, 0, f, Len(f)) /\ MembersFold!Fold(S, 0, f) = w[Len(f)]
        BY <3>1, MembersFold!FoldHas
      <4> DEFINE Z == {i \in Nat : i <= Len(f) => w[i] \in Int}
      <4>2. 0 \in Z
        BY <4>1 DEF MembersFold!FoldsTo
      <4>3. ASSUME NEW i \in Nat, i \in Z PROVE i + 1 \in Z
        <5> SUFFICES ASSUME i + 1 <= Len(f) PROVE w[i + 1] \in Int
          OBVIOUS
        <5>1. i + 1 \in 1 .. Len(f) /\ (i + 1) - 1 = i /\ w[i] \in Int
          BY <3>1, <4>3
        <5>2. w[i + 1] = w[i] + ArraySize(S[f[i + 1].type.index], f[i + 1].lens)
          BY <4>1, <5>1 DEF MembersFold!FoldsTo
        <5> QED
          BY <3>4, <5>1, <5>2
      <4>4. \A i \in Nat : i \in Z
        <5> HIDE DEF Z
        <5> QED
          BY <4>2, <4>3, BitFold!Induction
      <4> QED
        BY <3>1, <4>1, <4>4
    <3>6. TypeSize(t, S) = MembersSize(S, f)
      BY <2>4 DEF TypeSize, HasMembers, f
    <3> QED
      BY <2>2, <3>5, <3>6, MembersIsFold
  <2> QED
    BY <2>3, <2>4
<1>6. \A n \in Nat : n \in K
  <2> HIDE DEF K
  <2> QED
    BY <1>4, <1>5, BitFold!Induction
<1> QED
  BY <1>1, <1>6 DEF S

-----------------------------------------------------------------------------
(* The items of a library.                                                 *)

LEMMA ItemIs ==
  ASSUME NEW facts, NEW uses, NEW ok
  PROVE  /\ Item(facts, uses, ok).facts = facts /\ Item(facts, uses, ok).uses = uses
         /\ Item(facts, uses, ok).ok = ok
BY DEF Item

LEMMA FactIs ==
  ASSUME NEW kind, NEW name, NEW is, NEW ns
  PROVE  /\ Fact(kind, name, is, ns).kind = kind /\ Fact(kind, name, is, ns).name = name
         /\ Fact(kind, name, is, ns).is = is /\ Fact(kind, name, is, ns).ns = ns
BY DEF Fact

LEMMA Few ==
  ASSUME NEW x, NEW y, NEW z
  PROVE  /\ IsSeq(<<x>>) /\ Len(<<x>>) = 1 /\ <<x>>[1] = x
         /\ IsSeq(<<x, y>>) /\ Len(<<x, y>>) = 2 /\ <<x, y>>[1] = x /\ <<x, y>>[2] = y
         /\ IsSeq(<<x, y, z>>) /\ Len(<<x, y, z>>) = 3
         /\ <<x, y, z>>[1] = x /\ <<x, y, z>>[2] = y /\ <<x, y, z>>[3] = z
<1>1. <<x>> \in Seq({x}) /\ <<x, y>> \in Seq({x, y}) /\ <<x, y, z>> \in Seq({x, y, z})
  OBVIOUS
<1>2. IsSeq(<<x>>) /\ IsSeq(<<x, y>>) /\ IsSeq(<<x, y, z>>)
  BY <1>1, SeqOfSome
<1> QED
  BY <1>2

\* A sequence begins with another, and has one from some place on.
Begins(s, x) == \A n \in 1 .. Len(x) : s[n] = x[n]
Follows(s, at, y) == \A n \in 1 .. Len(y) : s[at + n] = y[n]

LEMMA JoinedIs ==
  ASSUME NEW x, IsSeq(x), NEW y, IsSeq(y)
  PROVE  /\ IsSeq(x \o y) /\ Len(x \o y) = Len(x) + Len(y)
         /\ Begins(x \o y, x) /\ Follows(x \o y, Len(x), y)
<1>1. /\ IsSeq(x \o y) /\ Len(x \o y) = Len(x) + Len(y)
      /\ DOMAIN (x \o y) = 1 .. (Len(x) + Len(y))
      /\ \A n \in 1 .. Len(x) : (x \o y)[n] = x[n]
      /\ \A n \in 1 .. Len(y) : (x \o y)[Len(x) + n] = y[n]
  BY ConcatIs
<1> QED
  BY <1>1 DEF Begins, Follows

LEMMA BeginsWith ==
  ASSUME NEW s, NEW x, NEW w, IsSeq(x), IsSeq(w), Begins(s, x), Begins(x, w), Len(w) <= Len(x)
  PROVE  Begins(s, w)
<1>1. Len(x) \in Nat /\ Len(w) \in Nat
  BY SeqIs
<1> QED
  BY <1>1 DEF Begins

LEMMA FollowsIn ==
  ASSUME NEW s, NEW x, IsSeq(x), Begins(s, x), NEW at \in Nat, NEW y, IsSeq(y),
         Follows(x, at, y), at + Len(y) <= Len(x)
  PROVE  Follows(s, at, y)
<1>1. Len(x) \in Nat /\ Len(y) \in Nat
  BY SeqIs
<1>2. \A n \in 1 .. Len(y) : at + n \in 1 .. Len(x)
  BY <1>1
<1> QED
  BY <1>1, <1>2 DEF Begins, Follows

\* Where six sequences are in their concatenation.
LEMMA Joined ==
  ASSUME NEW a, NEW b, NEW c, NEW d, NEW e, NEW f,
         IsSeq(a), IsSeq(b), IsSeq(c), IsSeq(d), IsSeq(e), IsSeq(f)
  PROVE  LET all == a \o b \o c \o d \o e \o f
         IN  /\ IsSeq(all) /\ Len(all) = Len(a) + Len(b) + Len(c) + Len(d) + Len(e) + Len(f)
             /\ Begins(all, a) /\ Follows(all, Len(a), b)
             /\ Follows(all, Len(a) + Len(b), c)
             /\ Follows(all, Len(a) + Len(b) + Len(c), d)
             /\ Follows(all, Len(a) + Len(b) + Len(c) + Len(d), e)
             /\ Follows(all, Len(a) + Len(b) + Len(c) + Len(d) + Len(e), f)
<1> DEFINE ab == a \o b
           abc == ab \o c
           abcd == abc \o d
           abcde == abcd \o e
           all == abcde \o f
           la == Len(a)  lb == Len(b)  lc == Len(c)  ld == Len(d)  le == Len(e)  lf == Len(f)
<1>1. la \in Nat /\ lb \in Nat /\ lc \in Nat /\ ld \in Nat /\ le \in Nat /\ lf \in Nat
  BY SeqIs
<1>2. IsSeq(ab) /\ Len(ab) = la + lb /\ Begins(ab, a) /\ Follows(ab, la, b)
  BY JoinedIs
<1> HIDE DEF ab
<1>3. /\ IsSeq(abc) /\ Len(abc) = Len(ab) + lc /\ Begins(abc, ab) /\ Follows(abc, Len(ab), c)
  BY <1>2, JoinedIs
<1> HIDE DEF abc
<1>4. /\ IsSeq(abcd) /\ Len(abcd) = Len(abc) + ld /\ Begins(abcd, abc) /\ Follows(abcd, Len(abc), d)
  BY <1>3, JoinedIs
<1> HIDE DEF abcd
<1>5. /\ IsSeq(abcde) /\ Len(abcde) = Len(abcd) + le
      /\ Begins(abcde, abcd) /\ Follows(abcde, Len(abcd), e)
  BY <1>4, JoinedIs
<1> HIDE DEF abcde
<1>6. /\ IsSeq(all) /\ Len(all) = Len(abcde) + lf
      /\ Begins(all, abcde) /\ Follows(all, Len(abcde), f)
  BY <1>5, JoinedIs
<1> HIDE DEF all
<1>7. /\ Len(ab) = la + lb /\ Len(abc) = la + lb + lc /\ Len(abcd) = la + lb + lc + ld
      /\ Len(abcde) = la + lb + lc + ld + le /\ Len(all) = la + lb + lc + ld + le + lf
  BY <1>2, <1>3, <1>4, <1>5, <1>6
<1>8. /\ Len(a) <= Len(ab) /\ Len(ab) <= Len(abc) /\ Len(abc) <= Len(abcd) /\ Len(abcd) <= Len(abcde)
  <2> HIDE DEF la, lb, lc, ld, le, lf
  <2>1. Len(a) = la
    BY DEF la
  <2> QED
    BY <1>1, <1>7, <2>1
<1>9. Begins(all, abcd)
  BY <1>4, <1>5, <1>6, <1>8, BeginsWith
<1>10. Begins(all, abc)
  BY <1>3, <1>4, <1>8, <1>9, BeginsWith
<1>11. Begins(all, ab)
  BY <1>2, <1>3, <1>8, <1>10, BeginsWith
<1>12. Begins(all, a)
  BY <1>2, <1>8, <1>11, BeginsWith
<1>13. /\ Follows(all, la, b) /\ Follows(all, Len(ab), c) /\ Follows(all, Len(abc), d)
       /\ Follows(all, Len(abcd), e) /\ Follows(all, Len(abcde), f)
  <2>1. Follows(all, la, b)
    <3>1. la + Len(b) <= Len(ab) /\ la \in Nat
      BY <1>1, <1>7
    <3> QED
      BY <1>2, <1>11, <3>1, FollowsIn
  <2>2. Follows(all, Len(ab), c)
    <3>1. Len(ab) + Len(c) <= Len(abc) /\ Len(ab) \in Nat
      BY <1>1, <1>7
    <3> QED
      BY <1>3, <1>10, <3>1, FollowsIn
  <2>3. Follows(all, Len(abc), d)
    <3>1. Len(abc) + Len(d) <= Len(abcd) /\ Len(abc) \in Nat
      BY <1>1, <1>7
    <3> QED
      BY <1>4, <1>9, <3>1, FollowsIn
  <2>4. Follows(all, Len(abcd), e)
    <3>1. Len(abcd) + Len(e) <= Len(abcde) /\ Len(abcd) \in Nat
      BY <1>1, <1>7
    <3> QED
      BY <1>5, <1>6, <3>1, FollowsIn
  <2> QED
    BY <1>6, <2>1, <2>2, <2>3, <2>4
<1>14. all = a \o b \o c \o d \o e \o f
  BY DEF all, abcde, abcd, abc, ab
<1>15. /\ IsSeq(all) /\ Len(all) = la + lb + lc + ld + le + lf
       /\ Begins(all, a) /\ Follows(all, la, b) /\ Follows(all, la + lb, c)
       /\ Follows(all, la + lb + lc, d) /\ Follows(all, la + lb + lc + ld, e)
       /\ Follows(all, la + lb + lc + ld + le, f)
  <2> HIDE DEF la, lb, lc, ld, le, lf
  <2> QED
    BY <1>6, <1>7, <1>12, <1>13
<1> QED
  BY <1>14, <1>15

\* The items of the C library, each at its place.
CItems(lib, types, quoted) ==
  LET declared == Declared(types)
      messages == Range(Messages(types))
      L == Len(declared)
      N == Len(types)
  IN  /\ IsSeq(lib) /\ DOMAIN lib = 1 .. (L + N + 10)
      /\ lib[1] = Item({Type(CTypeName(p)) : p \in Range(Primitive)}, {}, TRUE)
      /\ lib[2] = Item(Port, {}, TRUE)
      /\ lib[3] = Item(MessageTypeEnum(types), {}, messages # {})
      /\ lib[4] = Item(StatusEnum, {}, TRUE)
      /\ \A n \in 1 .. L : lib[4 + n] = CDeclaration(types, declared[n])
      /\ lib[L + 5] = Item({PackedSizeMacro(types, m) : m \in messages} \cup {HeaderSizeMacro}, {}, TRUE)
      /\ lib[L + 6] =
           Item((UNION {PackFacts(m) \cup {LogFact(m)} : m \in messages}) \cup Helpers \cup {LogDelimiter},
                {}, TRUE)
      /\ lib[L + 7] = StaticAsserts(types)
      /\ \A n \in 1 .. N : lib[L + 7 + n] = CPacking(types, types[n])
      /\ lib[L + N + 8] = Item({Variable(v) : v \in {"kMessageUids", "kSsMsgTypes"}}
                                 \cup {Function("GetSsMsgTypeFromUid", "SsMsgType")},
                               {FunctionUse("SsUnpackSsHeader")}, TRUE)
      /\ lib[L + N + 9] = Item({Variable("kYamlHeader")} \cup Helpers,
                               {<<"constant", LogDelimiter.name>>}, ~quoted)
      /\ lib[L + N + 10] = Item({LogFact(m) : m \in messages}, {}, TRUE)

LEMMA CSourceIs ==
  ASSUME NEW types, IsSeq(types), NEW quoted
  PROVE  CItems(CSource(types, quoted), types, quoted)
<1> DEFINE declared == Declared(types)
           messages == Range(Messages(types))
           L == Len(declared)
           N == Len(types)
           declare(t) == CDeclaration(types, t)
           pack(t) == CPacking(types, t)
           i1 == Item({Type(CTypeName(p)) : p \in Range(Primitive)}, {}, TRUE)
           i2 == Item(Port, {}, TRUE)
           i3 == Item(MessageTypeEnum(types), {}, messages # {})
           i4 == Item(StatusEnum, {}, TRUE)
           i5 == Item({PackedSizeMacro(types, m) : m \in messages} \cup {HeaderSizeMacro}, {}, TRUE)
           i6 == Item((UNION {PackFacts(m) \cup {LogFact(m)} : m \in messages}) \cup Helpers
                        \cup {LogDelimiter}, {}, TRUE)
           i7 == StaticAsserts(types)
           i8 == Item({Variable(v) : v \in {"kMessageUids", "kSsMsgTypes"}}
                        \cup {Function("GetSsMsgTypeFromUid", "SsMsgType")},
                      {FunctionUse("SsUnpackSsHeader")}, TRUE)
           i9 == Item({Variable("kYamlHeader")} \cup Helpers, {<<"constant", LogDelimiter.name>>}, ~quoted)
           i10 == Item({LogFact(m) : m \in messages}, {}, TRUE)
           c == [n \in DOMAIN declared |-> CDeclaration(types, declared[n])]
           f == [n \in DOMAIN types |-> CPacking(types, types[n])]
           six == <<i1>> \o <<i2, i3, i4>> \o c \o <<i5, i6>> \o <<i7>> \o f
           lib == six \o <<i8, i9, i10>>
<1>1. CSource(types, quoted) = lib
  BY DEF CSource, CHeader, Included, Map
<1>2. IsSeq(declared) /\ L \in Nat /\ DOMAIN declared = 1 .. L
  <2>1. IsSeq(declared)
    BY OfKindHas DEF Declared
  <2> HIDE DEF declared
  <2> QED
    BY <2>1, SeqIs
<1>3. N \in Nat /\ DOMAIN types = 1 .. N
  BY SeqIs
<1>4. /\ IsSeq(c) /\ Len(c) = L /\ \A n \in 1 .. L : c[n] = CDeclaration(types, declared[n])
      /\ IsSeq(f) /\ Len(f) = N /\ \A n \in 1 .. N : f[n] = CPacking(types, types[n])
  <2> HIDE DEF declared
  <2>1. /\ \A n \in 1 .. L : c[n] = CDeclaration(types, declared[n])
        /\ \A n \in 1 .. N : f[n] = CPacking(types, types[n])
    BY <1>2, <1>3
  <2>2. c = [n \in 1 .. L |-> c[n]] /\ f = [n \in 1 .. N |-> f[n]]
    BY <1>2, <1>3
  <2> HIDE DEF c, f, L, N
  <2> QED
    BY <1>2, <1>3, <2>1, <2>2, FunctionIsSeq
<1> HIDE DEF i1, i2, i3, i4, i5, i6, i7, i8, i9, i10, c, f, L, N
<1> DEFINE a == <<i1>>  b == <<i2, i3, i4>>  d == <<i5, i6>>  e == <<i7>>  g == <<i8, i9, i10>>
<1>5. /\ IsSeq(a) /\ Len(a) = 1 /\ a[1] = i1
      /\ IsSeq(b) /\ Len(b) = 3 /\ b[1] = i2 /\ b[2] = i3 /\ b[3] = i4
      /\ IsSeq(d) /\ Len(d) = 2 /\ d[1] = i5 /\ d[2] = i6
      /\ IsSeq(e) /\ Len(e) = 1 /\ e[1] = i7
      /\ IsSeq(g) /\ Len(g) = 3 /\ g[1] = i8 /\ g[2] = i9 /\ g[3] = i10
  BY Few
<1>6. six = a \o b \o c \o d \o e \o f /\ lib = six \o g
  OBVIOUS
<1> HIDE DEF six, lib, a, b, d, e, g
<1>7. /\ IsSeq(six) /\ Len(six) = L + N + 7
      /\ Begins(six, a) /\ Follows(six, 1, b) /\ Follows(six, 4, c) /\ Follows(six, L + 4, d)
      /\ Follows(six, L + 6, e) /\ Follows(six, L + 7, f)
  <2> DEFINE all == a \o b \o c \o d \o e \o f
  <2>1. IsSeq(a) /\ IsSeq(b) /\ IsSeq(c) /\ IsSeq(d) /\ IsSeq(e) /\ IsSeq(f)
    BY <1>4, <1>5
  <2>2. /\ IsSeq(all) /\ Len(all) = Len(a) + Len(b) + Len(c) + Len(d) + Len(e) + Len(f)
        /\ Begins(all, a) /\ Follows(all, Len(a), b)
        /\ Follows(all, Len(a) + Len(b), c)
        /\ Follows(all, Len(a) + Len(b) + Len(c), d)
        /\ Follows(all, Len(a) + Len(b) + Len(c) + Len(d), e)
        /\ Follows(all, Len(a) + Len(b) + Len(c) + Len(d) + Len(e), f)
    BY ONLY <2>1, Joined
  <2>3. six = all
    BY <1>6
  <2> HIDE DEF all
  <2>4. /\ Len(a) = 1 /\ Len(a) + Len(b) = 4 /\ Len(a) + Len(b) + Len(c) = L + 4
        /\ Len(a) + Len(b) + Len(c) + Len(d) = L + 6
        /\ Len(a) + Len(b) + Len(c) + Len(d) + Len(e) = L + 7
        /\ Len(a) + Len(b) + Len(c) + Len(d) + Len(e) + Len(f) = L + N + 7
    BY <1>2, <1>3, <1>4, <1>5
  <2> QED
    BY <2>2, <2>3, <2>4
<1>8. /\ six[1] = i1 /\ six[2] = i2 /\ six[3] = i3 /\ six[4] = i4
      /\ \A n \in 1 .. L : six[4 + n] = c[n]
      /\ six[L + 5] = i5 /\ six[L + 6] = i6 /\ six[L + 7] = i7
      /\ \A n \in 1 .. N : six[L + 7 + n] = f[n]
  <2>1. /\ 1 \in 1 .. 1 /\ 1 \in 1 .. 3 /\ 2 \in 1 .. 3 /\ 3 \in 1 .. 3 /\ 1 \in 1 .. 2 /\ 2 \in 1 .. 2
        /\ 1 + 1 = 2 /\ 1 + 2 = 3 /\ 1 + 3 = 4
        /\ (L + 4) + 1 = L + 5 /\ (L + 4) + 2 = L + 6 /\ (L + 6) + 1 = L + 7
    BY <1>2
  <2>2. six[1] = i1
    BY <1>5, <1>7, <2>1 DEF Begins
  <2>3. /\ six[1 + 1] = i2 /\ six[1 + 2] = i3 /\ six[1 + 3] = i4
    BY <1>5, <1>7, <2>1 DEF Follows
  <2>4. \A n \in 1 .. L : six[4 + n] = c[n]
    BY <1>4, <1>7 DEF Follows
  <2>5. six[(L + 4) + 1] = i5 /\ six[(L + 4) + 2] = i6
    BY <1>5, <1>7, <2>1 DEF Follows
  <2>6. six[(L + 6) + 1] = i7
    BY <1>5, <1>7, <2>1 DEF Follows
  <2>7. \A n \in 1 .. N : six[L + 7 + n] = f[n]
    BY <1>4, <1>7 DEF Follows
  <2> QED
    BY <2>1, <2>2, <2>3, <2>4, <2>5, <2>6, <2>7
<1>9. /\ IsSeq(lib) /\ DOMAIN lib = 1 .. ((L + N + 7) + 3)
      /\ \A n \in 1 .. (L + N + 7) : lib[n] = six[n]
      /\ \A n \in 1 .. 3 : lib[(L + N + 7) + n] = g[n]
  <2>1. IsSeq(six) /\ IsSeq(g)
    BY <1>5, <1>7
  <2>2. /\ IsSeq(six \o g) /\ Len(six \o g) = Len(six) + Len(g)
        /\ DOMAIN (six \o g) = 1 .. (Len(six) + Len(g))
        /\ \A n \in 1 .. Len(six) : (six \o g)[n] = six[n]
        /\ \A n \in 1 .. Len(g) : (six \o g)[Len(six) + n] = g[n]
    BY ONLY <2>1, ConcatIs
  <2> QED
    BY <1>5, <1>6, <1>7, <2>2
<1>10. /\ DOMAIN lib = 1 .. (L + N + 10)
       /\ lib[1] = i1 /\ lib[2] = i2 /\ lib[3] = i3 /\ lib[4] = i4
       /\ lib[L + 5] = i5 /\ lib[L + 6] = i6 /\ lib[L + 7] = i7
  BY <1>2, <1>3, <1>8, <1>9
<1>11. lib[L + N + 8] = i8 /\ lib[L + N + 9] = i9 /\ lib[L + N + 10] = i10
  <2>1. 1 \in 1 .. 3 /\ 2 \in 1 .. 3 /\ 3 \in 1 .. 3
        /\ (L + N + 7) + 1 = L + N + 8 /\ (L + N + 7) + 2 = L + N + 9 /\ (L + N + 7) + 3 = L + N + 10
    BY <1>2, <1>3
  <2> QED
    BY <1>5, <1>9, <2>1
<1>12. ASSUME NEW n \in 1 .. L PROVE lib[4 + n] = CDeclaration(types, declared[n])
  <2>1. 4 + n \in 1 .. (L + N + 7)
    BY <1>2, <1>3
  <2>2. lib[4 + n] = six[4 + n]
    BY <1>9, <2>1
  <2>3. six[4 + n] = c[n]
    BY <1>8
  <2> QED
    BY <1>4, <2>2, <2>3
<1>14. ASSUME NEW n \in 1 .. N PROVE lib[L + 7 + n] = CPacking(types, types[n])
  <2>1. L + 7 + n \in 1 .. (L + N + 7)
    BY <1>2, <1>3
  <2>2. lib[L + 7 + n] = six[L + 7 + n]
    BY <1>9, <2>1
  <2>3. six[L + 7 + n] = f[n]
    BY <1>8
  <2> QED
    BY <1>4, <2>2, <2>3
<1>13. CItems(lib, types, quoted)
  BY <1>9, <1>10, <1>11, <1>12, <1>14 DEF CItems, L, N, i1, i2, i3, i4, i5, i6, i7, i8, i9, i10
<1> QED
  BY <1>1, <1>13 DEF lib, six

-----------------------------------------------------------------------------
\* The items of the C++ library, each at its place.
CcItems(lib, types) ==
  LET declared == Declared(types)
      messages == Messages(types)
      L == Len(declared)
      N == Len(types)
  IN  /\ IsSeq(lib) /\ DOMAIN lib = 1 .. (L + N + 5)
      /\ lib[1] = Item({Type(CTypeName(p)) : p \in Range(Primitive)}, {}, TRUE)
      /\ lib[2] = Item(CcStatus \cup Numbers(types) \cup Unpackers, {}, TRUE)
      /\ lib[3] = Item(CcMsgType(types), {}, messages # <<>>)
      /\ \A n \in 1 .. L : lib[3 + n] = CcDeclaration(types, declared[n])
      /\ lib[L + 4] = Item(AnyMessage(types) \cup Dispatcher \cup Callbacks(types), {}, TRUE)
      /\ \A n \in 1 .. N : lib[L + 4 + n] = CcPacking(types, types[n])
      /\ lib[L + N + 5] =
           Item(Unpackers, {<<"function", Overload("SsUnpackSsHeader", "SsHeader")>>},
                NamesKept(types))

LEMMA CcSourceIs ==
  ASSUME NEW types, IsSeq(types)
  PROVE  CcItems(CcSource(types), types)
<1> DEFINE declared == Declared(types)
           messages == Messages(types)
           L == Len(declared)
           N == Len(types)
           i1 == Item({Type(CTypeName(p)) : p \in Range(Primitive)}, {}, TRUE)
           i2 == Item(CcStatus \cup Numbers(types) \cup Unpackers, {}, TRUE)
           i3 == Item(CcMsgType(types), {}, messages # <<>>)
           i4 == Item(AnyMessage(types) \cup Dispatcher \cup Callbacks(types), {}, TRUE)
           i5 == Item(Unpackers, {<<"function", Overload("SsUnpackSsHeader", "SsHeader")>>},
                      NamesKept(types))
           c == [n \in DOMAIN declared |-> CcDeclaration(types, declared[n])]
           e == [n \in DOMAIN types |-> CcPacking(types, types[n])]
           lib == <<i1>> \o <<i2, i3>> \o c \o <<i4>> \o e \o <<i5>>
<1>1. CcSource(types) = lib
  BY DEF CcSource, CcHeader, Included, Map
<1>2. IsSeq(declared) /\ L \in Nat /\ DOMAIN declared = 1 .. L
  <2>1. IsSeq(declared)
    BY OfKindHas DEF Declared
  <2> HIDE DEF declared
  <2> QED
    BY <2>1, SeqIs
<1>3. N \in Nat /\ DOMAIN types = 1 .. N
  BY SeqIs
<1>4. /\ IsSeq(c) /\ Len(c) = L /\ \A n \in 1 .. L : c[n] = CcDeclaration(types, declared[n])
      /\ IsSeq(e) /\ Len(e) = N /\ \A n \in 1 .. N : e[n] = CcPacking(types, types[n])
  <2> HIDE DEF declared
  <2>1. /\ \A n \in 1 .. L : c[n] = CcDeclaration(types, declared[n])
        /\ \A n \in 1 .. N : e[n] = CcPacking(types, types[n])
    BY <1>2, <1>3
  <2>2. c = [n \in 1 .. L |-> c[n]] /\ e = [n \in 1 .. N |-> e[n]]
    BY <1>2, <1>3
  <2> HIDE DEF c, e, L, N
  <2> QED
    BY <1>2, <1>3, <2>1, <2>2, FunctionIsSeq
<1> HIDE DEF i1, i2, i3, i4, i5, c, e, L, N
<1> DEFINE a == <<i1>>  b == <<i2, i3>>  d == <<i4>>  f == <<i5>>
<1>5. /\ IsSeq(a) /\ Len(a) = 1 /\ a[1] = i1
      /\ IsSeq(b) /\ Len(b) = 2 /\ b[1] = i2 /\ b[2] = i3
      /\ IsSeq(d) /\ Len(d) = 1 /\ d[1] = i4
      /\ IsSeq(f) /\ Len(f) = 1 /\ f[1] = i5
  BY Few
<1>6. lib = a \o b \o c \o d \o e \o f
  OBVIOUS
<1> HIDE DEF lib, a, b, d, f
<1>7. /\ IsSeq(lib) /\ Len(lib) = L + N + 5
      /\ Begins(lib, a) /\ Follows(lib, 1, b) /\ Follows(lib, 3, c) /\ Follows(lib, L + 3, d)
      /\ Follows(lib, L + 4, e) /\ Follows(lib, L + N + 4, f)
  <2> DEFINE all == a \o b \o c \o d \o e \o f
  <2>1. IsSeq(a) /\ IsSeq(b) /\ IsSeq(c) /\ IsSeq(d) /\ IsSeq(e) /\ IsSeq(f)
    BY <1>4, <1>5
  <2>2. /\ IsSeq(all) /\ Len(all) = Len(a) + Len(b) + Len(c) + Len(d) + Len(e) + Len(f)
        /\ Begins(all, a) /\ Follows(all, Len(a), b)
        /\ Follows(all, Len(a) + Len(b), c)
        /\ Follows(all, Len(a) + Len(b) + Len(c), d)
        /\ Follows(all, Len(a) + Len(b) + Len(c) + Len(d), e)
        /\ Follows(all, Len(a) + Len(b) + Len(c) + Len(d) + Len(e), f)
    BY ONLY <2>1, Joined
  <2>3. lib = all
    BY <1>6
  <2> HIDE DEF all
  <2>4. /\ Len(a) = 1 /\ Len(a) + Len(b) = 3 /\ Len(a) + Len(b) + Len(c) = L + 3
        /\ Len(a) + Len(b) + Len(c) + Len(d) = L + 4
        /\ Len(a) + Len(b) + Len(c) + Len(d) + Len(e) = L + N + 4
        /\ Len(a) + Len(b) + Len(c) + Len(d) + Len(e) + Len(f) = L + N + 5
    BY <1>2, <1>3, <1>4, <1>5
  <2> QED
    BY <2>2, <2>3, <2>4
<1>8. /\ lib[1] = i1 /\ lib[2] = i2 /\ lib[3] = i3
      /\ \A n \in 1 .. L : lib[3 + n] = c[n]
      /\ lib[L + 4] = i4
      /\ \A n \in 1 .. N : lib[L + 4 + n] = e[n]
      /\ lib[L + N + 5] = i5
  <2>1. /\ 1 \in 1 .. 1 /\ 1 \in 1 .. 2 /\ 2 \in 1 .. 2 /\ 1 + 1 = 2 /\ 1 + 2 = 3
        /\ (L + 3) + 1 = L + 4 /\ (L + N + 4) + 1 = L + N + 5
    BY <1>2, <1>3
  <2>2. lib[1] = i1
    BY <1>5, <1>7, <2>1 DEF Begins
  <2>3. lib[1 + 1] = i2 /\ lib[1 + 2] = i3
    BY <1>5, <1>7, <2>1 DEF Follows
  <2>4. \A n \in 1 .. L : lib[3 + n] = c[n]
    BY <1>4, <1>7 DEF Follows
  <2>5. lib[(L + 3) + 1] = i4
    BY <1>5, <1>7, <2>1 DEF Follows
  <2>6. \A n \in 1 .. N : lib[L + 4 + n] = e[n]
    BY <1>4, <1>7 DEF Follows
  <2>7. lib[(L + N + 4) + 1] = i5
    BY <1>5, <1>7, <2>1 DEF Follows
  <2> QED
    BY <2>1, <2>2, <2>3, <2>4, <2>5, <2>6, <2>7
<1>9. DOMAIN lib = 1 .. (L + N + 5)
  BY <1>7, SeqIs
<1>10. ASSUME NEW n \in 1 .. L PROVE lib[3 + n] = CcDeclaration(types, declared[n])
  BY <1>4, <1>8
<1>11. ASSUME NEW n \in 1 .. N PROVE lib[L + 4 + n] = CcPacking(types, types[n])
  BY <1>4, <1>8
<1>12. CcItems(lib, types)
  BY <1>7, <1>8, <1>9, <1>10, <1>11 DEF CcItems, L, N, i1, i2, i3, i4, i5
<1> QED
  BY <1>1, <1>12 DEF lib

-----------------------------------------------------------------------------
\* What is stated in a library.
LEMMA Stated ==
  ASSUME NEW lib, NEW n \in DOMAIN lib
  PROVE  lib[n].facts \subseteq Facts(lib)
BY DEF Facts

LEMMA CHas ==
  ASSUME NEW types, IsSeq(types), NEW quoted
  PROVE  LET facts == Facts(CSource(types, quoted))
             messages == Range(Messages(types))
         IN  /\ {Type(CTypeName(p)) : p \in Range(Primitive)} \subseteq facts
             /\ Port \subseteq facts /\ MessageTypeEnum(types) \subseteq facts /\ StatusEnum \subseteq facts
             /\ \A t \in Range(Declared(types)) : CDeclaration(types, t).facts \subseteq facts
             /\ \A m \in messages :
                  PackedSizeMacro(types, m) \in facts /\ LogFact(m) \in facts /\ PackFacts(m) \subseteq facts
             /\ HeaderSizeMacro \in facts /\ Helpers \subseteq facts /\ LogDelimiter \in facts
<1> DEFINE lib == CSource(types, quoted)
           declared == Declared(types)
           messages == Range(Messages(types))
           L == Len(declared)
           N == Len(types)
           macros == {PackedSizeMacro(types, m) : m \in messages} \cup {HeaderSizeMacro}
           packs == (UNION {PackFacts(m) \cup {LogFact(m)} : m \in messages}) \cup Helpers
                      \cup {LogDelimiter}
           basic == {Type(CTypeName(p)) : p \in Range(Primitive)}
<1>1. /\ DOMAIN lib = 1 .. (L + N + 10)
      /\ lib[1] = Item(basic, {}, TRUE) /\ lib[2] = Item(Port, {}, TRUE)
      /\ lib[3] = Item(MessageTypeEnum(types), {}, messages # {}) /\ lib[4] = Item(StatusEnum, {}, TRUE)
      /\ \A n \in 1 .. L : lib[4 + n] = CDeclaration(types, declared[n])
      /\ lib[L + 5] = Item(macros, {}, TRUE) /\ lib[L + 6] = Item(packs, {}, TRUE)
  <2>1. CItems(lib, types, quoted)
    BY CSourceIs
  <2> HIDE DEF lib
  <2> QED
    BY <2>1 DEF CItems
<1>2. L \in Nat /\ N \in Nat /\ DOMAIN declared = 1 .. L
  <2>1. IsSeq(declared)
    BY OfKindHas DEF Declared
  <2> HIDE DEF declared
  <2> QED
    BY <2>1, SeqIs
<1>3. /\ 1 \in DOMAIN lib /\ 2 \in DOMAIN lib /\ 3 \in DOMAIN lib /\ 4 \in DOMAIN lib
      /\ L + 5 \in DOMAIN lib /\ L + 6 \in DOMAIN lib
      /\ \A n \in 1 .. L : 4 + n \in DOMAIN lib
  <2> HIDE DEF lib, L, N
  <2> QED
    BY <1>1, <1>2
<1> HIDE DEF lib, L, N, basic, macros, packs
<1>4. /\ lib[1].facts = basic /\ lib[2].facts = Port /\ lib[3].facts = MessageTypeEnum(types)
      /\ lib[4].facts = StatusEnum /\ lib[L + 5].facts = macros /\ lib[L + 6].facts = packs
  BY <1>1 DEF Item
<1>5. /\ basic \subseteq Facts(lib) /\ Port \subseteq Facts(lib)
      /\ MessageTypeEnum(types) \subseteq Facts(lib)
      /\ StatusEnum \subseteq Facts(lib) /\ macros \subseteq Facts(lib) /\ packs \subseteq Facts(lib)
  BY <1>3, <1>4, Stated
<1>6. ASSUME NEW t \in Range(declared) PROVE CDeclaration(types, t).facts \subseteq Facts(lib)
  <2>1. PICK n \in 1 .. L : t = declared[n]
    BY <1>2 DEF Range
  <2>2. lib[4 + n].facts \subseteq Facts(lib)
    BY <1>3, Stated
  <2> QED
    BY <1>1, <2>1, <2>2
<1>7. ASSUME NEW m \in messages
      PROVE  /\ PackedSizeMacro(types, m) \in Facts(lib) /\ LogFact(m) \in Facts(lib)
             /\ PackFacts(m) \subseteq Facts(lib)
  <2>1. PackedSizeMacro(types, m) \in macros /\ LogFact(m) \in packs /\ PackFacts(m) \subseteq packs
    BY DEF macros, packs
  <2> QED
    BY <1>5, <2>1
<1>8. HeaderSizeMacro \in Facts(lib) /\ Helpers \subseteq Facts(lib) /\ LogDelimiter \in Facts(lib)
  <2>1. HeaderSizeMacro \in macros /\ Helpers \subseteq packs /\ LogDelimiter \in packs
    BY DEF macros, packs
  <2> QED
    BY <1>5, <2>1
<1> QED
  BY <1>5, <1>6, <1>7, <1>8 DEF lib, basic

LEMMA CcHas ==
  ASSUME NEW types, IsSeq(types)
  PROVE  LET facts == Facts(CcSource(types))
         IN  /\ CcStatus \subseteq facts /\ Numbers(types) \subseteq facts /\ Unpackers \subseteq facts
             /\ CcMsgType(types) \subseteq facts
             /\ \A t \in Range(Declared(types)) : CcDeclaration(types, t).facts \subseteq facts
             /\ AnyMessage(types) \subseteq facts /\ Dispatcher \subseteq facts
<1> DEFINE lib == CcSource(types)
           declared == Declared(types)
           L == Len(declared)
           N == Len(types)
           first == CcStatus \cup Numbers(types) \cup Unpackers
           last == AnyMessage(types) \cup Dispatcher \cup Callbacks(types)
<1>1. /\ DOMAIN lib = 1 .. (L + N + 5)
      /\ lib[2] = Item(first, {}, TRUE) /\ lib[3] = Item(CcMsgType(types), {}, Messages(types) # <<>>)
      /\ \A n \in 1 .. L : lib[3 + n] = CcDeclaration(types, declared[n])
      /\ lib[L + 4] = Item(last, {}, TRUE)
  <2>1. CcItems(lib, types)
    BY CcSourceIs
  <2> HIDE DEF lib
  <2> QED
    BY <2>1 DEF CcItems
<1>2. L \in Nat /\ N \in Nat /\ DOMAIN declared = 1 .. L
  <2>1. IsSeq(declared)
    BY OfKindHas DEF Declared
  <2> HIDE DEF declared
  <2> QED
    BY <2>1, SeqIs
<1>3. /\ 2 \in DOMAIN lib /\ 3 \in DOMAIN lib /\ L + 4 \in DOMAIN lib
      /\ \A n \in 1 .. L : 3 + n \in DOMAIN lib
  <2> HIDE DEF lib, L, N
  <2> QED
    BY <1>1, <1>2
<1> HIDE DEF lib, L, N, first, last
<1>4. lib[2].facts = first /\ lib[3].facts = CcMsgType(types) /\ lib[L + 4].facts = last
  BY <1>1 DEF Item
<1>5. first \subseteq Facts(lib) /\ CcMsgType(types) \subseteq Facts(lib) /\ last \subseteq Facts(lib)
  BY <1>3, <1>4, Stated
<1>6. ASSUME NEW t \in Range(declared) PROVE CcDeclaration(types, t).facts \subseteq Facts(lib)
  <2>1. PICK n \in 1 .. L : t = declared[n]
    BY <1>2 DEF Range
  <2>2. lib[3 + n].facts \subseteq Facts(lib)
    BY <1>3, Stated
  <2> QED
    BY <1>1, <2>1, <2>2
<1> QED
  BY <1>5, <1>6 DEF lib, first, last

\* A name that has one meaning in a set of facts.
OneMeaning(facts) == \A f, g \in facts : f.name = g.name => f = g
LEMMA OneNumbering ==
  ASSUME NEW facts, OneMeaning(facts), NEW f \in facts
  PROVE  Numbering(f.name, facts) = {f.ns}
BY DEF Numbering, OneMeaning

\* The declared types.
LEMMA DeclaredAre ==
  ASSUME NEW types, IsSeq(types)
  PROVE  /\ Range(Declared(types)) = {t \in Range(types) : t.kind \in Kinds}
         /\ \A kind \in Kinds : Range(OfKind(types, {kind})) =
              {t \in Range(Declared(types)) : t.kind = kind}
         /\ Range(Messages(types)) = {t \in Range(Declared(types)) : t.kind = "Message"}
<1>1. ASSUME NEW kinds PROVE Range(OfKind(types, kinds)) = {t \in Range(types) : t.kind \in kinds}
  BY OfKindHas
<1>2. Range(Declared(types)) = {t \in Range(types) : t.kind \in Kinds}
  BY <1>1 DEF Declared
<1>3. ASSUME NEW kind \in Kinds
      PROVE  Range(OfKind(types, {kind})) = {t \in Range(Declared(types)) : t.kind = kind}
  <2>1. Range(OfKind(types, {kind})) = {t \in Range(types) : t.kind \in {kind}}
    BY <1>1
  <2> QED
    BY <1>2, <2>1
<1>4. "Message" \in Kinds
  BY DEF Kinds
<1> QED
  BY <1>2, <1>3, <1>4 DEF Messages

\* A sequence of names, and one with another at the end.
LEMMA NamesOf ==
  ASSUME NEW ts, IsSeq(ts)
  PROVE  /\ IsSeq(NameSeq(ts)) /\ DOMAIN NameSeq(ts) = DOMAIN ts /\ Len(NameSeq(ts)) = Len(ts)
         /\ \A n \in DOMAIN ts : NameSeq(ts)[n] = ts[n].name
<1>1. DOMAIN ts = 1 .. Len(ts) /\ Len(ts) \in Nat
  BY SeqIs
<1>2. DOMAIN NameSeq(ts) = DOMAIN ts /\ \A n \in DOMAIN ts : NameSeq(ts)[n] = ts[n].name
  BY DEF NameSeq
<1>3. NameSeq(ts) = [n \in 1 .. Len(ts) |-> NameSeq(ts)[n]]
  BY <1>1 DEF NameSeq
<1> DEFINE s == NameSeq(ts)
           c == Len(ts)
<1> HIDE DEF s, c
<1>4. s = [n \in 1 .. c |-> s[n]] /\ c \in Nat
  BY <1>1, <1>3 DEF s, c
<1>5. IsSeq(s) /\ Len(s) = c
  BY <1>4, FunctionIsSeq
<1> QED
  BY <1>2, <1>5 DEF s, c

LEMMA NamesAppended ==
  ASSUME NEW ts, IsSeq(ts), NEW name
  PROVE  LET names == Append(NameSeq(ts), name)
         IN  /\ IsSeq(names) /\ Len(names) = Len(ts) + 1 /\ DOMAIN names = 1 .. (Len(ts) + 1)
             /\ \A n \in DOMAIN ts : n \in DOMAIN names /\ names[n] = ts[n].name
             /\ names[Len(ts) + 1] = name
<1> DEFINE s == NameSeq(ts)
<1>1. IsSeq(s) /\ Len(s) = Len(ts) /\ \A n \in DOMAIN ts : s[n] = ts[n].name
  BY NamesOf
<1>2. DOMAIN ts = 1 .. Len(ts) /\ Len(ts) \in Nat
  BY SeqIs
<1> HIDE DEF s
<1>3. /\ IsSeq(Append(s, name)) /\ Len(Append(s, name)) = Len(s) + 1
      /\ DOMAIN Append(s, name) = 1 .. (Len(s) + 1)
      /\ \A i \in 1 .. Len(s) : Append(s, name)[i] = s[i]
      /\ Append(s, name)[Len(s) + 1] = name
  BY <1>1, AppendIs
<1>4. \A n \in DOMAIN ts : n \in 1 .. (Len(ts) + 1)
  BY <1>2
<1> QED
  BY <1>1, <1>2, <1>3, <1>4 DEF s

-----------------------------------------------------------------------------
LEMMA EnumeratorIn ==
  ASSUME NEW name, NEW values, NEW n \in DOMAIN values
  PROVE  Fact("constant", <<"k" \o name \o values[n]>>, name, <<n - 1>>) \in CEnum(name, values)
<1> DEFINE at(i) == Fact("constant", <<"k" \o name \o values[i]>>, name, <<i - 1>>)
<1>1. CEnumerators(name, values) = {at(i) : i \in DOMAIN values}
  BY DEF CEnumerators
<1> HIDE DEF at
<1>2. at(n) \in CEnumerators(name, values)
  BY <1>1
<1>3. CEnumerators(name, values) \subseteq CEnum(name, values)
  <2> HIDE DEF at
  <2> QED
    BY DEF CEnum
<1> QED
  BY <1>2, <1>3 DEF at

LEMMA NumberedIn ==
  ASSUME NEW scope, NEW names, NEW n \in DOMAIN names
  PROVE  /\ Fact("constant", Scoped(scope, names[n]), scope, <<n - 1>>) \in Numbered(scope, names)
         /\ Fact("constant", Scoped(scope, names[n]), scope, <<n - 1>>) \in CcEnum(scope, names)
<1> DEFINE at(i) == Fact("constant", Scoped(scope, names[i]), scope, <<i - 1>>)
<1>1. Numbered(scope, names) = {at(i) : i \in DOMAIN names}
  BY DEF Numbered
<1> HIDE DEF at
<1>2. at(n) \in Numbered(scope, names)
  BY <1>1
<1> QED
  BY <1>2 DEF at, CcEnum

\* How a library of C numbers the messages and the values.
NumberedByC(types, facts) ==
  /\ \A n \in DOMAIN Messages(types) :
       Numbering(<<"k" \o "SsMsgType" \o Messages(types)[n].name>>, facts) = {<<n - 1>>}
  /\ \A e \in Range(OfKind(types, {"Enum"})) : \A n \in DOMAIN e.fields :
       Numbering(<<"k" \o e.name \o e.fields[n].name>>, facts) = {<<n - 1>>}

LEMMA CNumbers ==
  ASSUME NEW types, IsSeq(types), NEW quoted, OneMeaning(Facts(CSource(types, quoted)))
  PROVE  NumberedByC(types, Facts(CSource(types, quoted)))
<1> DEFINE facts == Facts(CSource(types, quoted))
           messages == Messages(types)
<1>1. IsSeq(messages)
  BY OfKindHas DEF Messages
<1>2. /\ MessageTypeEnum(types) \subseteq facts
      /\ \A t \in Range(Declared(types)) : CDeclaration(types, t).facts \subseteq facts
  BY CHas
<1>3. OneMeaning(facts)
  OBVIOUS
<1> HIDE DEF facts
<1>4. ASSUME NEW n \in DOMAIN messages
      PROVE  Numbering(<<"k" \o "SsMsgType" \o messages[n].name>>, facts) = {<<n - 1>>}
  <2> DEFINE names == Append(NameSeq(messages), "Unknown")
             f == Fact("constant", <<"k" \o "SsMsgType" \o names[n]>>, "SsMsgType", <<n - 1>>)
  <2>1. n \in DOMAIN names /\ names[n] = messages[n].name
    <3> HIDE DEF messages
    <3> QED
      BY <1>1, NamesAppended
  <2>2. MessageTypeEnum(types) = CEnum("SsMsgType", names)
    BY DEF MessageTypeEnum
  <2> HIDE DEF names
  <2>3. f \in facts
    BY <1>2, <2>1, <2>2, EnumeratorIn
  <2>4. f.name = <<"k" \o "SsMsgType" \o messages[n].name>> /\ f.ns = <<n - 1>>
    BY <2>1 DEF Fact
  <2> HIDE DEF f, messages
  <2>5. Numbering(f.name, facts) = {f.ns}
    BY <1>3, <2>3, OneNumbering
  <2> QED
    BY <2>4, <2>5
<1>5. ASSUME NEW e \in Range(OfKind(types, {"Enum"})), NEW n \in DOMAIN e.fields
      PROVE  Numbering(<<"k" \o e.name \o e.fields[n].name>>, facts) = {<<n - 1>>}
  <2> DEFINE names == NameSeq(e.fields)
             f == Fact("constant", <<"k" \o e.name \o names[n]>>, e.name, <<n - 1>>)
  <2>1. n \in DOMAIN names /\ names[n] = e.fields[n].name
    BY DEF NameSeq
  <2>2. e \in Range(Declared(types)) /\ e.kind = "Enum"
    <3>1. "Enum" \in Kinds
      BY DEF Kinds
    <3> QED
      BY <3>1, DeclaredAre
  <2>3. CDeclaration(types, e).facts = CEnum(e.name, names)
    BY <2>2 DEF CDeclaration, Item
  <2> HIDE DEF names
  <2>4. f \in facts
    BY <1>2, <2>1, <2>2, <2>3, EnumeratorIn
  <2>5. f.name = <<"k" \o e.name \o e.fields[n].name>> /\ f.ns = <<n - 1>>
    BY <2>1 DEF Fact
  <2> HIDE DEF f
  <2>6. Numbering(f.name, facts) = {f.ns}
    BY <1>3, <2>4, OneNumbering
  <2> QED
    BY <2>5, <2>6
<1> QED
  BY <1>4, <1>5 DEF facts, NumberedByC

LEMMA CcNumbers ==
  ASSUME NEW types, IsSeq(types), OneMeaning(Facts(CcSource(types)))
  PROVE  LET facts == Facts(CcSource(types))
             messages == Messages(types)
         IN  /\ \A n \in DOMAIN messages :
                  /\ Numbering(Scoped("MsgType", messages[n].name), facts) = {<<n - 1>>}
                  /\ Numbering(Scoped(messages[n].name, "kPackedSize"), facts)
                       = {<<PackedSize(types, messages[n])>>}
             /\ \A e \in Range(OfKind(types, {"Enum"})) : \A n \in DOMAIN e.fields :
                  Numbering(Scoped(e.name, e.fields[n].name), facts) = {<<n - 1>>}
<1> DEFINE facts == Facts(CcSource(types))
           messages == Messages(types)
<1>1. IsSeq(messages)
  BY OfKindHas DEF Messages
<1>2. /\ CcMsgType(types) \subseteq facts
      /\ \A t \in Range(Declared(types)) : CcDeclaration(types, t).facts \subseteq facts
  BY CcHas
<1>3. OneMeaning(facts)
  OBVIOUS
<1> HIDE DEF facts
<1>4. ASSUME NEW n \in DOMAIN messages
      PROVE  Numbering(Scoped("MsgType", messages[n].name), facts) = {<<n - 1>>}
  <2> DEFINE names == Append(NameSeq(messages), "Unknown")
             f == Fact("constant", Scoped("MsgType", names[n]), "MsgType", <<n - 1>>)
  <2>1. n \in DOMAIN names /\ names[n] = messages[n].name
    <3> HIDE DEF messages
    <3> QED
      BY <1>1, NamesAppended
  <2>2. CcMsgType(types) = CcEnum("MsgType", names)
    BY DEF CcMsgType
  <2> HIDE DEF names
  <2>3. f \in facts
    BY <1>2, <2>1, <2>2, NumberedIn
  <2>4. f.name = Scoped("MsgType", messages[n].name) /\ f.ns = <<n - 1>>
    BY <2>1 DEF Fact
  <2> HIDE DEF f, messages
  <2>5. Numbering(f.name, facts) = {f.ns}
    BY <1>3, <2>3, OneNumbering
  <2> QED
    BY <2>4, <2>5
<1>5. ASSUME NEW n \in DOMAIN messages
      PROVE  Numbering(Scoped(messages[n].name, "kPackedSize"), facts)
               = {<<PackedSize(types, messages[n])>>}
  <2> DEFINE m == messages[n]
             f == Fact("constant", Scoped(m.name, "kPackedSize"), "size_t", <<PackedSize(types, m)>>)
  <2>1. m \in Range(messages)
    BY DEF Range
  <2>2. m \in Range(Declared(types)) /\ m.kind = "Message"
    <3> HIDE DEF m
    <3> QED
      BY <2>1, DeclaredAre
  <2> HIDE DEF m
  <2>3. CcDeclaration(types, m).facts = MessageFacts(types, m)
    BY <2>2 DEF CcDeclaration, Item
  <2>4. f \in MessageFacts(types, m)
    BY DEF MessageFacts, Constants
  <2>5. f \in facts
    BY <1>2, <2>2, <2>3, <2>4
  <2>6. f.name = Scoped(m.name, "kPackedSize") /\ f.ns = <<PackedSize(types, m)>>
    BY DEF Fact
  <2> HIDE DEF f
  <2>7. Numbering(f.name, facts) = {f.ns}
    BY <1>3, <2>5, OneNumbering
  <2> QED
    BY <2>6, <2>7 DEF m
<1>6. ASSUME NEW e \in Range(OfKind(types, {"Enum"})), NEW n \in DOMAIN e.fields
      PROVE  Numbering(Scoped(e.name, e.fields[n].name), facts) = {<<n - 1>>}
  <2> DEFINE names == NameSeq(e.fields)
             f == Fact("constant", Scoped(e.name, names[n]), e.name, <<n - 1>>)
  <2>1. n \in DOMAIN names /\ names[n] = e.fields[n].name
    BY DEF NameSeq
  <2>2. e \in Range(Declared(types)) /\ e.kind = "Enum"
    <3>1. "Enum" \in Kinds
      BY DEF Kinds
    <3> QED
      BY <3>1, DeclaredAre
  <2>3. CcDeclaration(types, e).facts = CcEnum(e.name, names)
    BY <2>2 DEF CcDeclaration, Item
  <2> HIDE DEF names
  <2>4. f \in facts
    BY <1>2, <2>1, <2>2, <2>3, NumberedIn
  <2>5. f.name = Scoped(e.name, e.fields[n].name) /\ f.ns = <<n - 1>>
    BY <2>1 DEF Fact
  <2> HIDE DEF f
  <2>6. Numbering(f.name, facts) = {f.ns}
    BY <1>3, <2>4, OneNumbering
  <2> QED
    BY <2>5, <2>6
<1> QED
  BY <1>4, <1>5, <1>6 DEF facts

-----------------------------------------------------------------------------
LEMMA ScopedIs ==
  ASSUME NEW a, NEW b, NEW c, NEW e, Scoped(a, b) = Scoped(c, e)
  PROVE  a = c /\ b = e
BY DEF Scoped

LEMMA ScopedNot ==
  ASSUME NEW a, NEW b, NEW c
  PROVE  Scoped(a, b) # <<c>>
BY DEF Scoped

LEMMA TypeIs ==
  ASSUME NEW name
  PROVE  Type(name).name = <<name>> /\ Type(name).kind = "type" /\ Type(name).ns = <<>>
BY Zenon DEF Type, Fact

\* A name that the module sets.
Global(g) == Fact("global", <<g>>, "", <<>>)
LEMMA GlobalIs ==
  ASSUME NEW g
  PROVE  Global(g).name = <<g>> /\ Global(g).kind = "global"
BY Zenon DEF Global, Fact

\* The facts of the class of a type.
LEMMA PyClassIs ==
  ASSUME NEW types, NEW t, t.kind \in Kinds
  PROVE  /\ t.kind = "Enum" => PyClass(types, t) = {Type(t.name)} \cup PyEnum(t)
         /\ t.kind = "Bitfield" => PyClass(types, t) = {Type(t.name)} \cup PyBitfield(t)
         /\ t.kind = "Struct" => PyClass(types, t) = {Type(t.name)} \cup PyStructure(types, t)
         /\ t.kind = "Message" => PyClass(types, t) = {Type(t.name)} \cup PyMessage(types, t)
BY DEF Kinds, PyClass

LEMMA PyNames ==
  ASSUME NEW types, NEW t, t.kind \in Kinds, NEW x \in PyClass(types, t)
  PROVE  x.name = <<t.name>> \/ \E a : x.name = Scoped(t.name, a)
<1>1. \/ x = Type(t.name)
      \/ t.kind = "Enum" /\ x \in PyEnum(t)
      \/ t.kind = "Bitfield" /\ x \in PyBitfield(t)
      \/ t.kind = "Struct" /\ x \in PyStructure(types, t)
      \/ t.kind = "Message" /\ x \in PyMessage(types, t)
  BY PyClassIs DEF Kinds
<1>2. CASE x = Type(t.name)
  BY <1>2, TypeIs
<1>3. CASE x \in PyEnum(t)
  BY <1>3 DEF PyEnum, PyBase, PyOwn, PyMember, Fact
<1>4. CASE x \in PyBitfield(t)
  BY <1>4 DEF PyBitfield, PyBase, PyMember, Fact
<1>5. ASSUME x \in PyStructure(types, t)
      PROVE  x.name = <<t.name>> \/ \E a : x.name = Scoped(t.name, a)
  BY <1>5 DEF PyStructure, PyBase, PyMember, Fact
<1>6. CASE x \in PyMessage(types, t)
  <2>1. x \in PyStructure(types, t) \/ x \in PyMessageOwn(types, t)
    BY <1>6 DEF PyMessage
  <2>2. CASE x \in PyMessageOwn(types, t)
    BY <2>2 DEF PyMessageOwn, PyOwn, Fact
  <2> QED
    BY <1>5, <2>1, <2>2
<1> QED
  BY <1>1, <1>2, <1>3, <1>4, <1>5, <1>6

\* The classes of a module, and what has a name of two parts.
LEMMA PyModuleIs ==
  ASSUME NEW types, IsSeq(types)
  PROVE  /\ \A t \in Range(Declared(types)) :
              t.name \notin PyGlobals => PyClass(types, t) \subseteq PyModule(types)
         /\ PyMsgList(types) \subseteq PyModule(types)
         /\ \A g \in PyGlobals : Global(g) \in PyModule(types)
         /\ \A x \in PyModule(types) :
              \/ \E t \in Range(Declared(types)) : t.name \notin PyGlobals /\ x \in PyClass(types, t)
              \/ \E g \in PyGlobals : x = Global(g)
              \/ x \in PyMsgList(types)
<1> DEFINE D == {d \in Range(Declared(types)) : d.name \notin PyGlobals}
           classes == UNION {PyClass(types, t) : t \in D}
           globals == {Global(g) : g \in PyGlobals}
<1>1. PyModule(types) = classes \cup globals \cup PyMsgList(types)
  BY DEF PyModule, Global
<1>2. \A x : x \in classes <=> \E t \in D : x \in PyClass(types, t)
  OBVIOUS
<1>3. \A x : x \in globals <=> \E g \in PyGlobals : x = Global(g)
  OBVIOUS
<1> HIDE DEF classes, globals
<1> QED
  BY <1>1, <1>2, <1>3

LEMMA PyScoped ==
  ASSUME NEW types, IsSeq(types), NEW x \in PyModule(types), NEW a, NEW b, x.name = Scoped(a, b)
  PROVE  \/ \E t \in Range(Declared(types)) : t.name = a /\ a \notin PyGlobals /\ x \in PyClass(types, t)
         \/ a = "unpack_message" /\ x \in PyMsgList(types)
<1>1. CASE \E t \in Range(Declared(types)) : t.name \notin PyGlobals /\ x \in PyClass(types, t)
  <2>1. PICK t \in Range(Declared(types)) : t.name \notin PyGlobals /\ x \in PyClass(types, t)
    BY <1>1
  <2>2. t.kind \in Kinds
    BY DeclaredAre
  <2>3. x.name = <<t.name>> \/ \E c : x.name = Scoped(t.name, c)
    BY <2>1, <2>2, PyNames
  <2>4. t.name = a
    BY <2>3 DEF Scoped
  <2> QED
    BY <2>1, <2>4
<1>2. CASE \E g \in PyGlobals : x = Global(g)
  <2>1. PICK g \in PyGlobals : x = Global(g)
    BY <1>2
  <2>2. x.name = <<g>>
    BY <2>1, GlobalIs
  <2> QED
    BY <2>2, ScopedNot
<1>3. CASE x \in PyMsgList(types)
  <2>1. PICK n \in DOMAIN NameSeq(Messages(types)) :
          x = Fact("constant", Scoped("unpack_message", NameSeq(Messages(types))[n]),
                   "unpack_message", <<n - 1>>)
    BY <1>3 DEF PyMsgList, Numbered
  <2>2. x.name = Scoped("unpack_message", NameSeq(Messages(types))[n])
    BY <2>1, FactIs
  <2> QED
    BY <1>3, <2>2, ScopedIs
<1> QED
  BY <1>1, <1>2, <1>3, PyModuleIs

LEMMA PyNumbers ==
  ASSUME NEW types, IsSeq(types), Distinct(types), \A t \in Range(types) : Distinct(t.fields)
  PROVE  LET facts == PyModule(types)
             messages == Messages(types)
         IN  /\ \A n \in DOMAIN messages :
                  Numbering(Scoped("unpack_message", messages[n].name), facts) = {<<n - 1>>}
             /\ \A m \in Range(messages) : m.name \notin PyGlobals /\ "packed_size" \notin Names(m.fields) =>
                  Numbering(Scoped(m.name, "packed_size"), facts) = {<<PackedSize(types, m)>>}
             /\ \A e \in Range(OfKind(types, {"Enum"})) : \A n \in DOMAIN e.fields :
                  e.name \notin PyGlobals /\ e.fields[n].name \notin PyEnumAttribute =>
                    Numbering(Scoped(e.name, e.fields[n].name), facts) = {<<n - 1>>}
<1> DEFINE facts == PyModule(types)
           messages == Messages(types)
<1>1. "unpack_message" \in PyGlobals
  BY DEF PyGlobals
<1>2. IsSeq(messages) /\ Distinct(messages)
  BY OfKindHas DEF Messages
<1>3. ASSUME NEW t \in Range(Declared(types)), NEW u \in Range(Declared(types)), t.name = u.name
      PROVE  t = u
  <2>1. t \in Range(types) /\ u \in Range(types)
    BY DeclaredAre
  <2> QED
    BY <1>3, <2>1 DEF Range, Distinct
<1>4. ASSUME NEW n \in DOMAIN messages
      PROVE  Numbering(Scoped("unpack_message", messages[n].name), facts) = {<<n - 1>>}
  <2> DEFINE name == Scoped("unpack_message", messages[n].name)
             names == NameSeq(messages)
             at(i) == Fact("constant", Scoped("unpack_message", names[i]), "unpack_message", <<i - 1>>)
  <2>1. DOMAIN names = DOMAIN messages /\ \A i \in DOMAIN messages : names[i] = messages[i].name
    BY DEF NameSeq
  <2>2. PyMsgList(types) = {at(i) : i \in DOMAIN names}
    BY DEF PyMsgList, Numbered
  <2>3. \A i : at(i).name = Scoped("unpack_message", names[i]) /\ at(i).ns = <<i - 1>>
    BY FactIs
  <2> HIDE DEF at, names
  <2>4. at(n) \in facts /\ at(n).name = name /\ at(n).ns = <<n - 1>>
    BY <2>1, <2>2, <2>3, PyModuleIs
  <2>5. ASSUME NEW x \in facts, x.name = name PROVE x.ns = <<n - 1>>
    <3>1. x \in PyMsgList(types)
      BY <1>1, <2>5, PyScoped
    <3>2. PICK i \in DOMAIN messages : x = at(i)
      BY <2>1, <2>2, <3>1
    <3>3. messages[i].name = messages[n].name
      BY <2>1, <2>3, <2>5, <3>2, ScopedIs
    <3>4. i = n
      BY <1>2, <3>3 DEF Distinct
    <3> QED
      BY <2>3, <3>2, <3>4
  <2> HIDE DEF name, facts
  <2>6. Numbering(name, facts) = {<<n - 1>>}
    BY <2>4, <2>5 DEF Numbering
  <2> QED
    BY <2>6 DEF name, facts
<1>5. ASSUME NEW m \in Range(messages), m.name \notin PyGlobals, "packed_size" \notin Names(m.fields)
      PROVE  Numbering(Scoped(m.name, "packed_size"), facts) = {<<PackedSize(types, m)>>}
  <2> DEFINE name == Scoped(m.name, "packed_size")
             f == PyOwn(m, "packed_size", "int", <<PackedSize(types, m)>>)
  <2>1. m \in Range(Declared(types)) /\ m.kind = "Message" /\ m.kind \in Kinds
    BY DeclaredAre
  <2>2. f.name = name /\ f.ns = <<PackedSize(types, m)>>
    BY FactIs DEF PyOwn
  <2>3. PyClass(types, m) = {Type(m.name)} \cup PyMessage(types, m)
    BY <2>1, PyClassIs
  <2>4. \A g \in Range(m.fields) : g.name # "packed_size"
    BY <1>5 DEF Names, Range
  <2> HIDE DEF f
  <2>5. ~PyHidden(m, f)
    BY <2>2, <2>4, ScopedIs DEF PyHidden
  <2>6. f \in facts
    <3>1. f \in PyMessageOwn(types, m)
      BY DEF PyMessageOwn, f
    <3>2. f \in PyClass(types, m)
      BY <2>3, <2>5, <3>1 DEF PyMessage
    <3> QED
      BY <1>5, <2>1, <3>2, PyModuleIs
  <2>7. ASSUME NEW x \in facts, x.name = name PROVE x.ns = <<PackedSize(types, m)>>
    <3>1. PICK t \in Range(Declared(types)) : t.name = m.name /\ x \in PyClass(types, t)
      BY <1>1, <1>5, <2>7, PyScoped
    <3>2. t = m
      BY <1>3, <2>1, <3>1
    <3>3. x # Type(m.name)
      <4>1. Type(m.name).name = <<m.name>>
        BY TypeIs
      <4> QED
        BY <2>7, <4>1, ScopedNot
    <3>4. x \in PyStructure(types, m) \/ x \in PyMessageOwn(types, m)
      BY <2>3, <3>1, <3>2, <3>3 DEF PyMessage
    <3>5. ASSUME x \in PyStructure(types, m) PROVE FALSE
      <4>1. x.name = <<m.name>> \/ \E g \in Range(m.fields) : x.name = Scoped(m.name, g.name)
        BY <3>5 DEF PyStructure, PyBase, PyMember, Fact
      <4> QED
        BY <2>4, <2>7, <4>1, ScopedIs, ScopedNot
    <3>6. \/ x = f
          \/ \E p \in {"get_buffer", "unpack", "pack"} : x = PyOwn(m, p, "method", <<>>)
      BY <3>4, <3>5 DEF PyMessageOwn, f
    <3>7. ASSUME NEW p \in {"get_buffer", "unpack", "pack"}, x = PyOwn(m, p, "method", <<>>)
          PROVE  FALSE
      <4>1. x.name = Scoped(m.name, p)
        BY <3>7, FactIs DEF PyOwn
      <4> QED
        BY <2>7, <4>1, ScopedIs
    <3> QED
      BY <2>2, <3>6, <3>7
  <2> HIDE DEF name, facts
  <2>8. Numbering(name, facts) = {<<PackedSize(types, m)>>}
    BY <2>2, <2>6, <2>7 DEF Numbering
  <2> QED
    BY <2>8 DEF name, facts
<1>6. ASSUME NEW e \in Range(OfKind(types, {"Enum"})), NEW n \in DOMAIN e.fields,
             e.name \notin PyGlobals, e.fields[n].name \notin PyEnumAttribute
      PROVE  Numbering(Scoped(e.name, e.fields[n].name), facts) = {<<n - 1>>}
  <2> DEFINE name == Scoped(e.name, e.fields[n].name)
             D == {i \in DOMAIN e.fields : e.fields[i].name \notin PyEnumAttribute}
             at(i) == PyMember(e, e.fields[i].name, e.name, <<i - 1>>)
  <2>1. e \in Range(Declared(types)) /\ e.kind = "Enum" /\ e.kind \in Kinds
    <3>1. "Enum" \in Kinds
      BY DEF Kinds
    <3> QED
      BY <3>1, DeclaredAre
  <2>2. PyClass(types, e) = {Type(e.name)} \cup PyEnum(e)
    BY <2>1, PyClassIs
  <2>3. PyEnum(e) = {PyBase(e, "ctypes.c_int", <<>>), PyOwn(e, "name", "str", <<>>),
                     PyOwn(e, "is_valid", "method", <<>>)} \cup {at(i) : i \in D}
    BY DEF PyEnum
  <2>4. \A i : at(i).name = Scoped(e.name, e.fields[i].name) /\ at(i).ns = <<i - 1>>
    BY FactIs DEF PyMember
  <2>5. Distinct(e.fields)
    BY <2>1, DeclaredAre
  <2> HIDE DEF at
  <2>6. at(n) \in facts
    <3>1. at(n) \in PyClass(types, e)
      BY <1>6, <2>2, <2>3
    <3> QED
      BY <1>6, <2>1, <3>1, PyModuleIs
  <2>7. ASSUME NEW x \in facts, x.name = name PROVE x.ns = <<n - 1>>
    <3>1. PICK t \in Range(Declared(types)) : t.name = e.name /\ x \in PyClass(types, t)
      BY <1>1, <1>6, <2>7, PyScoped
    <3>2. t = e
      BY <1>3, <2>1, <3>1
    <3>3. x # Type(e.name) /\ x # PyBase(e, "ctypes.c_int", <<>>)
      BY <2>7, TypeIs, FactIs, ScopedNot DEF PyBase
    <3>4. ASSUME NEW p \in PyEnumAttribute, NEW is, x = PyOwn(e, p, is, <<>>) PROVE FALSE
      <4>1. x.name = Scoped(e.name, p)
        BY <3>4, FactIs DEF PyOwn
      <4> QED
        BY <1>6, <2>7, <4>1 DEF Scoped
    <3>5. x # PyOwn(e, "name", "str", <<>>) /\ x # PyOwn(e, "is_valid", "method", <<>>)
      <4>1. "name" \in PyEnumAttribute /\ "is_valid" \in PyEnumAttribute
        BY AttributeAssumption DEF AttributeAssumption
      <4> QED
        BY <3>4, <4>1
    <3>6. PICK i \in D : x = at(i)
      BY <2>2, <2>3, <3>1, <3>2, <3>3, <3>5
    <3>7. e.fields[i].name = e.fields[n].name
      BY <2>4, <2>7, <3>6, ScopedIs
    <3>8. i = n
      BY <2>5, <3>7 DEF Distinct
    <3> QED
      BY <2>4, <3>6, <3>8
  <2>8. at(n).name = name /\ at(n).ns = <<n - 1>>
    BY <2>4
  <2> HIDE DEF name, facts
  <2>9. Numbering(name, facts) = {<<n - 1>>}
    BY <2>6, <2>7, <2>8 DEF Numbering
  <2> QED
    BY <2>9 DEF name, facts
<1> QED
  BY <1>4, <1>5, <1>6 DEF facts

-----------------------------------------------------------------------------
LEMMA UsableHas ==
  ASSUME NEW types, Usable(types)
  PROVE  /\ IsSeq(types) /\ Distinct(types)
         /\ \A t \in Range(types) : Distinct(t.fields) /\ IsSeq(t.fields)
<1>1. IsSeq(types) /\ DOMAIN types = 1 .. Len(types)
  BY SeqIs DEF Usable, AllReady
<1>2. \A n \in DOMAIN types : Distinct(types[n].fields) /\ IsSeq(types[n].fields)
  BY <1>1 DEF Usable, TypeUsable, AllReady, ReadyType
<1> QED
  BY <1>1, <1>2 DEF Usable, Range

\* The types of a specification under two alias tags.
LEMMA Twins ==
  ASSUME NEW s \in SpecFile, WellFormed(s), NEW t, NEW u, NEW d
  PROVE  LET a == Meaning(s, t, d)
             b == Meaning(s, u, d)
         IN  /\ NameSeq(Messages(b)) = NameSeq(Messages(a))
             /\ \A kinds : \A x \in Range(OfKind(a, kinds)) : \E y \in Range(OfKind(b, kinds)) :
                  Alike(x, y) /\ PackedSize(b, y) = PackedSize(a, x)
<1> DEFINE a == Meaning(s, t, d)
           b == Meaning(s, u, d)
           N == NumBuiltins + Len(s)
<1>1. /\ IsSeq(s) /\ N \in Nat /\ \A m \in 1 .. Len(s) : Len(s[m].items) \in Nat
  BY SpecIs, BuiltinsAre
<1>2. DOMAIN a = 1 .. N /\ DOMAIN b = 1 .. N /\ IsSeq(a) /\ IsSeq(b)
  BY <1>1, MeaningIs
<1>3. \A n \in 1 .. N : Alike(a[n], b[n])
  BY <1>1, TagsAlike
<1>4. Usable(a) /\ Usable(b)
  BY FileUsable
<1> HIDE DEF a, b, N
<1>5. \A n \in 1 .. N : b[n].name = a[n].name /\ b[n].kind = a[n].kind
  BY <1>3 DEF Alike
<1>6. NameSeq(Messages(b)) = NameSeq(Messages(a))
  BY <1>1, <1>2, <1>5, OfKindAlike DEF Messages
<1>7. Sizes(b) = Sizes(a)
  <2>1. \A n \in 1 .. N : IsSeq(a[n].fields) /\ IsSeq(b[n].fields)
    BY <1>2, <1>4, UsableHas DEF Range
  <2> QED
    BY <1>1, <1>2, <1>3, <2>1, SizesAlike
<1>8. ASSUME NEW kinds, NEW x \in Range(OfKind(a, kinds))
      PROVE  \E y \in Range(OfKind(b, kinds)) : Alike(x, y) /\ PackedSize(b, y) = PackedSize(a, x)
  <2>1. x \in Range(a) /\ x.kind \in kinds
    BY <1>2, OfKindHas
  <2>2. PICK n \in 1 .. N : x = a[n]
    BY <1>2, <2>1 DEF Range
  <2>3. b[n] \in Range(b) /\ b[n].kind \in kinds /\ Alike(x, b[n]) /\ b[n].name = x.name
    BY <1>2, <1>3, <1>5, <2>1, <2>2 DEF Range
  <2>4. b[n] \in Range(OfKind(b, kinds))
    BY <1>2, <2>3, OfKindHas
  <2>5. IndexOf(b, x.name) = IndexOf(a, x.name)
    <3>1. DOMAIN b = DOMAIN a /\ \A i \in DOMAIN b : b[i].name = a[i].name
      BY <1>2, <1>5
    <3> QED
      BY ONLY <3>1, SamePlace
  <2>6. PackedSize(b, b[n]) = PackedSize(a, x)
    BY <1>7, <2>3, <2>5 DEF PackedSize
  <2> QED
    BY <2>3, <2>4, <2>6
<1> QED
  BY <1>6, <1>8 DEF a, b

LEMMA MacroIs ==
  ASSUME NEW types, NEW m
  PROVE  PackedSizeMacro(types, m).ns = <<PackedSize(types, m)>>
BY Zenon DEF PackedSizeMacro, Fact

\* What two libraries of a specification agree on.
LEMMA TwinMessages ==
  ASSUME NEW a, NEW b, IsSeq(a), IsSeq(b), NameSeq(Messages(b)) = NameSeq(Messages(a)),
         NEW n \in DOMAIN Messages(a)
  PROVE  n \in DOMAIN Messages(b) /\ Messages(b)[n].name = Messages(a)[n].name
<1> DEFINE p == Messages(a)  q == Messages(b)
<1>1. IsSeq(p) /\ IsSeq(q)
  BY OfKindHas DEF Messages
<1> HIDE DEF p, q
<1>2. /\ DOMAIN NameSeq(p) = DOMAIN p /\ DOMAIN NameSeq(q) = DOMAIN q
      /\ \A i \in DOMAIN p : NameSeq(p)[i] = p[i].name
      /\ \A i \in DOMAIN q : NameSeq(q)[i] = q[i].name
  BY <1>1, NamesOf
<1> QED
  BY <1>2 DEF p, q

LEMMA PyAgrees ==
  ASSUME NEW s \in SpecFile, WellFormed(s), NEW t, NEW u, NEW d, NEW quoted,
         Compiles(CSource(Meaning(s, t, d), quoted))
  PROVE  LET types == Meaning(s, t, d)
             facts == Facts(CSource(types, quoted))
             text == PyModule(Meaning(s, u, d))
         IN  /\ Finds(types, facts)
             /\ NumbersAlike(types, facts, text, "unpack_message", "packed_size", PyGlobals,
                             PyEnumAttribute)
<1> DEFINE a == Meaning(s, t, d)
           b == Meaning(s, u, d)
           facts == Facts(CSource(a, quoted))
           text == PyModule(b)
<1>1. Usable(a) /\ Usable(b)
  BY FileUsable
<1>2. /\ NameSeq(Messages(b)) = NameSeq(Messages(a))
      /\ \A kinds : \A x \in Range(OfKind(a, kinds)) : \E y \in Range(OfKind(b, kinds)) :
           Alike(x, y) /\ PackedSize(b, y) = PackedSize(a, x)
  BY Twins
<1>3. OneMeaning(facts)
  BY DEF Compiles, OneMeaning
<1> HIDE DEF a, b
<1>4. /\ IsSeq(a) /\ IsSeq(b) /\ Distinct(b) /\ \A x \in Range(b) : Distinct(x.fields)
  BY <1>1, UsableHas
<1>5. NumberedByC(a, facts)
  BY <1>3, <1>4, CNumbers
<1>6. /\ \A n \in DOMAIN Messages(b) :
           Numbering(Scoped("unpack_message", Messages(b)[n].name), text) = {<<n - 1>>}
      /\ \A m \in Range(Messages(b)) : m.name \notin PyGlobals /\ "packed_size" \notin Names(m.fields) =>
           Numbering(Scoped(m.name, "packed_size"), text) = {<<PackedSize(b, m)>>}
      /\ \A e \in Range(OfKind(b, {"Enum"})) : \A n \in DOMAIN e.fields :
           e.name \notin PyGlobals /\ e.fields[n].name \notin PyEnumAttribute =>
             Numbering(Scoped(e.name, e.fields[n].name), text) = {<<n - 1>>}
  BY <1>4, PyNumbers
<1>7. /\ \A m \in Range(Messages(a)) : LogFact(m) \in facts /\ PackFacts(m) \subseteq facts
      /\ Helpers \subseteq facts
  BY <1>4, CHas
<1> HIDE DEF facts, text
<1>8. ASSUME NEW p \in PyLooksUp(a) PROVE \E g \in facts : g.kind = "function" /\ g.name = <<p>>
  <2>1. \/ p \in {"SsInspectHeader", "SsWriteLogHeader", "SsFindLogDelimiter"}
        \/ \E m \in Range(Messages(a)) : p \in PackNames(m) \/ p = "SsLog" \o m.name
    BY DEF PyLooksUp
  <2>2. ASSUME NEW is, Function(p, is) \in facts
        PROVE  \E g \in facts : g.kind = "function" /\ g.name = <<p>>
    <3>1. Function(p, is).kind = "function" /\ Function(p, is).name = <<p>>
      BY FactIs DEF Function
    <3> QED
      BY <2>2, <3>1
  <2>3. CASE p \in {"SsInspectHeader", "SsWriteLogHeader", "SsFindLogDelimiter"}
    <3>1. Function(p, "void") \in Helpers
      BY <2>3 DEF Helpers
    <3> QED
      BY <1>7, <2>2, <3>1
  <2>4. CASE \E m \in Range(Messages(a)) : p \in PackNames(m) \/ p = "SsLog" \o m.name
    <3>1. PICK m \in Range(Messages(a)) : p \in PackNames(m) \/ p = "SsLog" \o m.name
      BY <2>4
    <3>2. CASE p \in PackNames(m)
      <4>1. Function(p, CTypeName(m.name)) \in PackFacts(m)
        BY <3>2 DEF PackFacts
      <4> QED
        BY <1>7, <2>2, <4>1
    <3>3. CASE p = "SsLog" \o m.name
      <4>1. Function(p, m.name) = LogFact(m)
        BY <3>3 DEF LogFact
      <4> QED
        BY <1>7, <2>2, <4>1
    <3> QED
      BY <3>1, <3>2, <3>3
  <2> QED
    BY <2>1, <2>3, <2>4
<1>9. ASSUME NEW m \in Range(Messages(a))
      PROVE  Numbering(Scoped("unpack_message", m.name), text)
               = Numbering(<<"k" \o "SsMsgType" \o m.name>>, facts)
  <2>1. PICK n \in DOMAIN Messages(a) : m = Messages(a)[n]
    BY DEF Range
  <2>2. n \in DOMAIN Messages(b) /\ Messages(b)[n].name = m.name
    BY <1>2, <1>4, <2>1, TwinMessages
  <2>3. Numbering(Scoped("unpack_message", m.name), text) = {<<n - 1>>}
    BY <1>6, <2>2
  <2>4. Numbering(<<"k" \o "SsMsgType" \o m.name>>, facts) = {<<n - 1>>}
    BY <1>5, <2>1 DEF NumberedByC
  <2> QED
    BY <2>3, <2>4
<1>10. ASSUME NEW m \in Range(Messages(a)), m.name \notin PyGlobals, "packed_size" \notin Names(m.fields)
       PROVE  Numbering(Scoped(m.name, "packed_size"), text) = {PackedSizeMacro(a, m).ns}
  <2>1. PICK y \in Range(Messages(b)) : Alike(m, y) /\ PackedSize(b, y) = PackedSize(a, m)
    BY <1>2 DEF Messages
  <2>2. y.name = m.name /\ Names(y.fields) = Names(m.fields)
    BY <2>1 DEF Alike, Names
  <2>3. PackedSizeMacro(a, m).ns = <<PackedSize(a, m)>>
    BY MacroIs
  <2> QED
    BY <1>6, <1>10, <2>1, <2>2, <2>3
<1>11. ASSUME NEW e \in Range(OfKind(a, {"Enum"})), e.name \notin PyGlobals,
              NEW v \in Names(e.fields) \ PyEnumAttribute
       PROVE  Numbering(Scoped(e.name, v), text) = Numbering(<<"k" \o e.name \o v>>, facts)
  <2>1. PICK y \in Range(OfKind(b, {"Enum"})) : Alike(e, y)
    BY <1>2
  <2>2. PICK n \in DOMAIN e.fields : v = e.fields[n].name
    BY DEF Names
  <2>3. y.name = e.name /\ n \in DOMAIN y.fields /\ y.fields[n].name = v
    BY <2>1, <2>2 DEF Alike
  <2>4. Numbering(Scoped(e.name, v), text) = {<<n - 1>>}
    BY <1>6, <1>11, <2>3
  <2>5. Numbering(<<"k" \o e.name \o v>>, facts) = {<<n - 1>>}
    BY <1>5, <2>2 DEF NumberedByC
  <2> QED
    BY <2>4, <2>5
<1> QED
  BY <1>8, <1>9, <1>10, <1>11 DEF a, b, facts, text, Finds, NumbersAlike

LEMMA CcAgrees ==
  ASSUME NEW s \in SpecFile, WellFormed(s), NEW t, NEW u, NEW d, NEW quoted,
         Compiles(CSource(Meaning(s, t, d), quoted)), Compiles(CcSource(Meaning(s, u, d)))
  PROVE  LET types == Meaning(s, t, d)
             facts == Facts(CSource(types, quoted))
             text == Facts(CcSource(Meaning(s, u, d)))
         IN  NumbersAlike(types, facts, text, "MsgType", "kPackedSize", {}, {})
<1> DEFINE a == Meaning(s, t, d)
           b == Meaning(s, u, d)
           facts == Facts(CSource(a, quoted))
           text == Facts(CcSource(b))
<1>1. Usable(a) /\ Usable(b)
  BY FileUsable
<1>2. /\ NameSeq(Messages(b)) = NameSeq(Messages(a))
      /\ \A kinds : \A x \in Range(OfKind(a, kinds)) : \E y \in Range(OfKind(b, kinds)) :
           Alike(x, y) /\ PackedSize(b, y) = PackedSize(a, x)
  BY Twins
<1>3. OneMeaning(facts) /\ OneMeaning(text)
  BY DEF Compiles, OneMeaning
<1> HIDE DEF a, b
<1>4. IsSeq(a) /\ IsSeq(b) /\ Distinct(b)
  BY <1>1, UsableHas
<1>5. NumberedByC(a, facts)
  BY <1>3, <1>4, CNumbers
<1>6. /\ \A n \in DOMAIN Messages(b) :
           /\ Numbering(Scoped("MsgType", Messages(b)[n].name), text) = {<<n - 1>>}
           /\ Numbering(Scoped(Messages(b)[n].name, "kPackedSize"), text)
                = {<<PackedSize(b, Messages(b)[n])>>}
      /\ \A e \in Range(OfKind(b, {"Enum"})) : \A n \in DOMAIN e.fields :
           Numbering(Scoped(e.name, e.fields[n].name), text) = {<<n - 1>>}
  BY <1>3, <1>4, CcNumbers
<1> HIDE DEF facts, text
<1>7. ASSUME NEW m \in Range(Messages(a))
      PROVE  /\ Numbering(Scoped("MsgType", m.name), text)
                  = Numbering(<<"k" \o "SsMsgType" \o m.name>>, facts)
             /\ Numbering(Scoped(m.name, "kPackedSize"), text) = {PackedSizeMacro(a, m).ns}
  <2>1. PICK n \in DOMAIN Messages(a) : m = Messages(a)[n]
    BY DEF Range
  <2>2. n \in DOMAIN Messages(b) /\ Messages(b)[n].name = m.name
    BY <1>2, <1>4, <2>1, TwinMessages
  <2>3. Numbering(Scoped("MsgType", m.name), text) = {<<n - 1>>}
    BY <1>6, <2>2
  <2>4. Numbering(<<"k" \o "SsMsgType" \o m.name>>, facts) = {<<n - 1>>}
    BY <1>5, <2>1 DEF NumberedByC
  <2>5. PICK y \in Range(Messages(b)) : Alike(m, y) /\ PackedSize(b, y) = PackedSize(a, m)
    BY <1>2 DEF Messages
  <2>6. PICK l \in DOMAIN Messages(b) : y = Messages(b)[l]
    BY DEF Range
  <2>7. y.name = m.name
    BY <2>5 DEF Alike
  <2>8. Numbering(Scoped(m.name, "kPackedSize"), text) = {<<PackedSize(a, m)>>}
    BY <1>6, <2>5, <2>6, <2>7
  <2>9. PackedSizeMacro(a, m).ns = <<PackedSize(a, m)>>
    BY MacroIs
  <2> QED
    BY <2>3, <2>4, <2>8, <2>9
<1>8. ASSUME NEW e \in Range(OfKind(a, {"Enum"})), NEW v \in Names(e.fields)
      PROVE  Numbering(Scoped(e.name, v), text) = Numbering(<<"k" \o e.name \o v>>, facts)
  <2>1. PICK y \in Range(OfKind(b, {"Enum"})) : Alike(e, y)
    BY <1>2
  <2>2. PICK n \in DOMAIN e.fields : v = e.fields[n].name
    BY DEF Names
  <2>3. y.name = e.name /\ n \in DOMAIN y.fields /\ y.fields[n].name = v
    BY <2>1, <2>2 DEF Alike
  <2>4. Numbering(Scoped(e.name, v), text) = {<<n - 1>>}
    BY <1>6, <2>3
  <2>5. Numbering(<<"k" \o e.name \o v>>, facts) = {<<n - 1>>}
    BY <1>5, <2>2 DEF NumberedByC
  <2> QED
    BY <2>4, <2>5
<1> QED
  BY <1>7, <1>8 DEF a, b, facts, text, NumbersAlike

-----------------------------------------------------------------------------
\* The file that a property looks at is one that was written.
LEMMA LatestIs ==
  ASSUME IsSeq(files), FilesOK, NEW outs, NEW f \in Latest(outs)
  PROVE  FileOK(f) /\ f.out \in outs
<1>1. files # <<>> /\ f = Last(files) /\ f.out \in outs
  BY DEF Latest
<1>2. DOMAIN files = 1 .. Len(files) /\ Len(files) \in Nat /\ Len(files) # 0
  BY <1>1, SeqIs, EmptyHasNone
<1>3. Len(files) \in DOMAIN files
  BY <1>2
<1> QED
  BY <1>1, <1>3 DEF FilesOK, Last

LEMMA Agreement ==
  ASSUME IsSeq(files), FilesOK
  PROVE  LibrariesAgree
<1>1. ASSUME NEW f \in Latest({"py", "cc_source"}), NEW t \in Tag,
             Compiles(CSource(Types(f, t), Quoted(f.spec)))
      PROVE  LET types == Types(f, t)
                 facts == Facts(CSource(types, Quoted(f.spec)))
             IN  /\ f.out = "py" =>
                      /\ Finds(types, facts)
                      /\ NumbersAlike(types, facts, f.text, "unpack_message", "packed_size",
                                      PyGlobals, PyEnumAttribute)
                 /\ f.out = "cc_source" /\ f.text # <<>> /\ Compiles(f.text) =>
                      NumbersAlike(types, facts, Facts(f.text), "MsgType", "kPackedSize", {}, {})
  <2> DEFINE types == Meaning(f.spec, t, f.dict)
             mine == Meaning(f.spec, f.tag, f.dict)
             quoted == Quoted(f.spec)
             facts == Facts(CSource(types, quoted))
  <2>1. FileOK(f)
    BY LatestIs
  <2>2. /\ f.spec \in SpecFile /\ WellFormed(f.spec) /\ TextIs(f.out, mine, quoted, f.text)
        /\ Types(f, t) = types /\ Compiles(CSource(types, quoted))
    BY <1>1, <2>1 DEF FileOK, Types
  <2>3. ASSUME f.out = "py"
        PROVE  /\ Finds(types, facts)
               /\ NumbersAlike(types, facts, f.text, "unpack_message", "packed_size",
                               PyGlobals, PyEnumAttribute)
    <3>1. f.text = PyModule(mine)
      BY <2>2, <2>3 DEF TextIs, Sources
    <3> QED
      BY <2>2, <3>1, PyAgrees
  <2>4. ASSUME f.out = "cc_source", f.text # <<>>, Compiles(f.text)
        PROVE  NumbersAlike(types, facts, Facts(f.text), "MsgType", "kPackedSize", {}, {})
    <3>1. f.text = CcSource(mine)
      BY <2>2, <2>4 DEF TextIs, Sources
    <3>2. Compiles(CcSource(mine))
      BY <2>4, <3>1
    <3> QED
      BY <2>2, <3>1, <3>2, CcAgrees
  <2> HIDE DEF types
  <2> QED
    BY <2>2, <2>3, <2>4
<1> QED
  BY <1>1 DEF LibrariesAgree

\* The libraries that the generators write of one specification agree: Python, which
\* calls the C library, and C++ number the messages and the values of enums, and size
\* the messages, as C does, under every alias tag, and Python finds what it looks up.
THEOREM LibrariesNumberAlike == GenSpec => []LibrariesAgree
<1>1. StepInv /\ FilesOK => LibrariesAgree
  BY Agreement DEF StepInv
<1> QED
  BY <1>1, StepsRight, FilesAreRight, PTL

-----------------------------------------------------------------------------
(* The documentation.                                                      *)

\* Multiplying with the lengths of an array, the innermost first, turns them around.
PutFirst(c, shape, length) == <<length>> \o shape
ShapeFold == INSTANCE FoldTheorems WITH Op <- PutFirst

LEMMA PyArrayIsFold ==
  ASSUME NEW lens
  PROVE  PyArray(lens) = ShapeFold!Fold(0, <<>>, lens)
BY DEF PyArray, FoldLeft, MapThenFoldSet, ShapeFold!Fold, ShapeFold!Rec, ShapeFold!Step, Max,
       ShapeFold!Max, PutFirst

LEMMA PyArrayIs ==
  ASSUME NEW lens, IsSeq(lens)
  PROVE  PyArray(lens) = Reverse(lens)
<1> DEFINE n == Len(lens)
           Turned(shape, i) == /\ IsSeq(shape) /\ Len(shape) = i
                               /\ \A l \in 1 .. i : shape[l] = lens[i - l + 1]
<1>1. n \in Nat /\ DOMAIN lens = 1 .. n
  BY SeqIs
<1> HIDE DEF n
<1>2. PICK h : ShapeFold!FoldsTo(h, 0, <<>>, lens, n) /\ ShapeFold!Fold(0, <<>>, lens) = h[n]
  BY <1>1, ShapeFold!FoldHas
<1>3. h[0] = <<>> /\ \A i \in 1 .. n : h[i] = PutFirst(0, h[i - 1], lens[i])
  BY <1>2 DEF ShapeFold!FoldsTo
<1> DEFINE K == {i \in Nat : i <= n => Turned(h[i], i)}
<1>4. 0 \in K
  <2>1. IsSeq(<<>>) /\ Len(<<>>) = 0
    BY DEF IsSeq
  <2> QED
    BY <1>3, <2>1
<1>5. ASSUME NEW i \in Nat, i \in K PROVE i + 1 \in K
  <2> SUFFICES ASSUME i + 1 <= n PROVE Turned(h[i + 1], i + 1)
    OBVIOUS
  <2> DEFINE x == <<lens[i + 1]>>  y == h[i]
  <2>1. i + 1 \in 1 .. n /\ (i + 1) - 1 = i
    BY <1>1
  <2>2. h[i + 1] = x \o y
    BY <1>3, <2>1 DEF PutFirst
  <2>3. IsSeq(y) /\ Len(y) = i /\ \A l \in 1 .. i : y[l] = lens[i - l + 1]
    BY <1>1, <1>5
  <2>4. IsSeq(x) /\ Len(x) = 1 /\ x[1] = lens[i + 1]
    BY Few
  <2> HIDE DEF x, y
  <2>5. /\ IsSeq(x \o y) /\ Len(x \o y) = Len(x) + Len(y)
        /\ DOMAIN (x \o y) = 1 .. (Len(x) + Len(y))
        /\ \A l \in 1 .. Len(x) : (x \o y)[l] = x[l]
        /\ \A l \in 1 .. Len(y) : (x \o y)[Len(x) + l] = y[l]
    <3>1. IsSeq(x) /\ IsSeq(y)
      BY <2>3, <2>4
    <3> QED
      BY ONLY <3>1, ConcatIs
  <2>6. ASSUME NEW l \in 1 .. (i + 1) PROVE (x \o y)[l] = lens[(i + 1) - l + 1]
    <3>1. CASE l = 1
      BY <2>4, <2>5, <3>1
    <3>2. CASE l # 1
      <4>1. l - 1 \in 1 .. i /\ 1 + (l - 1) = l /\ i - (l - 1) + 1 = (i + 1) - l + 1
        BY <3>2
      <4> QED
        BY <2>3, <2>4, <2>5, <4>1
    <3> QED
      BY <3>1, <3>2
  <2>7. Len(x \o y) = i + 1
    BY <2>3, <2>4, <2>5
  <2> QED
    BY <2>2, <2>5, <2>6, <2>7
<1>6. \A i \in Nat : i \in K
  <2> HIDE DEF K
  <2> QED
    BY <1>4, <1>5, BitFold!Induction
<1>7. Turned(h[n], n)
  BY <1>1, <1>6
<1> DEFINE r == Reverse(lens)
<1>8. r = [i \in 1 .. n |-> lens[(n - i) + 1]]
  BY DEF Reverse, n
<1>9. \A l \in 1 .. n : r[l] = lens[n - l + 1]
  BY <1>1, <1>8
<1> HIDE DEF r
<1>10. r = [i \in 1 .. n |-> r[i]]
  BY <1>8
<1>11. IsSeq(r) /\ Len(r) = n
  BY <1>1, <1>10, FunctionIsSeq
<1>12. h[n] = r
  BY <1>7, <1>9, <1>11, SameSeq
<1> QED
  BY <1>2, <1>12, PyArrayIsFold DEF r

\* An extra enum has its values in order.
LEMMA ExtraIs ==
  ASSUME NEW name, NEW values, IsSeq(values)
  PROVE  LET e == ExtraEnum(name, values)
         IN  /\ e.name = name /\ e.kind = "Enum" /\ NameSeq(e.fields) = values
             /\ Len(e.fields) = Len(values) /\ IsSeq(e.fields)
<1> DEFINE e == ExtraEnum(name, values)
           f == [n \in DOMAIN values |-> Scalar(values[n], NoRef)]
           N == Len(values)
<1>1. e.name = name /\ e.kind = "Enum" /\ e.fields = f
  BY ObjIs DEF ExtraEnum
<1>2. N \in Nat /\ DOMAIN values = 1 .. N /\ values = [n \in 1 .. N |-> values[n]]
  BY SeqIs
<1>3. DOMAIN f = 1 .. N /\ \A n \in 1 .. N : f[n].name = values[n]
  BY <1>2 DEF Scalar, Member
<1>4. f = [n \in 1 .. N |-> f[n]]
  BY <1>2
<1> HIDE DEF e, f, N
<1>5. IsSeq(f) /\ Len(f) = N
  BY <1>2, <1>4, FunctionIsSeq
<1>6. /\ IsSeq(NameSeq(f)) /\ DOMAIN NameSeq(f) = DOMAIN f /\ Len(NameSeq(f)) = Len(f)
      /\ \A n \in DOMAIN f : NameSeq(f)[n] = f[n].name
  BY <1>5, NamesOf
<1>7. Len(NameSeq(f)) = Len(values) /\ \A n \in 1 .. Len(NameSeq(f)) : NameSeq(f)[n] = values[n]
  BY <1>3, <1>5, <1>6 DEF N
<1>8. NameSeq(f) = values
  BY <1>6, <1>7, SameSeq
<1> QED
  BY <1>1, <1>5, <1>8 DEF e, N

-----------------------------------------------------------------------------
\* The extra enums of a documentation.
LEMMA DocEnumsAre ==
  ASSUME NEW types, IsSeq(types), NEW names, NEW extra, Range(extra) = ExtraOf(names, types),
         NEW e \in DocEnums(extra, types)
  PROVE  \/ e = ExtraEnum(names[1], Append(NameSeq(Messages(types)), "Unknown"))
         \/ e = ExtraEnum(names[2], StatusNames)
         \/ e \in Range(OfKind(types, {"Enum"}))
BY DEF DocEnums, ExtraOf

LEMMA ValuesAre ==
  ASSUME NEW types, IsSeq(types)
  PROVE  IsSeq(Append(NameSeq(Messages(types)), "Unknown")) /\ IsSeq(StatusNames)
<1>1. IsSeq(Messages(types))
  BY OfKindHas DEF Messages
<1>2. IsSeq(Append(NameSeq(Messages(types)), "Unknown"))
  <2> DEFINE m == Messages(types)
  <2> HIDE DEF m
  <2>1. IsSeq(m)
    BY <1>1 DEF m
  <2>2. IsSeq(Append(NameSeq(m), "Unknown"))
    BY <2>1, NamesAppended
  <2> QED
    BY <2>2 DEF m
<1> QED
  BY <1>2, Few DEF StatusNames

\* What the document of C++ says is in the library.
LEMMA CcDocHolds ==
  ASSUME NEW types, IsSeq(types), NEW extra, Range(extra) = ExtraOf(CcNames, types)
  PROVE  CcDoc(extra, types) \subseteq Facts(CcSource(types))
<1> DEFINE facts == Facts(CcSource(types))
           enums == Range(OfKind(types, {"Enum"}))
           bitfields == Range(OfKind(types, {"Bitfield"}))
           structs == Range(OfKind(types, {"Struct"}))
           messages == Range(Messages(types))
<1>1. /\ CcStatus \subseteq facts /\ Numbers(types) \subseteq facts /\ Unpackers \subseteq facts
      /\ CcMsgType(types) \subseteq facts
      /\ \A t \in Range(Declared(types)) : CcDeclaration(types, t).facts \subseteq facts
      /\ AnyMessage(types) \subseteq facts /\ Dispatcher \subseteq facts
  BY CcHas
<1>2. /\ \A kind \in Kinds : Range(OfKind(types, {kind})) =
           {t \in Range(Declared(types)) : t.kind = kind}
      /\ messages = {t \in Range(Declared(types)) : t.kind = "Message"}
  BY DeclaredAre
<1>3. /\ \A t \in enums : t \in Range(Declared(types)) /\ t.kind = "Enum"
      /\ \A t \in bitfields : t \in Range(Declared(types)) /\ t.kind = "Bitfield"
      /\ \A t \in structs : t \in Range(Declared(types)) /\ t.kind = "Struct"
      /\ \A t \in messages : t \in Range(Declared(types)) /\ t.kind = "Message"
  <2>1. "Enum" \in Kinds /\ "Bitfield" \in Kinds /\ "Struct" \in Kinds
    BY DEF Kinds
  <2> QED
    BY <1>2, <2>1
<1> HIDE DEF facts, bitfields, structs, messages
<1>4. ASSUME NEW e \in DocEnums(extra, types) PROVE CppEnumDoc(e) \subseteq facts
  <2>1. CppEnumDoc(e) = CcEnum(e.name, NameSeq(e.fields))
    BY DEF CppEnumDoc, CcEnum
  <2>2. CASE e = ExtraEnum(CcNames[1], Append(NameSeq(Messages(types)), "Unknown"))
    <3> DEFINE values == Append(NameSeq(Messages(types)), "Unknown")
    <3>1. e = ExtraEnum(CcNames[1], values) /\ CcMsgType(types) = CcEnum("MsgType", values)
      BY <2>2 DEF CcMsgType
    <3>2. IsSeq(values)
      BY ValuesAre
    <3> HIDE DEF values
    <3>3. e.name = CcNames[1] /\ NameSeq(e.fields) = values
      BY <3>1, <3>2, ExtraIs
    <3>4. CcNames[1] = "MsgType"
      BY DEF CcNames
    <3> QED
      BY <1>1, <2>1, <3>1, <3>3, <3>4
  <2>3. CASE e = ExtraEnum(CcNames[2], StatusNames)
    <3>1. IsSeq(StatusNames)
      BY ValuesAre
    <3>2. e.name = CcNames[2] /\ NameSeq(e.fields) = StatusNames
      BY <2>3, <3>1, ExtraIs
    <3>3. CcNames[2] = "Status" /\ CcStatus = CcEnum("Status", StatusNames)
      BY DEF CcNames, CcStatus, StatusNames
    <3> QED
      BY <1>1, <2>1, <3>2, <3>3
  <2>4. CASE e \in enums
    <3>1. e \in Range(Declared(types)) /\ e.kind = "Enum"
      BY <1>3, <2>4
    <3>2. CcDeclaration(types, e).facts = CppEnumDoc(e)
      BY <2>1, <3>1 DEF CcDeclaration, Item
    <3> QED
      BY <1>1, <3>1, <3>2
  <2> QED
    BY <2>2, <2>3, <2>4, DocEnumsAre
<1>5. ASSUME NEW t \in bitfields PROVE CBitfieldDoc(t) \subseteq facts
  <2>1. CcDeclaration(types, t).facts = CBitfieldDoc(t)
    BY <1>3 DEF CcDeclaration, Item, CBitfieldDoc
  <2> QED
    BY <1>1, <1>3, <2>1
<1>6. ASSUME NEW t \in structs PROVE CStructureDoc(types, t) \subseteq facts
  <2>1. CcDeclaration(types, t).facts = CStructureDoc(types, t)
    BY <1>3 DEF CcDeclaration, Item, CStructureDoc
  <2> QED
    BY <1>1, <1>3, <2>1
<1>7. ASSUME NEW t \in messages PROVE CppMessageDoc(types, t) \subseteq facts
  <2>1. CcDeclaration(types, t).facts = MessageFacts(types, t)
    BY <1>3 DEF CcDeclaration, Item
  <2>2. CppMessageDoc(types, t) \subseteq MessageFacts(types, t)
    BY DEF CppMessageDoc, MessageFacts
  <2> QED
    BY <1>1, <1>3, <2>1, <2>2
<1>8. ASSUME NEW x \in CcDoc(extra, types)
      PROVE  \/ x \in Numbers(types) \cup Unpackers \cup AnyMessage(types) \cup Dispatcher
             \/ \E e \in DocEnums(extra, types) : x \in CppEnumDoc(e)
             \/ \E t \in bitfields : x \in CBitfieldDoc(t)
             \/ \E t \in structs : x \in CStructureDoc(types, t)
             \/ \E t \in messages : x \in CppMessageDoc(types, t)
  BY DEF CcDoc, bitfields, structs, messages
<1>9. ASSUME NEW x \in CcDoc(extra, types) PROVE x \in facts
  BY <1>1, <1>4, <1>5, <1>6, <1>7, <1>8
<1> QED
  BY <1>9 DEF facts

-----------------------------------------------------------------------------
\* A member of a structure: its type is an earlier one, and it has the lengths of an array.
LEMMA MemberUsable ==
  ASSUME NEW types, Usable(types), NEW n \in DOMAIN types, types[n].kind \in {"Struct", "Message"},
         NEW f \in Range(types[n].fields)
  PROVE  f.type.index \in 1 .. (n - 1) /\ f.lens \in Seq(Int) /\ IsSeq(f.lens)
<1> DEFINE t == types[n]
<1>1. ReadyType(t, n)
  BY DEF Usable, AllReady
<1>2. t.kind \in {"Struct", "Message"} /\ f \in Range(t.fields)
  OBVIOUS
<1> HIDE DEF t
<1>3. HasMembers(t) /\ IsSeq(t.fields)
  BY <1>1, <1>2 DEF HasMembers, ReadyType
<1>4. PICK i \in 1 .. Len(t.fields) : f = t.fields[i]
  <2> DEFINE g == t.fields
  <2>1. IsSeq(g) /\ f \in Range(g)
    BY <1>2, <1>3
  <2> HIDE DEF g
  <2>2. PICK i \in 1 .. Len(g) : f = g[i]
    BY <2>1, SeqIs DEF Range
  <2> QED
    BY <2>2 DEF g
<1>5. f.type.index \in 1 .. (n - 1) /\ f.lens \in Seq(Int)
  BY <1>1, <1>3, <1>4 DEF ReadyType
<1> QED
  BY <1>5, SeqOfSome

\* No type that is declared has the name of a type of the library.
LEMMA NotOfLibrary ==
  ASSUME NEW types, IsSeq(types), NEW quoted, ~CRefuses(types, quoted),
         NEW t \in Range(Declared(types))
  PROVE  t.name \notin {"SsMsgType", "SsStatus"}
<1> SUFFICES ASSUME NEW name \in {"SsMsgType", "SsStatus"}, t.name = name PROVE FALSE
  OBVIOUS
<1> DEFINE here == Identifier("library", "", 0, name)
           ids == CIdentifiers(types)
<1>1. PICK n \in DOMAIN types : t = types[n]
  BY DeclaredAre DEF Range
<1> DEFINE there == Identifier("type", "", n, CTypeName(types[n].name))
<1>2. CTypeName(name) = name
  BY DEF CTypeName, CIntegers
<1>3. here \in ids /\ there \in ids
  <2>1. name \in CFixed
    BY DEF CFixed
  <2>2. here \in {Identifier("library", "", 0, fixed) : fixed \in CFixed}
    BY <2>1, Zenon
  <2>3. there \in {Identifier("type", "", i, CTypeName(types[i].name)) : i \in DOMAIN types}
    BY Zenon
  <2> QED
    BY <2>2, <2>3, Zenon DEF CIdentifiers
<1>4. here.of = "library" /\ there.of = "type" /\ here.name = name /\ there.name = CTypeName(types[n].name)
  BY Zenon DEF Identifier
<1>5. ~(\E a, b \in ids : a # b /\ a.name = b.name)
  BY Zenon DEF CRefuses
<1> HIDE DEF here, there, ids
<1> QED
  BY <1>1, <1>2, <1>3, <1>4, <1>5

\* A class is documented as it is, but for what an attribute of the same name hides.
LEMMA PyDocumented ==
  ASSUME NEW types, Usable(types), NEW t \in Range(Declared(types))
  PROVE  /\ t.kind = "Bitfield" => PyBitfieldDoc(t) = PyClass(types, t)
         /\ t.kind = "Struct" => PyStructureDoc(types, t) = PyClass(types, t)
         /\ t.kind = "Message" =>
              /\ PyClass(types, t) \subseteq PyMessageDoc(types, t)
              /\ \A d \in PyMessageDoc(types, t) :
                   d \in PyClass(types, t) \/ (d \in PyMessageOwn(types, t) /\ PyHidden(t, d))
<1>1. t \in Range(types) /\ t.kind \in Kinds
  BY UsableHas, DeclaredAre
<1>2. PICK n \in DOMAIN types : t = types[n]
  BY <1>1 DEF Range
<1>3. CASE t.kind = "Bitfield"
  <2>1. PyClass(types, t) = {Type(t.name)} \cup PyBitfield(t)
    BY <1>1, <1>3, PyClassIs
  <2>2. PyBitfieldDoc(t) = {Type(t.name)} \cup PyBitfield(t)
    <3> DEFINE base == PyBase(t, "ctypes.Structure", <<>>)
               members == {PyMember(t, f.name, "ctypes.c_uint" \o Width[TypeSize(t, <<>>)], <<f.bits>>)
                             : f \in Range(t.fields)}
    <3>1. PyBitfieldDoc(t) = {Type(t.name), base} \cup members
      BY DEF PyBitfieldDoc
    <3>2. PyBitfield(t) = {base} \cup members
      BY DEF PyBitfield
    <3> HIDE DEF base, members
    <3> QED
      BY <3>1, <3>2
  <2> QED
    BY <1>3, <2>1, <2>2
<1>4. ASSUME t.kind \in {"Struct", "Message"}
      PROVE  PyStructureDoc(types, t) = {Type(t.name)} \cup PyStructure(types, t)
  <2> DEFINE base == PyBase(t, "ctypes.Structure", <<>>)
             told(f) == PyMember(t, f.name, CtypesName(Root(types, f).name), AllLengths(f))
             got(f) == PyMember(t, f.name, CtypesName(Root(types, f).name), PyArray(f.lens))
  <2>1. ASSUME NEW f \in Range(t.fields) PROVE told(f) = got(f)
    <3>1. IsSeq(f.lens)
      BY <1>2, <1>4, MemberUsable
    <3>2. PyArray(f.lens) = AllLengths(f)
      BY <3>1, PyArrayIs DEF AllLengths
    <3> QED
      BY <3>2
  <2>2. PyStructureDoc(types, t) = {Type(t.name), base} \cup {told(f) : f \in Range(t.fields)}
    BY DEF PyStructureDoc
  <2>3. PyStructure(types, t) = {base} \cup {got(f) : f \in Range(t.fields)}
    BY DEF PyStructure
  <2> HIDE DEF base, told, got
  <2> QED
    BY <2>1, <2>2, <2>3
<1>5. CASE t.kind = "Struct"
  <2>1. PyClass(types, t) = {Type(t.name)} \cup PyStructure(types, t)
    BY <1>1, <1>5, PyClassIs
  <2> QED
    BY <1>4, <1>5, <2>1
<1>6. CASE t.kind = "Message"
  <2>1. PyClass(types, t) = {Type(t.name)} \cup PyMessage(types, t)
    BY <1>1, <1>6, PyClassIs
  <2>2. PyMessageDoc(types, t) = {Type(t.name)} \cup PyStructure(types, t) \cup PyMessageOwn(types, t)
    BY <1>4, <1>6 DEF PyMessageDoc
  <2>3. PyMessage(types, t) = PyStructure(types, t) \cup {a \in PyMessageOwn(types, t) : ~PyHidden(t, a)}
    BY DEF PyMessage
  <2> QED
    BY <1>6, <2>1, <2>2, <2>3
<1> QED
  BY <1>1, <1>3, <1>5, <1>6 DEF Kinds

-----------------------------------------------------------------------------
LEMMA PyKinds ==
  ASSUME NEW types, NEW t, t.kind \in Kinds, NEW x \in PyClass(types, t)
  PROVE  x.kind \in {"type", "base", "attribute", "member"}
<1>1. \/ x = Type(t.name)
      \/ t.kind = "Enum" /\ x \in PyEnum(t)
      \/ t.kind = "Bitfield" /\ x \in PyBitfield(t)
      \/ t.kind = "Struct" /\ x \in PyStructure(types, t)
      \/ t.kind = "Message" /\ x \in PyMessage(types, t)
  BY PyClassIs DEF Kinds
<1>2. CASE x = Type(t.name)
  BY <1>2, TypeIs
<1>3. CASE x \in PyEnum(t)
  BY <1>3 DEF PyEnum, PyBase, PyOwn, PyMember, Fact
<1>4. CASE x \in PyBitfield(t)
  BY <1>4 DEF PyBitfield, PyBase, PyMember, Fact
<1>5. ASSUME x \in PyStructure(types, t) PROVE x.kind \in {"base", "member"}
  BY <1>5 DEF PyStructure, PyBase, PyMember, Fact
<1>6. CASE x \in PyMessage(types, t)
  <2>1. x \in PyStructure(types, t) \/ x \in PyMessageOwn(types, t)
    BY <1>6 DEF PyMessage
  <2>2. CASE x \in PyMessageOwn(types, t)
    BY <2>2 DEF PyMessageOwn, PyOwn, Fact
  <2> QED
    BY <1>5, <2>1, <2>2
<1> QED
  BY <1>1, <1>2, <1>3, <1>4, <1>5, <1>6

\* What a module has of a name, or under it, is of the class of that name, unless it is
\* a number of a message.
LEMMA PyInClass ==
  ASSUME NEW types, IsSeq(types), NEW name,
         NEW x \in PyModule(types), x.kind \in {"type", "base", "attribute", "member"},
         x.name = <<name>> \/ \E a : x.name = Scoped(name, a)
  PROVE  \E u \in Range(Declared(types)) :
           u.name = name /\ u.name \notin PyGlobals /\ x \in PyClass(types, u)
<1>1. CASE \E u \in Range(Declared(types)) : u.name \notin PyGlobals /\ x \in PyClass(types, u)
  <2>1. PICK u \in Range(Declared(types)) : u.name \notin PyGlobals /\ x \in PyClass(types, u)
    BY <1>1
  <2>2. u.kind \in Kinds
    BY DeclaredAre
  <2>3. x.name = <<u.name>> \/ \E a : x.name = Scoped(u.name, a)
    BY <2>1, <2>2, PyNames
  <2>4. u.name = name
    BY <2>3 DEF Scoped
  <2> QED
    BY <2>1, <2>4
<1>2. CASE \E g \in PyGlobals : x = Global(g)
  <2>1. x.kind = "global"
    BY <1>2, GlobalIs
  <2> QED
    BY <2>1
<1>3. CASE x \in PyMsgList(types)
  <2>1. x.kind = "constant"
    BY <1>3 DEF PyMsgList, Numbered, Fact
  <2> QED
    BY <2>1
<1> QED
  BY <1>1, <1>2, <1>3, PyModuleIs

LEMMA PyOfClass ==
  ASSUME NEW types, IsSeq(types), Distinct(types), NEW t \in Range(Declared(types)),
         NEW x \in PyModule(types), x.kind \in {"type", "base", "attribute", "member"},
         x.name = <<t.name>> \/ \E a : x.name = Scoped(t.name, a)
  PROVE  t.name \notin PyGlobals /\ x \in PyClass(types, t)
<1>1. PICK u \in Range(Declared(types)) :
        u.name = t.name /\ u.name \notin PyGlobals /\ x \in PyClass(types, u)
  <2> DEFINE name == t.name
  <2>1. x.name = <<name>> \/ \E a : x.name = Scoped(name, a)
    OBVIOUS
  <2> HIDE DEF name
  <2>2. \E u \in Range(Declared(types)) :
          u.name = name /\ u.name \notin PyGlobals /\ x \in PyClass(types, u)
    BY <2>1, PyInClass
  <2> QED
    BY <2>2 DEF name
<1>2. u \in Range(types) /\ t \in Range(types)
  BY DeclaredAre
<1>3. u = t
  BY <1>1, <1>2 DEF Range, Distinct
<1> QED
  BY <1>1, <1>3

\* What the documentation says of an enum.
LEMMA PyEnumSays ==
  ASSUME NEW e, NEW d \in PyEnumDoc(e)
  PROVE  /\ d.kind \in {"type", "base", "attribute", "member"}
         /\ d.name = <<e.name>> \/ \E a : d.name = Scoped(e.name, a)
         /\ \/ d = Type(e.name)
            \/ d = PyBase(e, "ctypes.c_int", <<8 * TypeSize(e, <<>>)>>)
            \/ d = PyOwn(e, "name", "str", <<>>) \/ d = PyOwn(e, "is_valid", "method", <<>>)
            \/ \E n \in DOMAIN e.fields : d = PyMember(e, e.fields[n].name, e.name, <<n - 1>>)
<1>1. \/ d = Type(e.name)
      \/ d = PyBase(e, "ctypes.c_int", <<8 * TypeSize(e, <<>>)>>)
      \/ d = PyOwn(e, "name", "str", <<>>) \/ d = PyOwn(e, "is_valid", "method", <<>>)
      \/ \E n \in DOMAIN e.fields : d = PyMember(e, e.fields[n].name, e.name, <<n - 1>>)
  BY Zenon DEF PyEnumDoc
<1>2. CASE d = Type(e.name)
  BY <1>1, <1>2, TypeIs
<1>3. CASE d # Type(e.name)
  <2>1. /\ d.kind \in {"base", "attribute", "member"}
        /\ d.name = <<e.name>> \/ \E a : d.name = Scoped(e.name, a)
    BY <1>1, <1>3 DEF PyBase, PyOwn, PyMember, Fact
  <2> QED
    BY <1>1, <2>1
<1> QED
  BY <1>2, <1>3

\* The same of an enum of the specification: true of its class but for its base, and the
\* values that are attributes.
LEMMA PyEnumHolds ==
  ASSUME NEW types, IsSeq(types), Distinct(types), NEW e \in Range(Declared(types)), e.kind = "Enum",
         NEW d \in PyEnumDoc(e)
  PROVE  LET wrong == \/ d.kind = "base"
                      \/ \E v \in PyEnumAttribute : d.kind = "member" /\ d.name = Scoped(e.name, v)
         IN  d \in PyClass(types, e) <=> ~wrong
<1> DEFINE at(n) == PyMember(e, e.fields[n].name, e.name, <<n - 1>>)
           D == {i \in DOMAIN e.fields : e.fields[i].name \notin PyEnumAttribute}
<1>1. e.kind \in Kinds
  BY DeclaredAre
<1>2. PyClass(types, e) = {Type(e.name)} \cup PyEnum(e)
  BY <1>1, PyClassIs
<1>3. PyEnum(e) = {PyBase(e, "ctypes.c_int", <<>>), PyOwn(e, "name", "str", <<>>),
                   PyOwn(e, "is_valid", "method", <<>>)} \cup {at(i) : i \in D}
  BY DEF PyEnum
<1>4. \A n : at(n).name = Scoped(e.name, e.fields[n].name) /\ at(n).kind = "member"
  BY FactIs DEF PyMember
<1>5. \/ d = Type(e.name)
      \/ d = PyBase(e, "ctypes.c_int", <<8 * TypeSize(e, <<>>)>>)
      \/ d = PyOwn(e, "name", "str", <<>>) \/ d = PyOwn(e, "is_valid", "method", <<>>)
      \/ \E n \in DOMAIN e.fields : d = at(n)
  BY PyEnumSays
<1> HIDE DEF at
<1>6. CASE d = Type(e.name)
  BY <1>2, <1>6, TypeIs
<1>7. CASE d = PyBase(e, "ctypes.c_int", <<8 * TypeSize(e, <<>>)>>)
  <2>1. d.kind = "base" /\ d.ns = <<8 * TypeSize(e, <<>>)>>
    BY <1>7, FactIs DEF PyBase
  <2>2. d # Type(e.name)
    BY <2>1, TypeIs
  <2>3. PyBase(e, "ctypes.c_int", <<>>).ns = <<>>
    BY FactIs DEF PyBase
  <2>4. \A n : d # at(n)
    BY <1>4, <2>1
  <2>5. d # PyOwn(e, "name", "str", <<>>) /\ d # PyOwn(e, "is_valid", "method", <<>>)
    BY <2>1, FactIs DEF PyOwn
  <2>6. d # PyBase(e, "ctypes.c_int", <<>>)
    <3> DEFINE bits == 8 * TypeSize(e, <<>>)
    <3> HIDE DEF bits
    <3>1. Len(<<bits>>) # Len(<<>>)
      OBVIOUS
    <3>2. <<bits>> # <<>>
      BY <3>1
    <3> QED
      BY <2>1, <2>3, <3>2 DEF bits
  <2> QED
    BY <1>2, <1>3, <2>1, <2>2, <2>4, <2>5, <2>6
<1>8. CASE d = PyOwn(e, "name", "str", <<>>) \/ d = PyOwn(e, "is_valid", "method", <<>>)
  <2>1. d.kind = "attribute"
    BY <1>8, FactIs DEF PyOwn
  <2> QED
    BY <1>2, <1>3, <1>8, <2>1
<1>9. CASE \E n \in DOMAIN e.fields : d = at(n)
  <2>1. PICK n \in DOMAIN e.fields : d = at(n)
    BY <1>9
  <2>2. d.kind = "member" /\ d.name = Scoped(e.name, e.fields[n].name)
    BY <1>4, <2>1
  <2>3. CASE e.fields[n].name \notin PyEnumAttribute
    <3>1. d \in PyClass(types, e)
      BY <1>2, <1>3, <2>1, <2>3
    <3>2. \A v \in PyEnumAttribute : d.name # Scoped(e.name, v)
      BY <2>2, <2>3 DEF Scoped
    <3> QED
      BY <2>2, <3>1, <3>2
  <2>4. CASE e.fields[n].name \in PyEnumAttribute
    <3>1. d # Type(e.name) /\ d # PyBase(e, "ctypes.c_int", <<>>)
      BY <2>2, TypeIs, FactIs DEF PyBase
    <3>2. d # PyOwn(e, "name", "str", <<>>) /\ d # PyOwn(e, "is_valid", "method", <<>>)
      BY <2>2, FactIs DEF PyOwn
    <3>3. \A i \in D : d # at(i)
      <4>1. \A i \in D : at(i).name = Scoped(e.name, e.fields[i].name)
                         /\ e.fields[i].name \notin PyEnumAttribute
        BY <1>4
      <4> QED
        BY <2>2, <2>4, <4>1 DEF Scoped
    <3> QED
      BY <1>2, <1>3, <2>2, <2>4, <3>1, <3>2, <3>3
  <2> QED
    BY <2>3, <2>4
<1> QED
  BY <1>5, <1>6, <1>7, <1>8, <1>9

-----------------------------------------------------------------------------
\* What the document of Python says, apart.
LEMMA PyDocSays ==
  ASSUME NEW types, IsSeq(types), NEW extra, Range(extra) = ExtraOf(CNames, types),
         NEW d \in PyDoc(extra, types)
  PROVE  \/ \E g \in PyGlobals : d = Global(g)
         \/ d \in PyEnumDoc(ExtraEnum("SsMsgType", Append(NameSeq(Messages(types)), "Unknown")))
         \/ d \in PyEnumDoc(ExtraEnum("SsStatus", StatusNames))
         \/ \E t \in Range(Declared(types)) :
              \/ t.kind = "Enum" /\ d \in PyEnumDoc(t)
              \/ t.kind = "Bitfield" /\ d \in PyBitfieldDoc(t)
              \/ t.kind = "Struct" /\ d \in PyStructureDoc(types, t)
              \/ t.kind = "Message" /\ d \in PyMessageDoc(types, t)
<1>1. \/ \E g \in PyGlobals : d = Global(g)
      \/ \E e \in DocEnums(extra, types) : d \in PyEnumDoc(e)
      \/ \E t \in Range(OfKind(types, {"Bitfield"})) : d \in PyBitfieldDoc(t)
      \/ \E t \in Range(OfKind(types, {"Struct"})) : d \in PyStructureDoc(types, t)
      \/ \E t \in Range(Messages(types)) : d \in PyMessageDoc(types, t)
  BY Zenon DEF PyDoc, Global
<1>2. /\ \A kind \in Kinds : Range(OfKind(types, {kind})) =
           {t \in Range(Declared(types)) : t.kind = kind}
      /\ Range(Messages(types)) = {t \in Range(Declared(types)) : t.kind = "Message"}
  BY DeclaredAre
<1>3. "Enum" \in Kinds /\ "Bitfield" \in Kinds /\ "Struct" \in Kinds
  BY DEF Kinds
<1>4. CNames[1] = "SsMsgType" /\ CNames[2] = "SsStatus"
  BY DEF CNames
<1>5. CASE \E e \in DocEnums(extra, types) : d \in PyEnumDoc(e)
  <2>1. PICK e \in DocEnums(extra, types) : d \in PyEnumDoc(e)
    BY <1>5
  <2>2. \/ e = ExtraEnum("SsMsgType", Append(NameSeq(Messages(types)), "Unknown"))
        \/ e = ExtraEnum("SsStatus", StatusNames)
        \/ e \in Range(OfKind(types, {"Enum"}))
    BY <1>4, DocEnumsAre
  <2> QED
    BY <1>2, <1>3, <2>1, <2>2
<1> QED
  BY <1>1, <1>2, <1>3, <1>5

\* An enum that only C has is not in a module.
LEMMA NoExtra ==
  ASSUME NEW types, IsSeq(types), NEW quoted, ~CRefuses(types, quoted),
         NEW name \in {"SsMsgType", "SsStatus"}, NEW values, IsSeq(values),
         NEW d \in PyEnumDoc(ExtraEnum(name, values))
  PROVE  d \notin PyModule(types)
<1> SUFFICES ASSUME d \in PyModule(types) PROVE FALSE
  OBVIOUS
<1> DEFINE e == ExtraEnum(name, values)
<1>1. e.name = name
  BY ExtraIs
<1>2. d \in PyEnumDoc(e)
  OBVIOUS
<1> HIDE DEF e
<1>3. /\ d.kind \in {"type", "base", "attribute", "member"}
      /\ d.name = <<name>> \/ \E a : d.name = Scoped(name, a)
  BY <1>1, <1>2, PyEnumSays
<1>4. \E u \in Range(Declared(types)) :
        u.name = name /\ u.name \notin PyGlobals /\ d \in PyClass(types, u)
  BY <1>3, PyInClass
<1> QED
  BY <1>4, NotOfLibrary

\* Nothing that is listed as wrong is in a module.
LEMMA PyTrue ==
  ASSUME NEW types, Usable(types), NEW quoted, ~CRefuses(types, quoted), NEW d \in PyModule(types)
  PROVE  ~PyWrong(types, d)
<1>1. IsSeq(types) /\ Distinct(types)
  BY UsableHas
<1>2. /\ \A kind \in Kinds : Range(OfKind(types, {kind})) =
           {t \in Range(Declared(types)) : t.kind = kind}
      /\ Range(Messages(types)) = {t \in Range(Declared(types)) : t.kind = "Message"}
      /\ \A t \in Range(Declared(types)) : t.kind \in Kinds
  BY <1>1, DeclaredAre
<1>3. d \notin PyEnumDoc(ExtraEnum("SsMsgType", Append(NameSeq(Messages(types)), "Unknown")))
  <2> DEFINE values == Append(NameSeq(Messages(types)), "Unknown")
  <2>1. IsSeq(values)
    BY <1>1, ValuesAre
  <2> HIDE DEF values
  <2>2. d \notin PyEnumDoc(ExtraEnum("SsMsgType", values))
    BY <1>1, <2>1, NoExtra
  <2> QED
    BY <2>2 DEF values
<1>4. d \notin PyEnumDoc(ExtraEnum("SsStatus", StatusNames))
  BY <1>1, ValuesAre, NoExtra
<1>5. ASSUME NEW e \in Range(Declared(types)), e.kind = "Enum", d \in PyEnumDoc(e)
      PROVE  ~(\/ d.kind = "base"
               \/ \E v \in PyEnumAttribute : d.kind = "member" /\ d.name = Scoped(e.name, v))
  <2>1. /\ d.kind \in {"type", "base", "attribute", "member"}
        /\ d.name = <<e.name>> \/ \E a : d.name = Scoped(e.name, a)
    BY <1>5, PyEnumSays
  <2>2. d \in PyClass(types, e)
    BY <1>1, <2>1, PyOfClass
  <2> QED
    BY <1>1, <1>5, <2>2, PyEnumHolds
<1>6. ASSUME NEW m \in Range(Declared(types)), m.kind = "Message", d \in PyMessageOwn(types, m)
      PROVE  ~PyHidden(m, d)
  <2>1. d.kind = "attribute" /\ \E a : d.name = Scoped(m.name, a)
    BY <1>6 DEF PyMessageOwn, PyOwn, Fact
  <2>2. d \in PyClass(types, m)
    BY <1>1, <2>1, PyOfClass
  <2>3. d = Type(m.name) \/ d \in PyMessage(types, m)
    BY <1>2, <1>6, <2>2, PyClassIs
  <2>4. d # Type(m.name)
    BY <2>1, TypeIs
  <2>5. d \notin PyStructure(types, m)
    BY <2>1 DEF PyStructure, PyBase, PyMember, Fact
  <2> QED
    BY <2>3, <2>4, <2>5 DEF PyMessage
<1>7. ASSUME NEW t \in Range(Declared(types)), d \in PyClass(types, t) PROVE t.name \notin PyGlobals
  <2>1. d.kind \in {"type", "base", "attribute", "member"}
    BY <1>2, <1>7, PyKinds
  <2>2. d.name = <<t.name>> \/ \E a : d.name = Scoped(t.name, a)
    BY <1>2, <1>7, PyNames
  <2> QED
    BY <1>1, <2>1, <2>2, PyOfClass
<1>8. \A e \in Range(OfKind(types, {"Enum"})) : e \in Range(Declared(types)) /\ e.kind = "Enum"
  BY <1>2 DEF Kinds
<1>9. \A m \in Range(Messages(types)) : m \in Range(Declared(types)) /\ m.kind = "Message"
  BY <1>2
<1>10. <<"Success", "InvalidUid", "InvalidLen">> = StatusNames
  BY DEF StatusNames
<1> QED
  BY <1>3, <1>4, <1>5, <1>6, <1>7, <1>8, <1>9, <1>10, Zenon DEF PyWrong

\* What the document says and is not in the module is listed as wrong.
LEMMA PyUntrue ==
  ASSUME NEW types, Usable(types), NEW extra, Range(extra) = ExtraOf(CNames, types),
         NEW d \in PyDoc(extra, types), d \notin PyModule(types)
  PROVE  PyWrong(types, d)
<1>1. IsSeq(types) /\ Distinct(types)
  BY UsableHas
<1>2. /\ \A kind \in Kinds : Range(OfKind(types, {kind})) =
           {t \in Range(Declared(types)) : t.kind = kind}
      /\ Range(Messages(types)) = {t \in Range(Declared(types)) : t.kind = "Message"}
  BY <1>1, DeclaredAre
<1>3. <<"Success", "InvalidUid", "InvalidLen">> = StatusNames
  BY DEF StatusNames
<1>4. CASE \E g \in PyGlobals : d = Global(g)
  BY <1>1, <1>4, PyModuleIs
<1>5. CASE \/ d \in PyEnumDoc(ExtraEnum("SsMsgType", Append(NameSeq(Messages(types)), "Unknown")))
           \/ d \in PyEnumDoc(ExtraEnum("SsStatus", StatusNames))
  BY <1>3, <1>5, Zenon DEF PyWrong
<1>6. ASSUME NEW t \in Range(Declared(types)), d \in PyClass(types, t) PROVE PyWrong(types, d)
  <2>1. t.name \in PyGlobals
    BY <1>1, <1>6, PyModuleIs
  <2> QED
    BY <1>6, <2>1, Zenon DEF PyWrong
<1>7. ASSUME NEW t \in Range(Declared(types)),
             \/ t.kind = "Enum" /\ d \in PyEnumDoc(t)
             \/ t.kind = "Bitfield" /\ d \in PyBitfieldDoc(t)
             \/ t.kind = "Struct" /\ d \in PyStructureDoc(types, t)
             \/ t.kind = "Message" /\ d \in PyMessageDoc(types, t)
      PROVE  PyWrong(types, d)
  <2>1. CASE d \in PyClass(types, t)
    BY <1>6, <2>1
  <2>2. CASE d \notin PyClass(types, t) /\ t.kind = "Enum"
    <3>1. \/ d.kind = "base"
          \/ \E v \in PyEnumAttribute : d.kind = "member" /\ d.name = Scoped(t.name, v)
      BY <1>1, <1>7, <2>2, PyEnumHolds
    <3>2. t \in Range(OfKind(types, {"Enum"})) /\ d \in PyEnumDoc(t)
      BY <1>2, <1>7, <2>2 DEF Kinds
    <3> QED
      BY <3>1, <3>2, Zenon DEF PyWrong
  <2>3. CASE d \notin PyClass(types, t) /\ t.kind # "Enum"
    <3>1. t.kind = "Message" /\ d \in PyMessageOwn(types, t) /\ PyHidden(t, d)
      BY <1>7, <2>3, PyDocumented
    <3>2. t \in Range(Messages(types))
      BY <1>2, <3>1
    <3> QED
      BY <3>1, <3>2, Zenon DEF PyWrong
  <2> QED
    BY <2>1, <2>2, <2>3
<1> QED
  BY <1>1, <1>4, <1>5, <1>7, PyDocSays

-----------------------------------------------------------------------------
(* What states the identifiers of a C library.                             *)

LibraryId(name) == Identifier("library", "", 0, name)
TypeId(types, n) == Identifier("type", "", n, CTypeName(types[n].name))
PackId(types, n) == Identifier("pack", "", n, "SsPack" \o Camel[types[n].name])
UnpackId(types, n) == Identifier("unpack", "", n, "SsUnpack" \o Camel[types[n].name])
LogId(types, n) == Identifier("log", "", n, "SsLog" \o types[n].name)
EnumId(e, n) == Identifier("enum", e.name, n, Spelled(e)[n])

LEMMA LibraryIdIs ==
  ASSUME NEW name
  PROVE  LibraryId(name).of = "library" /\ LibraryId(name).name = name
BY Zenon DEF Identifier, LibraryId
LEMMA TypeIdIs ==
  ASSUME NEW types, NEW n
  PROVE  /\ TypeId(types, n).of = "type" /\ TypeId(types, n).n = n
         /\ TypeId(types, n).name = CTypeName(types[n].name)
BY Zenon DEF Identifier, TypeId
LEMMA PackIdIs ==
  ASSUME NEW types, NEW n
  PROVE  /\ PackId(types, n).of = "pack" /\ PackId(types, n).n = n
         /\ PackId(types, n).name = "SsPack" \o Camel[types[n].name]
BY Zenon DEF Identifier, PackId
LEMMA UnpackIdIs ==
  ASSUME NEW types, NEW n
  PROVE  /\ UnpackId(types, n).of = "unpack" /\ UnpackId(types, n).n = n
         /\ UnpackId(types, n).name = "SsUnpack" \o Camel[types[n].name]
BY Zenon DEF Identifier, UnpackId
LEMMA LogIdIs ==
  ASSUME NEW types, NEW n
  PROVE  /\ LogId(types, n).of = "log" /\ LogId(types, n).n = n
         /\ LogId(types, n).name = "SsLog" \o types[n].name
BY Zenon DEF Identifier, LogId
LEMMA EnumIdIs ==
  ASSUME NEW e, NEW n
  PROVE  /\ EnumId(e, n).of = "enum" /\ EnumId(e, n).enum = e.name /\ EnumId(e, n).n = n
         /\ EnumId(e, n).name = Spelled(e)[n]
BY Zenon DEF Identifier, EnumId

LEMMA IdentifiersAre ==
  ASSUME NEW types, NEW a
  PROVE  a \in CIdentifiers(types) <=>
           \/ \E name \in CFixed : a = LibraryId(name)
           \/ \E n \in DOMAIN types : a = TypeId(types, n) \/ a = PackId(types, n) \/ a = UnpackId(types, n)
           \/ \E n \in DOMAIN types : types[n].kind = "Message" /\ a = LogId(types, n)
           \/ \E e \in CEnums(types) : \E n \in DOMAIN Spelled(e) : a = EnumId(e, n)
<1> DEFINE lib == {LibraryId(name) : name \in CFixed}
           type == {TypeId(types, n) : n \in DOMAIN types}
           pack == {PackId(types, n) : n \in DOMAIN types}
           unpack == {UnpackId(types, n) : n \in DOMAIN types}
           log == {LogId(types, n) : n \in {i \in DOMAIN types : types[i].kind = "Message"}}
           of(e) == {EnumId(e, n) : n \in DOMAIN Spelled(e)}
           enum == UNION {of(e) : e \in CEnums(types)}
<1>1. CIdentifiers(types) = lib \cup type \cup pack \cup unpack \cup log \cup enum
  BY Zenon DEF CIdentifiers, LibraryId, TypeId, PackId, UnpackId, LogId, EnumId
<1>2. /\ a \in lib <=> \E name \in CFixed : a = LibraryId(name)
      /\ a \in type <=> \E n \in DOMAIN types : a = TypeId(types, n)
      /\ a \in pack <=> \E n \in DOMAIN types : a = PackId(types, n)
      /\ a \in unpack <=> \E n \in DOMAIN types : a = UnpackId(types, n)
      /\ a \in log <=> \E n \in DOMAIN types : types[n].kind = "Message" /\ a = LogId(types, n)
  OBVIOUS
<1>3. \A e : a \in of(e) <=> \E n \in DOMAIN Spelled(e) : a = EnumId(e, n)
  OBVIOUS
<1> HIDE DEF of
<1>4. a \in enum <=> \E e \in CEnums(types) : a \in of(e)
  OBVIOUS
<1> HIDE DEF lib, type, pack, unpack, log, enum
<1> QED
  BY <1>1, <1>2, <1>3, <1>4

LEMMA VariableIs ==
  ASSUME NEW name
  PROVE  Variable(name).kind = "constant" /\ Variable(name).name = <<name>> /\ Variable(name).ns = <<>>
BY Zenon DEF Variable, Fact

\* The spellings of an enum, and its facts.
EnumValue(e, n) == IF n = 1 THEN -1 ELSE IF n = 2 THEN Len(e.values) ELSE n - 3
EnumFact(e, n) == Fact("constant", <<Spelled(e)[n]>>, e.name, <<EnumValue(e, n)>>)

LEMMA SpelledIs ==
  ASSUME NEW e, IsSeq(e.values)
  PROVE  /\ DOMAIN Spelled(e) = 1 .. (Len(e.values) + 2) /\ Len(e.values) \in Nat
         /\ DOMAIN e.values = 1 .. Len(e.values)
         /\ Spelled(e)[1] = "k" \o e.name \o "ForceSigned" /\ Spelled(e)[2] = "kNum" \o e.name
         /\ \A n \in 1 .. Len(e.values) : Spelled(e)[n + 2] = "k" \o e.name \o e.values[n]
<1> DEFINE v == e.values
           c == Len(v)
           p == "k" \o e.name \o "ForceSigned"
           q == "kNum" \o e.name
           a == <<p, q>>
           b == [n \in DOMAIN v |-> "k" \o e.name \o v[n]]
<1>1. c \in Nat /\ DOMAIN v = 1 .. c
  BY SeqIs
<1>2. Spelled(e) = a \o b
  BY Zenon DEF Spelled
<1>3. \A n \in 1 .. c : b[n] = "k" \o e.name \o v[n]
  BY <1>1
<1>4. b = [n \in 1 .. c |-> b[n]]
  BY <1>1
<1> HIDE DEF c, p, q, b
<1>5. IsSeq(b) /\ Len(b) = c
  BY <1>1, <1>4, FunctionIsSeq
<1>6. IsSeq(a) /\ Len(a) = 2 /\ a[1] = p /\ a[2] = q
  BY Few
<1> HIDE DEF a
<1>7. /\ IsSeq(a \o b) /\ Len(a \o b) = Len(a) + Len(b)
      /\ DOMAIN (a \o b) = 1 .. (Len(a) + Len(b))
      /\ \A n \in 1 .. Len(a) : (a \o b)[n] = a[n]
      /\ \A n \in 1 .. Len(b) : (a \o b)[Len(a) + n] = b[n]
  <2>1. IsSeq(a) /\ IsSeq(b)
    BY <1>5, <1>6
  <2> QED
    BY ONLY <2>1, ConcatIs
<1>8. (a \o b)[1] = p /\ (a \o b)[2] = q /\ \A n \in 1 .. c : (a \o b)[n + 2] = b[n]
  <2>1. 1 \in 1 .. 2 /\ 2 \in 1 .. 2 /\ \A n \in 1 .. c : 2 + n = n + 2
    BY <1>1
  <2> QED
    BY <1>5, <1>6, <1>7, <2>1
<1> HIDE DEF v
<1>9. DOMAIN (a \o b) = 1 .. (c + 2)
  BY <1>1, <1>5, <1>6, <1>7
<1>10. \A n \in 1 .. c : (a \o b)[n + 2] = "k" \o e.name \o v[n]
  BY <1>3, <1>8
<1> QED
  BY <1>1, <1>2, <1>8, <1>9, <1>10 DEF c, p, q, v

LEMMA CEnumIs ==
  ASSUME NEW e, IsSeq(e.values), NEW x
  PROVE  x \in CEnum(e.name, e.values) <=>
           x = Type(e.name) \/ \E n \in DOMAIN Spelled(e) : x = EnumFact(e, n)
<1> DEFINE c == Len(e.values)
           at(i) == Fact("constant", <<"k" \o e.name \o e.values[i]>>, e.name, <<i - 1>>)
<1>1. /\ DOMAIN Spelled(e) = 1 .. (c + 2) /\ c \in Nat /\ DOMAIN e.values = 1 .. c
      /\ Spelled(e)[1] = "k" \o e.name \o "ForceSigned" /\ Spelled(e)[2] = "kNum" \o e.name
      /\ \A n \in 1 .. c : Spelled(e)[n + 2] = "k" \o e.name \o e.values[n]
  BY SpelledIs
<1>2. x \in CEnum(e.name, e.values) <=>
        \/ x = Type(e.name)
        \/ x = Fact("constant", <<"k" \o e.name \o "ForceSigned">>, e.name, <<-1>>)
        \/ x = Fact("constant", <<"kNum" \o e.name>>, e.name, <<c>>)
        \/ \E n \in DOMAIN e.values : x = at(n)
  BY Zenon DEF CEnum, CEnumerators
<1>3. /\ EnumFact(e, 1) = Fact("constant", <<"k" \o e.name \o "ForceSigned">>, e.name, <<-1>>)
      /\ EnumFact(e, 2) = Fact("constant", <<"kNum" \o e.name>>, e.name, <<c>>)
  BY <1>1 DEF EnumFact, EnumValue
<1>4. ASSUME NEW n \in 1 .. c PROVE EnumFact(e, n + 2) = at(n)
  <2>1. EnumValue(e, n + 2) = n - 1
    <3>1. n + 2 # 1 /\ n + 2 # 2 /\ (n + 2) - 3 = n - 1
      BY <1>1
    <3> QED
      BY <3>1 DEF EnumValue
  <2> QED
    BY <1>1, <2>1 DEF EnumFact
<1> HIDE DEF at, c
<1>5. \A n \in 1 .. (c + 2) : n = 1 \/ n = 2 \/ (n - 2 \in 1 .. c /\ (n - 2) + 2 = n)
  BY <1>1
<1>6. 1 \in 1 .. (c + 2) /\ 2 \in 1 .. (c + 2) /\ \A n \in 1 .. c : n + 2 \in 1 .. (c + 2)
  BY <1>1
<1>7. ASSUME NEW n \in 1 .. (c + 2), x = EnumFact(e, n)
      PROVE  \/ x = EnumFact(e, 1) \/ x = EnumFact(e, 2)
             \/ \E l \in 1 .. c : x = at(l)
  <2>1. CASE n = 1 \/ n = 2
    BY <1>7, <2>1
  <2>2. CASE n # 1 /\ n # 2
    <3>1. n - 2 \in 1 .. c /\ (n - 2) + 2 = n
      BY <1>5, <2>2
    <3>2. EnumFact(e, (n - 2) + 2) = at(n - 2)
      BY <1>4, <3>1
    <3> QED
      BY <1>7, <3>1, <3>2
  <2> QED
    BY <2>1, <2>2
<1>8. ASSUME NEW l \in 1 .. c, x = at(l) PROVE \E n \in DOMAIN Spelled(e) : x = EnumFact(e, n)
  BY <1>1, <1>4, <1>6, <1>8
<1> QED
  BY <1>1, <1>2, <1>3, <1>6, <1>7, <1>8

\* No two identifiers of an enum have one value.
LEMMA ValuesDiffer ==
  ASSUME NEW e, IsSeq(e.values), NEW m \in DOMAIN Spelled(e), NEW n \in DOMAIN Spelled(e),
         EnumFact(e, m).ns = EnumFact(e, n).ns
  PROVE  m = n
<1> DEFINE c == Len(e.values)
<1>1. m \in 1 .. (c + 2) /\ n \in 1 .. (c + 2) /\ c \in Nat
  BY SpelledIs
<1>2. <<EnumValue(e, m)>> = <<EnumValue(e, n)>>
  BY FactIs DEF EnumFact
<1>3. EnumValue(e, m) = EnumValue(e, n)
  <2> DEFINE v == EnumValue(e, m)  w == EnumValue(e, n)
  <2> HIDE DEF v, w
  <2>1. <<v>>[1] = <<w>>[1]
    BY <1>2 DEF v, w
  <2> QED
    BY <2>1 DEF v, w
<1>4. /\ EnumValue(e, m) = IF m = 1 THEN -1 ELSE IF m = 2 THEN c ELSE m - 3
      /\ EnumValue(e, n) = IF n = 1 THEN -1 ELSE IF n = 2 THEN c ELSE n - 3
  BY DEF EnumValue
<1> HIDE DEF c
<1>5. ASSUME NEW i \in 1 .. (c + 2)
      PROVE  LET v == IF i = 1 THEN -1 ELSE IF i = 2 THEN c ELSE i - 3
             IN  /\ v = -1 => i = 1
                 /\ v = c => i = 2
                 /\ v \notin {-1, c} => i = v + 3
  BY <1>1
<1> QED
  BY <1>1, <1>3, <1>4, <1>5

-----------------------------------------------------------------------------
\* The enums of a C library.
MessageEnum(types) == [name |-> "SsMsgType", values |-> Append(NameSeq(Messages(types)), "Unknown")]
LibraryEnum == [name |-> "SsStatus", values |-> StatusNames]
EnumOf(t) == [name |-> t.name, values |-> NameSeq(t.fields)]

LEMMA EnumsAre ==
  ASSUME NEW types, Usable(types), NEW e
  PROVE  /\ e \in CEnums(types) <=>
              \/ e = MessageEnum(types) \/ e = LibraryEnum
              \/ \E i \in DOMAIN Declared(types) :
                   Declared(types)[i].kind = "Enum" /\ e = EnumOf(Declared(types)[i])
         /\ e \in CEnums(types) => IsSeq(e.values)
<1> DEFINE D == Declared(types)
           enums == Range(OfKind(types, {"Enum"}))
<1>1. IsSeq(types) /\ \A t \in Range(types) : IsSeq(t.fields)
  BY UsableHas
<1>2. enums = {t \in Range(D) : t.kind = "Enum"} /\ Range(D) \subseteq Range(types)
  <2>1. "Enum" \in Kinds
    BY DEF Kinds
  <2> QED
    BY <1>1, <2>1, DeclaredAre
<1>3. e \in CEnums(types) <=>
        e = MessageEnum(types) \/ e = LibraryEnum \/ \E t \in enums : e = EnumOf(t)
  BY Zenon DEF CEnums, MessageEnum, LibraryEnum, EnumOf, StatusNames
<1> HIDE DEF D, enums
<1>4. (\E t \in enums : e = EnumOf(t)) <=>
        \E i \in DOMAIN D : D[i].kind = "Enum" /\ e = EnumOf(D[i])
  BY <1>2 DEF Range
<1>5. ASSUME e \in CEnums(types) PROVE IsSeq(e.values)
  <2>1. CASE e = MessageEnum(types)
    <3>1. e.values = Append(NameSeq(Messages(types)), "Unknown")
      BY <2>1 DEF MessageEnum
    <3> QED
      BY <1>1, <3>1, ValuesAre
  <2>2. CASE e = LibraryEnum
    <3>1. e.values = StatusNames
      BY <2>2 DEF LibraryEnum
    <3> QED
      BY <1>1, <3>1, ValuesAre
  <2>3. CASE \E t \in enums : e = EnumOf(t)
    <3>1. PICK t \in enums : e = EnumOf(t)
      BY <2>3
    <3>2. IsSeq(t.fields) /\ e.values = NameSeq(t.fields)
      BY <1>1, <1>2, <3>1 DEF EnumOf
    <3> QED
      BY <3>2, NamesOf
  <2> QED
    BY <1>3, <1>5, <2>1, <2>2, <2>3
<1> QED
  BY <1>3, <1>4, <1>5 DEF D

\* An identifier, what states it, and the item that does.  A function may be stated again:
\* it is of no item.
CVariables == {"kSsLogDelimiter", "kMessageUids", "kSsMsgTypes", "kYamlHeader"}
CFunctions == {"GetSsMsgTypeFromUid", "SsInspectHeader", "SsWriteLogHeader", "SsFindLogDelimiter",
               "SsWriteFile", "SsReadFile"}
FunctionType(f) == IF f = "GetSsMsgTypeFromUid" THEN "SsMsgType" ELSE "void"

DeclaredAt(types, t, p) == \E i \in DOMAIN Declared(types) : Declared(types)[i] = t /\ p = 4 + i
TypePlace(types, n, p) == IF n < NumBuiltins THEN p = 1 ELSE DeclaredAt(types, types[n], p)
VariablePlace(types, v) ==
  Len(Declared(types)) +
    CASE v = "kSsLogDelimiter" -> 6 [] v = "kYamlHeader" -> Len(types) + 9 [] OTHER -> Len(types) + 8
EnumPlace(types, e, p) ==
  \/ e = MessageEnum(types) /\ p = 3
  \/ e = LibraryEnum /\ p = 4
  \/ \E t \in Range(Declared(types)) : t.kind = "Enum" /\ e = EnumOf(t) /\ DeclaredAt(types, t, p)

TypeStates(types, a, x, p) ==
  \/ \E n \in DOMAIN types :
       a = TypeId(types, n) /\ x = Type(CTypeName(types[n].name)) /\ TypePlace(types, n, p)
  \/ a = LibraryId("SsMsgType") /\ x = Type("SsMsgType") /\ p = 3
  \/ a = LibraryId("SsStatus") /\ x = Type("SsStatus") /\ p = 4
VariableStates(types, a, x, p) ==
  \E v \in CVariables : a = LibraryId(v) /\ x = Variable(v) /\ p = VariablePlace(types, v)
PackFact(t) == Function("SsPack" \o Camel[t.name], CTypeName(t.name))
UnpackFact(t) == Function("SsUnpack" \o Camel[t.name], CTypeName(t.name))
FunctionStates(types, a, x, p) ==
  /\ p = 0
  /\ \/ \E f \in CFunctions : a = LibraryId(f) /\ x = Function(f, FunctionType(f))
     \/ \E n \in DOMAIN types :
          \/ a = PackId(types, n) /\ x = PackFact(types[n])
          \/ a = UnpackId(types, n) /\ x = UnpackFact(types[n])
          \/ types[n].kind = "Message" /\ a = LogId(types, n) /\ x = LogFact(types[n])
EnumStates(types, a, x, p) ==
  \E e \in CEnums(types) : \E n \in DOMAIN Spelled(e) :
    a = EnumId(e, n) /\ x = EnumFact(e, n) /\ EnumPlace(types, e, p)
CStates(types, a, x, p) ==
  \/ TypeStates(types, a, x, p) \/ VariableStates(types, a, x, p)
  \/ FunctionStates(types, a, x, p) \/ EnumStates(types, a, x, p)

LEMMA FunctionIs ==
  ASSUME NEW name, NEW is
  PROVE  Function(name, is).kind = "function" /\ Function(name, is).name = <<name>> /\ Function(name, is).is = is
BY Zenon DEF Function, Fact
LEMMA FunctionFacts ==
  ASSUME NEW t
  PROVE  /\ PackFact(t).kind = "function" /\ PackFact(t).name = <<"SsPack" \o Camel[t.name]>>
         /\ PackFact(t).is = CTypeName(t.name)
         /\ UnpackFact(t).kind = "function" /\ UnpackFact(t).name = <<"SsUnpack" \o Camel[t.name]>>
         /\ UnpackFact(t).is = CTypeName(t.name)
         /\ LogFact(t).kind = "function" /\ LogFact(t).name = <<"SsLog" \o t.name>> /\ LogFact(t).is = t.name
BY Zenon DEF PackFact, UnpackFact, LogFact, Function, Fact

\* What states an identifier has its name, and is of the kind that the statement is.
LEMMA StatesName ==
  ASSUME NEW types, NEW a, NEW x, NEW p
  PROVE  /\ TypeStates(types, a, x, p) => x.name = <<a.name>> /\ x.kind = "type"
         /\ VariableStates(types, a, x, p) => x.name = <<a.name>> /\ x.kind = "constant" /\ x.ns = <<>>
         /\ FunctionStates(types, a, x, p) => x.name = <<a.name>> /\ x.kind = "function" /\ p = 0
         /\ EnumStates(types, a, x, p) => x.name = <<a.name>> /\ x.kind = "constant" /\ x.ns # <<>>
<1>1. ASSUME TypeStates(types, a, x, p) PROVE x.name = <<a.name>> /\ x.kind = "type"
  <2>1. CASE \E n \in DOMAIN types : a = TypeId(types, n) /\ x = Type(CTypeName(types[n].name))
    BY <2>1, TypeIdIs, TypeIs
  <2>2. CASE \E name : a = LibraryId(name) /\ x = Type(name)
    BY <2>2, LibraryIdIs, TypeIs
  <2> QED
    BY <1>1, <2>1, <2>2 DEF TypeStates
<1>2. ASSUME VariableStates(types, a, x, p) PROVE x.name = <<a.name>> /\ x.kind = "constant" /\ x.ns = <<>>
  <2>1. PICK v \in CVariables : a = LibraryId(v) /\ x = Variable(v)
    BY <1>2 DEF VariableStates
  <2> QED
    BY <2>1, LibraryIdIs, VariableIs
<1>3. ASSUME FunctionStates(types, a, x, p) PROVE x.name = <<a.name>> /\ x.kind = "function" /\ p = 0
  <2>2. CASE \E f \in CFunctions : a = LibraryId(f) /\ x = Function(f, FunctionType(f))
    BY <1>3, <2>2, FunctionIs, LibraryIdIs DEF FunctionStates
  <2>3. ASSUME NEW n \in DOMAIN types, a = PackId(types, n), x = PackFact(types[n])
        PROVE  x.name = <<a.name>> /\ x.kind = "function"
    <3>1. a.name = "SsPack" \o Camel[types[n].name]
      BY <2>3, PackIdIs
    <3>2. x.name = <<"SsPack" \o Camel[types[n].name]>> /\ x.kind = "function"
      BY <2>3, FunctionFacts
    <3> QED
      BY <3>1, <3>2
  <2>4. ASSUME NEW n \in DOMAIN types, a = UnpackId(types, n), x = UnpackFact(types[n])
        PROVE  x.name = <<a.name>> /\ x.kind = "function"
    <3>1. a.name = "SsUnpack" \o Camel[types[n].name]
      BY <2>4, UnpackIdIs
    <3>2. x.name = <<"SsUnpack" \o Camel[types[n].name]>> /\ x.kind = "function"
      BY <2>4, FunctionFacts
    <3> QED
      BY <3>1, <3>2
  <2>5. ASSUME NEW n \in DOMAIN types, a = LogId(types, n), x = LogFact(types[n])
        PROVE  x.name = <<a.name>> /\ x.kind = "function"
    <3>1. a.name = "SsLog" \o types[n].name
      BY <2>5, LogIdIs
    <3>2. x.name = <<"SsLog" \o types[n].name>> /\ x.kind = "function"
      BY <2>5, FunctionFacts
    <3> QED
      BY <3>1, <3>2
  <2> QED
    BY <1>3, <2>2, <2>3, <2>4, <2>5 DEF FunctionStates
<1>4. ASSUME EnumStates(types, a, x, p) PROVE x.name = <<a.name>> /\ x.kind = "constant" /\ x.ns # <<>>
  <2>1. PICK e, n : a = EnumId(e, n) /\ x = EnumFact(e, n)
    BY <1>4 DEF EnumStates
  <2> DEFINE v == EnumValue(e, n)
  <2>2. x.name = <<Spelled(e)[n]>> /\ x.kind = "constant" /\ x.ns = <<v>>
    BY <2>1, FactIs DEF EnumFact
  <2> HIDE DEF v
  <2>3. Len(<<v>>) # Len(<<>>)
    OBVIOUS
  <2>4. <<v>> # <<>>
    BY <2>3
  <2> QED
    BY <2>1, <2>2, <2>4, EnumIdIs
<1> QED
  BY <1>1, <1>2, <1>3, <1>4

-----------------------------------------------------------------------------
\* The primitive types come first; every other type is declared, by its own name.
LEMMA TypeFacts ==
  ASSUME NEW types, Usable(types), NEW n \in DOMAIN types
  PROVE  /\ n \in Nat /\ NumBuiltins \in Nat /\ types[n].name \in DOMAIN Camel
         /\ n < NumBuiltins => types[n].kind = "Primitive" /\ types[n].name \in Range(Primitive)
         /\ ~(n < NumBuiltins) =>
              /\ types[n].kind \in Kinds /\ types[n].name \notin Range(Primitive)
              /\ types[n].name \notin DOMAIN CIntegers /\ CTypeName(types[n].name) = types[n].name
              /\ types[n] \in Range(Declared(types))
<1> DEFINE t == types[n]
<1>1. /\ IsSeq(types) /\ DOMAIN types = 1 .. Len(types) /\ Len(types) \in Nat /\ NumBuiltins \in Nat
      /\ t \in Range(types) /\ TypeUsable(t, n)
  BY BuiltinsAre, SeqIs DEF Usable, AllReady, Range
<1>2. n \in Nat
  BY <1>1
<1> HIDE DEF t
<1>3. t.name \in DOMAIN Camel
  BY <1>1 DEF TypeUsable
<1>4. ASSUME n < NumBuiltins PROVE t.kind = "Primitive" /\ t.name \in Range(Primitive)
  <2>1. t = TypeObj(Primitive[n], "Primitive", <<>>) /\ t.name \in Range(Primitive)
    BY <1>1, <1>4 DEF TypeUsable
  <2> QED
    BY <2>1, ObjIs
<1>5. ASSUME ~(n < NumBuiltins)
      PROVE  /\ t.kind \in Kinds /\ t.name \notin Range(Primitive)
             /\ t.name \notin DOMAIN CIntegers /\ CTypeName(t.name) = t.name
             /\ t \in Range(Declared(types))
  <2>1. CASE n = NumBuiltins
    <3>1. t.kind = "Struct" /\ t.name = "SsHeader"
      BY <1>1, <2>1 DEF TypeUsable
    <3> QED
      BY <1>1, <3>1, PrimitiveAssumption, DeclaredAre, IntegerAssumption
         DEF PrimitiveAssumption, IntegerAssumption, CTypeName, Kinds
  <2>2. CASE n > NumBuiltins
    <3>1. t.kind \in Kinds /\ t.name \notin Range(Primitive)
      BY <1>1, <2>2 DEF TypeUsable, Reserved
    <3> QED
      BY <1>1, <3>1, DeclaredAre, IntegerAssumption DEF IntegerAssumption, CTypeName
  <2>3. n = NumBuiltins \/ n > NumBuiltins
    BY <1>1, <1>2, <1>5
  <2> QED
    BY <2>1, <2>2, <2>3
<1> QED
  BY <1>1, <1>2, <1>3, <1>4, <1>5 DEF t

LEMMA PrimitiveFound ==
  ASSUME NEW types, Usable(types), NEW name \in Range(Primitive)
  PROVE  \E n \in DOMAIN types : n < NumBuiltins /\ types[n].name = name
<1>1. /\ DOMAIN types = 1 .. Len(types) /\ Len(types) \in Nat /\ NumBuiltins <= Len(types)
      /\ \A n \in DOMAIN types : TypeUsable(types[n], n)
  BY DEF Usable, AllReady
<1>2. NumBuiltins \in Nat /\ DOMAIN Primitive = 1 .. (NumBuiltins - 1)
  <2>1. NumBuiltins - 1 = Len(Primitive) /\ NumBuiltins \in Nat
    BY BuiltinsAre, PrimitiveAssumption, LenProperties DEF PrimitiveAssumption, NumBuiltins
  <2> QED
    BY <2>1, PrimitiveAssumption, LenProperties DEF PrimitiveAssumption
<1>3. PICK n \in DOMAIN Primitive : Primitive[n] = name
  BY DEF Range
<1>4. n \in DOMAIN types /\ n < NumBuiltins
  BY <1>1, <1>2, <1>3
<1>5. types[n] = TypeObj(Primitive[n], "Primitive", <<>>)
  BY <1>1, <1>4 DEF TypeUsable
<1>6. types[n].name = name
  BY <1>3, <1>5, ObjIs
<1> QED
  BY <1>4, <1>6

\* A declared type has one place, of its own, after those of the types before it.
LEMMA DeclaredPlaces ==
  ASSUME NEW types, Usable(types)
  PROVE  /\ \A t \in Range(Declared(types)) : \E p : DeclaredAt(types, t, p)
         /\ \A t, p : DeclaredAt(types, t, p) =>
              /\ t \in Range(Declared(types)) /\ p \in 5 .. (Len(Declared(types)) + 4)
              /\ Len(Declared(types)) \in Nat
         /\ \A t, p, q : DeclaredAt(types, t, p) /\ DeclaredAt(types, t, q) => p = q
         /\ \A t, u, p : DeclaredAt(types, t, p) /\ DeclaredAt(types, u, p) => t = u
<1> DEFINE D == Declared(types)
           L == Len(D)
<1>1. IsSeq(D) /\ Distinct(D)
  BY UsableHas, OfKindHas DEF Declared
<1> HIDE DEF D
<1>2. DOMAIN D = 1 .. L /\ L \in Nat
  BY <1>1, SeqIs
<1>3. \A t, p : DeclaredAt(types, t, p) <=> \E i \in 1 .. L : D[i] = t /\ p = 4 + i
  BY <1>2 DEF DeclaredAt, D
<1> HIDE DEF L
<1>4. ASSUME NEW t \in Range(D) PROVE \E p : DeclaredAt(types, t, p)
  <2>1. PICK i \in 1 .. L : D[i] = t
    BY <1>2 DEF Range
  <2>2. DeclaredAt(types, t, 4 + i)
    BY <1>3, <2>1
  <2> QED
    BY <2>2
<1>5. ASSUME NEW t, NEW p, DeclaredAt(types, t, p) PROVE t \in Range(D) /\ p \in 5 .. (L + 4)
  BY <1>2, <1>3, <1>5 DEF Range
<1>6. ASSUME NEW t, NEW p, NEW q, DeclaredAt(types, t, p), DeclaredAt(types, t, q) PROVE p = q
  BY <1>1, <1>2, <1>3, <1>6 DEF Distinct
<1>7. ASSUME NEW t, NEW u, NEW p, DeclaredAt(types, t, p), DeclaredAt(types, u, p) PROVE t = u
  BY <1>2, <1>3, <1>7
<1> QED
  BY <1>2, <1>4, <1>5, <1>6, <1>7 DEF D, L

LEMMA DeclaredOrder ==
  ASSUME NEW types, Usable(types), NEW m \in DOMAIN types, NEW n \in DOMAIN types, m < n,
         NEW p, DeclaredAt(types, types[m], p), NEW q, DeclaredAt(types, types[n], q)
  PROVE  p < q
<1> DEFINE D == Declared(types)
           N == Len(types)
<1>1. IsSeq(types) /\ Distinct(types) /\ DOMAIN types = 1 .. N /\ N \in Nat
  BY UsableHas, SeqIs
<1> HIDE DEF N
<1>2. PICK at : TakenAt(D, at, types, Kinds, N)
  BY <1>1, OfKindIs DEF Declared
<1> HIDE DEF D
<1>3. IsSeq(D)
  BY <1>2 DEF TakenAt
<1>4. DOMAIN D = 1 .. Len(D) /\ Len(D) \in Nat
  BY <1>3, SeqIs
<1>5. PICK a \in 1 .. Len(D) : D[a] = types[m] /\ p = 4 + a
  BY <1>4 DEF DeclaredAt, D
<1>6. PICK b \in 1 .. Len(D) : D[b] = types[n] /\ q = 4 + b
  BY <1>4 DEF DeclaredAt, D
<1>7. at[a] \in DOMAIN types /\ at[b] \in DOMAIN types /\ D[a] = types[at[a]] /\ D[b] = types[at[b]]
  BY <1>1, <1>2 DEF TakenAt
<1>8. at[a] = m /\ at[b] = n
  BY <1>1, <1>5, <1>6, <1>7 DEF Distinct
<1>9. ~(b < a) /\ a # b
  <2>1. b < a => at[b] < at[a]
    BY <1>2 DEF TakenAt
  <2> QED
    BY <1>1, <1>8, <2>1
<1> QED
  BY <1>4, <1>5, <1>6, <1>9

-----------------------------------------------------------------------------
\* What declares a type.
MemberFact(types, t, f) ==
  IF t.kind = "Bitfield" THEN Fact("member", Scoped(t.name, f.name), BitfieldType(t), <<f.bits>>)
  ELSE FieldFact(types, t, f)

LEMMA MemberIs ==
  ASSUME NEW types, NEW t, NEW f
  PROVE  MemberFact(types, t, f).kind = "member" /\ MemberFact(types, t, f).name = Scoped(t.name, f.name)
BY Zenon DEF MemberFact, FieldFact, Fact

LEMMA CDeclares ==
  ASSUME NEW types, Usable(types), NEW t \in Range(Declared(types)), NEW x
  PROVE  /\ t.kind = "Enum" =>
              (x \in CDeclaration(types, t).facts <=>
                 x = Type(t.name) \/ \E n \in DOMAIN Spelled(EnumOf(t)) : x = EnumFact(EnumOf(t), n))
         /\ t.kind # "Enum" =>
              (x \in CDeclaration(types, t).facts <=>
                 x = Type(t.name) \/ \E f \in Range(t.fields) : x = MemberFact(types, t, f))
<1>1. IsSeq(types) /\ t.kind \in Kinds /\ t \in Range(types) /\ IsSeq(t.fields)
  <2>1. IsSeq(types) /\ \A u \in Range(types) : IsSeq(u.fields)
    BY UsableHas
  <2> QED
    BY <2>1, DeclaredAre
<1>2. CASE t.kind = "Enum"
  <2> DEFINE e == EnumOf(t)
  <2>1. CDeclaration(types, t).facts = CEnum(t.name, NameSeq(t.fields))
    BY <1>2 DEF CDeclaration, Item
  <2>2. e.name = t.name /\ e.values = NameSeq(t.fields) /\ IsSeq(NameSeq(t.fields))
    BY <1>1, NamesOf DEF EnumOf
  <2> HIDE DEF e
  <2>3. x \in CEnum(e.name, e.values) <=> x = Type(e.name) \/ \E n \in DOMAIN Spelled(e) : x = EnumFact(e, n)
    BY <2>2, CEnumIs
  <2> QED
    BY <1>2, <2>1, <2>2, <2>3 DEF e
<1>3. CASE t.kind = "Bitfield"
  <2>1. CDeclaration(types, t).facts = BitfieldFacts(t)
    BY <1>3 DEF CDeclaration, Item
  <2> DEFINE at(f) == Fact("member", Scoped(t.name, f.name), BitfieldType(t), <<f.bits>>)
  <2>2. BitfieldFacts(t) = {Type(t.name)} \cup {at(f) : f \in Range(t.fields)}
    BY DEF BitfieldFacts
  <2>3. \A f : MemberFact(types, t, f) = at(f)
    BY <1>3 DEF MemberFact
  <2> HIDE DEF at
  <2> QED
    BY <1>3, <2>1, <2>2, <2>3
<1>4. CASE t.kind \notin {"Enum", "Bitfield"}
  <2>1. CDeclaration(types, t).facts = StructFacts(types, t)
    BY <1>4 DEF CDeclaration, Item
  <2>2. StructFacts(types, t) = {Type(t.name)} \cup {FieldFact(types, t, f) : f \in Range(t.fields)}
    BY DEF StructFacts
  <2>3. \A f : MemberFact(types, t, f) = FieldFact(types, t, f)
    BY <1>4 DEF MemberFact
  <2> QED
    BY <1>4, <2>1, <2>2, <2>3
<1> QED
  BY <1>2, <1>3, <1>4

\* What each item of a C library states.
CFactsAre(lib, types, L, N) ==
  LET messages == Range(Messages(types))
  IN  /\ IsSeq(types) /\ L \in Nat /\ N \in Nat /\ L = Len(Declared(types)) /\ N = Len(types)
      /\ DOMAIN Declared(types) = 1 .. L /\ DOMAIN types = 1 .. N
      /\ DOMAIN lib = 1 .. (L + N + 10)
      /\ lib[1].facts = {Type(CTypeName(name)) : name \in Range(Primitive)}
      /\ lib[2].facts = Port /\ lib[3].facts = MessageTypeEnum(types) /\ lib[4].facts = StatusEnum
      /\ \A n \in 1 .. L : lib[4 + n].facts = CDeclaration(types, Declared(types)[n]).facts
      /\ lib[L + 5].facts = CMacros(types)
      /\ lib[L + 6].facts = (UNION {PackFacts(m) \cup {LogFact(m)} : m \in messages}) \cup Helpers
                              \cup {LogDelimiter}
      /\ lib[L + 7].facts = {}
      /\ \A n \in 1 .. N : lib[L + 7 + n].facts = PackFacts(types[n])
      /\ lib[L + N + 8].facts = {Variable("kMessageUids"), Variable("kSsMsgTypes"),
                                 Function("GetSsMsgTypeFromUid", "SsMsgType")}
      /\ lib[L + N + 9].facts = {Variable("kYamlHeader")} \cup Helpers
      /\ lib[L + N + 10].facts = {LogFact(m) : m \in messages}

LEMMA CFactsAt ==
  ASSUME NEW types, IsSeq(types), NEW quoted, NEW lib, CItems(lib, types, quoted)
  PROVE  CFactsAre(lib, types, Len(Declared(types)), Len(types))
<1> DEFINE D == Declared(types)
           L == Len(D)
           N == Len(types)
           messages == Range(Messages(types))
           macros == {PackedSizeMacro(types, m) : m \in messages} \cup {HeaderSizeMacro}
           i1 == {Type(CTypeName(p)) : p \in Range(Primitive)}
           i6 == (UNION {PackFacts(m) \cup {LogFact(m)} : m \in messages}) \cup Helpers \cup {LogDelimiter}
           i8 == {Variable(v) : v \in {"kMessageUids", "kSsMsgTypes"}}
                   \cup {Function("GetSsMsgTypeFromUid", "SsMsgType")}
           i9 == {Variable("kYamlHeader")} \cup Helpers
           i10 == {LogFact(m) : m \in messages}
<1>1. N \in Nat /\ DOMAIN types = 1 .. N
  BY SeqIs
<1>2. L \in Nat /\ DOMAIN D = 1 .. L
  <2>1. IsSeq(D)
    BY OfKindHas DEF Declared
  <2> HIDE DEF D
  <2> QED
    BY <2>1, SeqIs
<1>3. /\ DOMAIN lib = 1 .. (L + N + 10) /\ lib[1] = Item(i1, {}, TRUE)
      /\ lib[2] = Item(Port, {}, TRUE)
      /\ lib[3] = Item(MessageTypeEnum(types), {}, messages # {})
      /\ lib[4] = Item(StatusEnum, {}, TRUE)
      /\ \A n \in 1 .. L : lib[4 + n] = CDeclaration(types, D[n])
      /\ lib[L + 5] = Item(macros, {}, TRUE)
      /\ lib[L + 6] = Item(i6, {}, TRUE)
      /\ lib[L + 7] = StaticAsserts(types)
      /\ \A n \in 1 .. N : lib[L + 7 + n] = CPacking(types, types[n])
      /\ lib[L + N + 8] = Item(i8, {FunctionUse("SsUnpackSsHeader")}, TRUE)
      /\ lib[L + N + 9] = Item(i9, {<<"constant", LogDelimiter.name>>}, ~quoted)
      /\ lib[L + N + 10] = Item(i10, {}, TRUE)
  BY DEF CItems
<1>4. macros = CMacros(types)
  BY DEF CMacros
<1>5. i8 = {Variable("kMessageUids"), Variable("kSsMsgTypes"), Function("GetSsMsgTypeFromUid", "SsMsgType")}
  <2> DEFINE v8 == {Variable(v) : v \in {"kMessageUids", "kSsMsgTypes"}}
  <2>1. v8 = {Variable("kMessageUids"), Variable("kSsMsgTypes")}
    OBVIOUS
  <2> HIDE DEF v8
  <2> QED
    BY <2>1 DEF v8
<1>6. \A n \in 1 .. N : CPacking(types, types[n]).facts = PackFacts(types[n])
  <2>1. \A t : CPacking(types, t).facts = PackFacts(t)
    BY Zenon DEF CPacking, Item
  <2> QED
    BY <2>1
<1>7. StaticAsserts(types).facts = {}
  BY DEF StaticAsserts, Item
<1> HIDE DEF i1, i6, i8, i9, i10, macros, messages
<1>8. /\ Item(i1, {}, TRUE).facts = i1 /\ Item(Port, {}, TRUE).facts = Port
      /\ Item(MessageTypeEnum(types), {}, messages # {}).facts = MessageTypeEnum(types)
      /\ Item(StatusEnum, {}, TRUE).facts = StatusEnum /\ Item(macros, {}, TRUE).facts = macros
      /\ Item(i6, {}, TRUE).facts = i6
      /\ Item(i8, {FunctionUse("SsUnpackSsHeader")}, TRUE).facts = i8
      /\ Item(i9, {<<"constant", LogDelimiter.name>>}, ~quoted).facts = i9
      /\ Item(i10, {}, TRUE).facts = i10
  BY Zenon DEF Item
<1> HIDE DEF L, N, D
<1>9. /\ IsSeq(types) /\ L \in Nat /\ N \in Nat /\ DOMAIN D = 1 .. L /\ DOMAIN types = 1 .. N
      /\ DOMAIN lib = 1 .. (L + N + 10)
      /\ lib[1].facts = i1 /\ lib[2].facts = Port /\ lib[3].facts = MessageTypeEnum(types)
      /\ lib[4].facts = StatusEnum
      /\ \A n \in 1 .. L : lib[4 + n].facts = CDeclaration(types, D[n]).facts
      /\ lib[L + 5].facts = macros /\ lib[L + 6].facts = i6 /\ lib[L + 7].facts = {}
      /\ \A n \in 1 .. N : lib[L + 7 + n].facts = PackFacts(types[n])
      /\ lib[L + N + 8].facts = i8 /\ lib[L + N + 9].facts = i9 /\ lib[L + N + 10].facts = i10
  BY <1>1, <1>2, <1>3, <1>6, <1>7, <1>8
<1> QED
  BY <1>4, <1>5, <1>9 DEF CFactsAre, L, N, D, i1, i6, i9, i10, messages

\* What states an identifier of the library is in it, at its place.
LEMMA CStated ==
  ASSUME NEW types, Usable(types), NEW lib, NEW L, NEW N, CFactsAre(lib, types, L, N),
         NEW a, NEW x, NEW p, CStates(types, a, x, p)
  PROVE  /\ x \in Facts(lib)
         /\ x.kind # "function" => p \in DOMAIN lib /\ x \in lib[p].facts
<1> DEFINE D == Declared(types)
<1>1. /\ L \in Nat /\ N \in Nat /\ L = Len(D) /\ N = Len(types) /\ DOMAIN D = 1 .. L /\ DOMAIN types = 1 .. N
      /\ IsSeq(types) /\ DOMAIN lib = 1 .. (L + N + 10)
      /\ lib[1].facts = {Type(CTypeName(name)) : name \in Range(Primitive)}
      /\ lib[2].facts = Port /\ lib[3].facts = MessageTypeEnum(types) /\ lib[4].facts = StatusEnum
      /\ \A n \in 1 .. L : lib[4 + n].facts = CDeclaration(types, D[n]).facts
      /\ \A n \in 1 .. N : lib[L + 7 + n].facts = PackFacts(types[n])
      /\ LogDelimiter \in lib[L + 6].facts
      /\ lib[L + N + 8].facts = {Variable("kMessageUids"), Variable("kSsMsgTypes"),
                                 Function("GetSsMsgTypeFromUid", "SsMsgType")}
      /\ lib[L + N + 9].facts = {Variable("kYamlHeader")} \cup Helpers
      /\ lib[L + N + 10].facts = {LogFact(m) : m \in Range(Messages(types))}
  BY DEF CFactsAre
<1>2. /\ 1 \in DOMAIN lib /\ 2 \in DOMAIN lib /\ 3 \in DOMAIN lib /\ 4 \in DOMAIN lib
      /\ L + 6 \in DOMAIN lib /\ L + N + 8 \in DOMAIN lib /\ L + N + 9 \in DOMAIN lib
      /\ L + N + 10 \in DOMAIN lib
      /\ \A n \in 1 .. L : 4 + n \in DOMAIN lib
      /\ \A n \in 1 .. N : L + 7 + n \in DOMAIN lib
  BY ONLY <1>1
<1> HIDE DEF D
<1>3. SUFFICES /\ x \in Facts(lib) \/ (p \in DOMAIN lib /\ x \in lib[p].facts)
               /\ x.kind # "function" => p \in DOMAIN lib /\ x \in lib[p].facts
  BY Stated
<1>4. ASSUME NEW n \in DOMAIN lib, x \in lib[n].facts PROVE x \in Facts(lib)
  BY <1>4, Stated
<1>5. ASSUME NEW t, DeclaredAt(types, t, p) PROVE p \in DOMAIN lib /\ lib[p].facts = CDeclaration(types, t).facts
  BY <1>1, <1>2, <1>5 DEF DeclaredAt, D
<1>6. CASE TypeStates(types, a, x, p)
  <2>1. CASE \E n \in DOMAIN types : x = Type(CTypeName(types[n].name)) /\ TypePlace(types, n, p)
    <3>1. PICK n \in DOMAIN types : x = Type(CTypeName(types[n].name)) /\ TypePlace(types, n, p)
      BY <2>1
    <3>2. CASE n < NumBuiltins
      <4>1. p = 1 /\ types[n].name \in Range(Primitive)
        BY <3>1, <3>2, TypeFacts DEF TypePlace
      <4>2. x \in lib[1].facts
        BY <1>1, <3>1, <4>1
      <4> QED
        BY <1>2, <4>1, <4>2
    <3>3. CASE ~(n < NumBuiltins)
      <4> DEFINE t == types[n]
      <4>1. DeclaredAt(types, t, p) /\ CTypeName(t.name) = t.name /\ t \in Range(Declared(types))
        BY <3>1, <3>3, TypeFacts DEF TypePlace
      <4> HIDE DEF t
      <4>2. x = Type(t.name)
        BY <3>1, <4>1 DEF t
      <4>3. x \in CDeclaration(types, t).facts
        BY <4>1, <4>2, CDeclares
      <4> QED
        BY <1>5, <4>1, <4>3
    <3> QED
      BY <3>2, <3>3
  <2>2. CASE x = Type("SsMsgType") /\ p = 3
    <3>1. x \in MessageTypeEnum(types)
      BY <2>2 DEF MessageTypeEnum, CEnum
    <3> QED
      BY <1>1, <1>2, <2>2, <3>1
  <2>3. CASE x = Type("SsStatus") /\ p = 4
    <3>1. x \in StatusEnum
      BY <2>3 DEF StatusEnum, CEnum
    <3> QED
      BY <1>1, <1>2, <2>3, <3>1
  <2> QED
    BY <1>6, <2>1, <2>2, <2>3 DEF TypeStates
<1>7. CASE VariableStates(types, a, x, p)
  <2>1. PICK v \in CVariables : x = Variable(v) /\ p = VariablePlace(types, v)
    BY <1>7 DEF VariableStates
  <2>2. CASE v = "kSsLogDelimiter"
    <3>1. x = LogDelimiter /\ p = L + 6
      BY <1>1, <2>1, <2>2 DEF LogDelimiter, VariablePlace, D
    <3> QED
      BY <1>1, <1>2, <3>1
  <2>3. CASE v = "kYamlHeader"
    <3>1. p = L + (N + 9)
      BY <1>1, <2>1, <2>3 DEF VariablePlace, D
    <3>2. p = L + N + 9
      BY <1>1, <3>1
    <3> QED
      BY <1>1, <1>2, <2>1, <2>3, <3>2
  <2>4. CASE v \in {"kMessageUids", "kSsMsgTypes"}
    <3>1. p = L + (N + 8)
      BY <1>1, <2>1, <2>4 DEF VariablePlace, D
    <3>2. p = L + N + 8
      BY <1>1, <3>1
    <3> QED
      BY <1>1, <1>2, <2>1, <2>4, <3>2
  <2> QED
    BY <2>2, <2>3, <2>4 DEF CVariables
<1>8. CASE FunctionStates(types, a, x, p)
  <2>1. x.kind = "function"
    BY <1>8, StatesName
  <2>2. CASE \E f \in CFunctions : x = Function(f, FunctionType(f))
    <3>1. PICK f \in CFunctions : x = Function(f, FunctionType(f))
      BY <2>2
    <3>2. CASE f = "GetSsMsgTypeFromUid"
      <4>1. x = Function("GetSsMsgTypeFromUid", "SsMsgType")
        BY <3>1, <3>2 DEF FunctionType
      <4> QED
        BY <1>1, <1>2, <1>4, <2>1, <4>1
    <3>3. CASE f # "GetSsMsgTypeFromUid"
      <4>1. x = Function(f, "void") /\ f \in {"SsInspectHeader", "SsWriteLogHeader", "SsFindLogDelimiter",
                                              "SsWriteFile", "SsReadFile"}
        BY <3>1, <3>3 DEF FunctionType, CFunctions
      <4>2. x \in Helpers \/ x \in Port
        BY <4>1 DEF Helpers, Port
      <4>3. x \in lib[L + N + 9].facts \/ x \in lib[2].facts
        BY <1>1, <4>2
      <4> QED
        BY <1>2, <1>4, <2>1, <4>3
    <3> QED
      BY <3>2, <3>3
  <2>3. CASE \E n \in DOMAIN types : x = PackFact(types[n]) \/ x = UnpackFact(types[n])
    <3>1. PICK n \in DOMAIN types : x = PackFact(types[n]) \/ x = UnpackFact(types[n])
      BY <2>3
    <3>2. x \in PackFacts(types[n])
      BY <3>1 DEF PackFacts, PackNames, PackFact, UnpackFact
    <3>3. L + 7 + n \in DOMAIN lib /\ x \in lib[L + 7 + n].facts
      BY <1>1, <1>2, <3>2
    <3> QED
      BY <1>4, <2>1, <3>3
  <2>4. CASE \E n \in DOMAIN types : types[n].kind = "Message" /\ x = LogFact(types[n])
    <3>1. PICK n \in DOMAIN types : types[n].kind = "Message" /\ x = LogFact(types[n])
      BY <2>4
    <3>2. types[n] \in Range(Messages(types))
      <4>1. types[n] \in Range(types) /\ "Message" \in Kinds
        BY DEF Range, Kinds
      <4> QED
        BY <1>1, <3>1, <4>1, DeclaredAre
    <3>3. x \in lib[L + N + 10].facts
      BY <1>1, <3>1, <3>2
    <3> QED
      BY <1>2, <1>4, <2>1, <3>3
  <2> QED
    BY <1>8, <2>2, <2>3, <2>4 DEF FunctionStates
<1>9. CASE EnumStates(types, a, x, p)
  <2>1. PICK e \in CEnums(types) : \E n \in DOMAIN Spelled(e) : x = EnumFact(e, n) /\ EnumPlace(types, e, p)
    BY <1>9 DEF EnumStates
  <2>2. \E n \in DOMAIN Spelled(e) : x = EnumFact(e, n)
    BY <2>1
  <2>3. x \in CEnum(e.name, e.values)
    BY <2>2, EnumsAre, CEnumIs
  <2>4. CASE e = MessageEnum(types) /\ p = 3
    <3>1. CEnum(e.name, e.values) = MessageTypeEnum(types)
      BY <2>4 DEF MessageEnum, MessageTypeEnum
    <3> QED
      BY <1>1, <1>2, <2>3, <2>4, <3>1
  <2>5. CASE e = LibraryEnum /\ p = 4
    <3>1. CEnum(e.name, e.values) = StatusEnum
      BY <2>5 DEF LibraryEnum, StatusEnum, StatusNames
    <3> QED
      BY <1>1, <1>2, <2>3, <2>5, <3>1
  <2>6. CASE \E t \in Range(Declared(types)) : t.kind = "Enum" /\ e = EnumOf(t) /\ DeclaredAt(types, t, p)
    <3>1. PICK t \in Range(Declared(types)) : t.kind = "Enum" /\ e = EnumOf(t) /\ DeclaredAt(types, t, p)
      BY <2>6
    <3>2. x \in CDeclaration(types, t).facts
      BY <2>2, <3>1, CDeclares
    <3> QED
      BY <1>5, <3>1, <3>2
  <2> QED
    BY <2>1, <2>4, <2>5, <2>6 DEF EnumPlace
<1> QED
  BY <1>6, <1>7, <1>8, <1>9 DEF CStates

-----------------------------------------------------------------------------
\* Every identifier is stated, and only identifiers are.
LEMMA IdentifiersStated ==
  ASSUME NEW types, Usable(types), NEW a
  PROVE  a \in CIdentifiers(types) <=> \E x, p : CStates(types, a, x, p)
<1>1. ASSUME a \in CIdentifiers(types) PROVE \E x, p : CStates(types, a, x, p)
  <2>1. CASE \E name \in CFixed : a = LibraryId(name)
    <3>1. PICK name \in CFixed : a = LibraryId(name)
      BY <2>1
    <3>2. name \in {"SsMsgType", "SsStatus"} \/ name \in CVariables \/ name \in CFunctions
      BY DEF CFixed, CVariables, CFunctions
    <3>3. CASE name \in {"SsMsgType", "SsStatus"}
      <4>1. TypeStates(types, a, Type("SsMsgType"), 3) \/ TypeStates(types, a, Type("SsStatus"), 4)
        BY <3>1, <3>3 DEF TypeStates
      <4> QED
        BY <4>1 DEF CStates
    <3>4. CASE name \in CVariables
      <4>1. VariableStates(types, a, Variable(name), VariablePlace(types, name))
        BY <3>1, <3>4 DEF VariableStates
      <4> QED
        BY <4>1 DEF CStates
    <3>5. CASE name \in CFunctions
      <4>1. FunctionStates(types, a, Function(name, FunctionType(name)), 0)
        BY <3>1, <3>5 DEF FunctionStates
      <4> QED
        BY <4>1 DEF CStates
    <3> QED
      BY <3>2, <3>3, <3>4, <3>5
  <2>2. ASSUME NEW n \in DOMAIN types, a = TypeId(types, n) PROVE \E x, p : CStates(types, a, x, p)
    <3>1. \E p : TypePlace(types, n, p)
      <4>1. CASE n < NumBuiltins
        BY <4>1 DEF TypePlace
      <4>2. CASE ~(n < NumBuiltins)
        <5>1. \E p : DeclaredAt(types, types[n], p)
          BY <4>2, TypeFacts, DeclaredPlaces
        <5> QED
          BY <4>2, <5>1 DEF TypePlace
      <4> QED
        BY <4>1, <4>2
    <3>2. PICK p : TypePlace(types, n, p)
      BY <3>1
    <3>3. TypeStates(types, a, Type(CTypeName(types[n].name)), p)
      BY <2>2, <3>2 DEF TypeStates
    <3> QED
      BY <3>3 DEF CStates
  <2>3. ASSUME NEW n \in DOMAIN types,
               \/ a = PackId(types, n) \/ a = UnpackId(types, n)
               \/ types[n].kind = "Message" /\ a = LogId(types, n)
        PROVE  \E x, p : CStates(types, a, x, p)
    <3>1. \/ FunctionStates(types, a, PackFact(types[n]), 0)
          \/ FunctionStates(types, a, UnpackFact(types[n]), 0)
          \/ FunctionStates(types, a, LogFact(types[n]), 0)
      BY <2>3 DEF FunctionStates
    <3> QED
      BY <3>1 DEF CStates
  <2>4. ASSUME NEW e \in CEnums(types), NEW n \in DOMAIN Spelled(e), a = EnumId(e, n)
        PROVE  \E x, p : CStates(types, a, x, p)
    <3>1. \E p : EnumPlace(types, e, p)
      <4>1. \/ e = MessageEnum(types) \/ e = LibraryEnum
            \/ \E i \in DOMAIN Declared(types) :
                 Declared(types)[i].kind = "Enum" /\ e = EnumOf(Declared(types)[i])
        BY EnumsAre
      <4>2. ASSUME NEW i \in DOMAIN Declared(types), Declared(types)[i].kind = "Enum",
                   e = EnumOf(Declared(types)[i])
            PROVE  EnumPlace(types, e, 4 + i)
        <5> DEFINE D == Declared(types)  t == D[i]
        <5>1. t \in Range(D) /\ DeclaredAt(types, t, 4 + i)
          BY DEF Range, DeclaredAt
        <5> HIDE DEF t
        <5>2. t.kind = "Enum" /\ e = EnumOf(t)
          BY <4>2 DEF t
        <5> QED
          BY <5>1, <5>2 DEF EnumPlace
      <4> QED
        BY <4>1, <4>2 DEF EnumPlace
    <3>2. PICK p : EnumPlace(types, e, p)
      BY <3>1
    <3>3. EnumStates(types, a, EnumFact(e, n), p)
      BY <2>4, <3>2 DEF EnumStates
    <3> QED
      BY <3>3 DEF CStates
  <2>5. CASE \E n \in DOMAIN types : a = TypeId(types, n) \/ a = PackId(types, n) \/ a = UnpackId(types, n)
    BY <2>2, <2>3, <2>5
  <2>6. CASE \E n \in DOMAIN types : types[n].kind = "Message" /\ a = LogId(types, n)
    BY <2>3, <2>6
  <2>7. CASE \E e \in CEnums(types) : \E n \in DOMAIN Spelled(e) : a = EnumId(e, n)
    BY <2>4, <2>7
  <2> QED
    BY <1>1, <2>1, <2>5, <2>6, <2>7, IdentifiersAre
<1>2. ASSUME NEW x, NEW p, CStates(types, a, x, p) PROVE a \in CIdentifiers(types)
  <2>1. "SsMsgType" \in CFixed /\ "SsStatus" \in CFixed /\ CVariables \subseteq CFixed /\ CFunctions \subseteq CFixed
    BY DEF CFixed, CVariables, CFunctions
  <2>2. \/ \E name \in CFixed : a = LibraryId(name)
        \/ \E n \in DOMAIN types : a = TypeId(types, n) \/ a = PackId(types, n) \/ a = UnpackId(types, n)
        \/ \E n \in DOMAIN types : types[n].kind = "Message" /\ a = LogId(types, n)
        \/ \E e \in CEnums(types) : \E n \in DOMAIN Spelled(e) : a = EnumId(e, n)
    <3>1. CASE TypeStates(types, a, x, p)
      BY <2>1, <3>1, Zenon DEF TypeStates
    <3>2. CASE VariableStates(types, a, x, p)
      BY <2>1, <3>2 DEF VariableStates
    <3>3. CASE FunctionStates(types, a, x, p)
      BY <2>1, <3>3 DEF FunctionStates
    <3>4. CASE EnumStates(types, a, x, p)
      BY <3>4 DEF EnumStates
    <3> QED
      BY <1>2, <3>1, <3>2, <3>3, <3>4 DEF CStates
  <2> QED
    BY <2>2, IdentifiersAre
<1> QED
  BY <1>1, <1>2

\* The facts that no identifier is of: the macros, and the members of types.
MemberAt(types, x, p) ==
  \E t \in Range(Declared(types)) : \E f \in Range(t.fields) :
    t.kind # "Enum" /\ x = MemberFact(types, t, f) /\ DeclaredAt(types, t, p)

\* Every fact of the library is what states an identifier, a macro or a member.
LEMMA CClassified ==
  ASSUME NEW types, Usable(types), NEW lib, NEW L, NEW N, CFactsAre(lib, types, L, N),
         NEW p \in DOMAIN lib, NEW x \in lib[p].facts
  PROVE  \/ \E a, q : CStates(types, a, x, q) /\ (x.kind # "function" => q = p)
         \/ x \in CMacros(types)
         \/ MemberAt(types, x, p)
<1> DEFINE D == Declared(types)
           Stating == \E a, q : CStates(types, a, x, q) /\ (x.kind # "function" => q = p)
<1>1. /\ L \in Nat /\ N \in Nat /\ L = Len(D) /\ N = Len(types) /\ DOMAIN D = 1 .. L /\ DOMAIN types = 1 .. N
      /\ IsSeq(types) /\ DOMAIN lib = 1 .. (L + N + 10)
  BY DEF CFactsAre
<1>2. /\ lib[1].facts = {Type(CTypeName(name)) : name \in Range(Primitive)}
      /\ lib[2].facts = Port /\ lib[3].facts = MessageTypeEnum(types) /\ lib[4].facts = StatusEnum
      /\ \A n \in 1 .. L : lib[4 + n].facts = CDeclaration(types, D[n]).facts
      /\ lib[L + 5].facts = CMacros(types)
      /\ lib[L + 6].facts = (UNION {PackFacts(m) \cup {LogFact(m)} : m \in Range(Messages(types))})
                              \cup Helpers \cup {LogDelimiter}
      /\ lib[L + 7].facts = {}
  BY DEF CFactsAre
<1>3. /\ \A n \in 1 .. N : lib[L + 7 + n].facts = PackFacts(types[n])
      /\ lib[L + N + 8].facts = {Variable("kMessageUids"), Variable("kSsMsgTypes"),
                                 Function("GetSsMsgTypeFromUid", "SsMsgType")}
      /\ lib[L + N + 9].facts = {Variable("kYamlHeader")} \cup Helpers
      /\ lib[L + N + 10].facts = {LogFact(m) : m \in Range(Messages(types))}
  BY DEF CFactsAre
<1>4. \/ p \in {1, 2, 3, 4} \/ \E n \in 1 .. L : p = 4 + n
      \/ p \in {L + 5, L + 6, L + 7} \/ \E n \in 1 .. N : p = L + 7 + n
      \/ p \in {L + N + 8, L + N + 9, L + N + 10}
  <2>1. p \in 1 .. (L + N + 10)
    BY <1>1
  <2>2. CASE p <= L + 7
    <3>1. p \in {1, 2, 3, 4, L + 5, L + 6, L + 7} \/ (p - 4 \in 1 .. L /\ p = 4 + (p - 4))
      BY <1>1, <2>1, <2>2
    <3> QED
      BY <3>1
  <2>3. CASE ~(p <= L + 7)
    <3>1. p \in {L + N + 8, L + N + 9, L + N + 10} \/ (p - (L + 7) \in 1 .. N /\ p = L + 7 + (p - (L + 7)))
      BY <1>1, <2>1, <2>3
    <3> QED
      BY <3>1
  <2> QED
    BY <2>2, <2>3
<1> HIDE DEF D
<1>5. ASSUME NEW a, FunctionStates(types, a, x, 0) PROVE Stating
  <2>1. x.kind = "function" /\ CStates(types, a, x, 0)
    BY <1>5, StatesName DEF CStates
  <2> QED
    BY <2>1
<1>6. ASSUME NEW f \in CFunctions, x = Function(f, FunctionType(f)) PROVE Stating
  <2>1. FunctionStates(types, LibraryId(f), x, 0)
    BY <1>6 DEF FunctionStates
  <2> QED
    BY <1>5, <2>1
<1>7. ASSUME x \in Port \/ x \in Helpers PROVE Stating
  <2>1. PICK f \in {"SsInspectHeader", "SsWriteLogHeader", "SsFindLogDelimiter", "SsWriteFile", "SsReadFile"} :
          x = Function(f, "void")
    BY <1>7 DEF Port, Helpers
  <2>2. f \in CFunctions /\ FunctionType(f) = "void"
    BY DEF CFunctions, FunctionType
  <2> QED
    BY <1>6, <2>1, <2>2
<1>8. ASSUME NEW n \in DOMAIN types, x \in PackFacts(types[n]) PROVE Stating
  <2>1. x = PackFact(types[n]) \/ x = UnpackFact(types[n])
    BY <1>8 DEF PackFacts, PackNames, PackFact, UnpackFact
  <2>2. FunctionStates(types, PackId(types, n), x, 0) \/ FunctionStates(types, UnpackId(types, n), x, 0)
    BY <2>1 DEF FunctionStates
  <2> QED
    BY <1>5, <2>2
<1>9. ASSUME NEW m \in Range(Messages(types)) PROVE \E n \in DOMAIN types : m = types[n] /\ types[n].kind = "Message"
  <2>1. m \in Range(types) /\ m.kind = "Message"
    BY <1>1, DeclaredAre
  <2> QED
    BY <2>1 DEF Range
<1>10. ASSUME NEW m \in Range(Messages(types)), x = LogFact(m) PROVE Stating
  <2>1. PICK n \in DOMAIN types : m = types[n] /\ types[n].kind = "Message"
    BY <1>9
  <2>2. FunctionStates(types, LogId(types, n), x, 0)
    BY <1>10, <2>1 DEF FunctionStates
  <2> QED
    BY <1>5, <2>2
<1>11. ASSUME NEW v \in CVariables, x = Variable(v), p = VariablePlace(types, v) PROVE Stating
  <2>1. VariableStates(types, LibraryId(v), x, p)
    BY <1>11 DEF VariableStates
  <2> QED
    BY <2>1 DEF CStates
<1>12. ASSUME NEW a, TypeStates(types, a, x, p) \/ EnumStates(types, a, x, p) PROVE Stating
  BY <1>12 DEF CStates
<1>13. ASSUME NEW n \in DOMAIN types, x = Type(CTypeName(types[n].name)), TypePlace(types, n, p) PROVE Stating
  <2>1. TypeStates(types, TypeId(types, n), x, p)
    BY <1>13 DEF TypeStates
  <2> QED
    BY <1>12, <2>1
<1>14. ASSUME NEW e \in CEnums(types), NEW n \in DOMAIN Spelled(e), x = EnumFact(e, n), EnumPlace(types, e, p)
       PROVE  Stating
  <2>1. EnumStates(types, EnumId(e, n), x, p)
    BY <1>14 DEF EnumStates
  <2> QED
    BY <1>12, <2>1
<1> HIDE DEF Stating
<1>15. CASE p = 1
  <2>1. PICK name \in Range(Primitive) : x = Type(CTypeName(name))
    BY <1>2, <1>15
  <2>2. PICK n \in DOMAIN types : n < NumBuiltins /\ types[n].name = name
    BY PrimitiveFound
  <2>3. TypePlace(types, n, p)
    BY <1>15, <2>2 DEF TypePlace
  <2> QED
    BY <1>13, <2>1, <2>2, <2>3 DEF Stating
<1>16. CASE p = 2
  BY <1>2, <1>7, <1>16 DEF Stating
<1>17. CASE p = 3
  <2> DEFINE e == MessageEnum(types)
  <2>1. e \in CEnums(types) /\ IsSeq(e.values) /\ EnumPlace(types, e, p)
    BY <1>17, EnumsAre DEF EnumPlace
  <2>2. x \in CEnum(e.name, e.values) /\ e.name = "SsMsgType"
    BY <1>2, <1>17 DEF MessageTypeEnum, MessageEnum
  <2> HIDE DEF e
  <2>3. x = Type(e.name) \/ \E n \in DOMAIN Spelled(e) : x = EnumFact(e, n)
    BY <2>1, <2>2, CEnumIs
  <2>4. CASE x = Type(e.name)
    <3>1. TypeStates(types, LibraryId("SsMsgType"), x, p)
      BY <1>17, <2>2, <2>4 DEF TypeStates
    <3> QED
      BY <1>12, <3>1 DEF Stating
  <2> QED
    BY <1>14, <2>1, <2>3, <2>4 DEF Stating
<1>18. CASE p = 4
  <2> DEFINE e == LibraryEnum
  <2>1. e \in CEnums(types) /\ IsSeq(e.values) /\ EnumPlace(types, e, p)
    BY <1>18, EnumsAre DEF EnumPlace
  <2>2. x \in CEnum(e.name, e.values) /\ e.name = "SsStatus"
    BY <1>2, <1>18 DEF StatusEnum, LibraryEnum, StatusNames
  <2> HIDE DEF e
  <2>3. x = Type(e.name) \/ \E n \in DOMAIN Spelled(e) : x = EnumFact(e, n)
    BY <2>1, <2>2, CEnumIs
  <2>4. CASE x = Type(e.name)
    <3>1. TypeStates(types, LibraryId("SsStatus"), x, p)
      BY <1>18, <2>2, <2>4 DEF TypeStates
    <3> QED
      BY <1>12, <3>1 DEF Stating
  <2> QED
    BY <1>14, <2>1, <2>3, <2>4 DEF Stating
<1>19. ASSUME NEW i \in 1 .. L, p = 4 + i PROVE Stating \/ MemberAt(types, x, p)
  <2> DEFINE t == D[i]
  <2>1. t \in Range(D) /\ DeclaredAt(types, t, p) /\ x \in CDeclaration(types, t).facts
    BY <1>1, <1>2, <1>19 DEF Range, DeclaredAt, D
  <2> HIDE DEF t
  <2>2. t \in Range(types) /\ t.kind \in Kinds
    BY <1>1, <2>1, DeclaredAre DEF D
  <2>3. CASE x = Type(t.name)
    <3>1. PICK n \in DOMAIN types : t = types[n]
      BY <2>2 DEF Range
    <3>2. ~(n < NumBuiltins)
      <4>1. "Primitive" \notin Kinds
        BY DEF Kinds
      <4> QED
        BY <2>2, <3>1, <4>1, TypeFacts
    <3>3. TypePlace(types, n, p) /\ x = Type(CTypeName(types[n].name))
      BY <2>1, <2>3, <3>1, <3>2, TypeFacts DEF TypePlace
    <3> QED
      BY <1>13, <3>3 DEF Stating
  <2>4. CASE t.kind = "Enum" /\ x # Type(t.name)
    <3> DEFINE e == EnumOf(t)
    <3>1. \E n \in DOMAIN Spelled(e) : x = EnumFact(e, n)
      BY <2>1, <2>4, CDeclares DEF D
    <3>2. e \in CEnums(types) /\ EnumPlace(types, e, p)
      <4>1. \E l \in DOMAIN Declared(types) : Declared(types)[l].kind = "Enum" /\ e = EnumOf(Declared(types)[l])
        BY <2>1, <2>4 DEF DeclaredAt
      <4> HIDE DEF e
      <4>2. e \in CEnums(types)
        BY <4>1, EnumsAre
      <4> QED
        BY <2>1, <2>4, <4>2 DEF EnumPlace, D, e
    <3> HIDE DEF e
    <3> QED
      BY <1>14, <3>1, <3>2 DEF Stating
  <2>5. CASE t.kind # "Enum" /\ x # Type(t.name)
    <3>1. PICK f \in Range(t.fields) : x = MemberFact(types, t, f)
      BY <2>1, <2>5, CDeclares DEF D
    <3> QED
      BY <2>1, <2>5, <3>1 DEF MemberAt, D
  <2> QED
    BY <2>3, <2>4, <2>5
<1>20. CASE p = L + 5
  BY <1>2, <1>20
<1>21. CASE p = L + 6
  <2>1. CASE x \in Helpers
    BY <1>7, <2>1 DEF Stating
  <2>2. CASE x = LogDelimiter
    <3>1. x = Variable("kSsLogDelimiter") /\ p = VariablePlace(types, "kSsLogDelimiter")
      BY <1>1, <1>21, <2>2 DEF LogDelimiter, VariablePlace, D
    <3>2. "kSsLogDelimiter" \in CVariables
      BY DEF CVariables
    <3> QED
      BY <1>11, <3>1, <3>2 DEF Stating
  <2>3. CASE \E m \in Range(Messages(types)) : x \in PackFacts(m) \/ x = LogFact(m)
    <3>1. PICK m \in Range(Messages(types)) : x \in PackFacts(m) \/ x = LogFact(m)
      BY <2>3
    <3> QED
      BY <1>8, <1>9, <1>10, <3>1 DEF Stating
  <2>4. x \in Helpers \/ x = LogDelimiter \/ \E m \in Range(Messages(types)) : x \in PackFacts(m) \/ x = LogFact(m)
    BY <1>2, <1>21
  <2> QED
    BY <2>1, <2>2, <2>3, <2>4
<1>22. CASE p = L + 7
  BY <1>2, <1>22
<1>23. ASSUME NEW n \in 1 .. N, p = L + 7 + n PROVE Stating
  <2>1. x \in PackFacts(types[n]) /\ n \in DOMAIN types
    BY <1>1, <1>3, <1>23
  <2> QED
    BY <1>8, <2>1 DEF Stating
<1>24. CASE p = L + N + 8
  <2>1. \/ x = Variable("kMessageUids") \/ x = Variable("kSsMsgTypes")
        \/ x = Function("GetSsMsgTypeFromUid", "SsMsgType")
    BY <1>3, <1>24
  <2>2. CASE x = Function("GetSsMsgTypeFromUid", "SsMsgType")
    <3>1. "GetSsMsgTypeFromUid" \in CFunctions /\ FunctionType("GetSsMsgTypeFromUid") = "SsMsgType"
      BY DEF CFunctions, FunctionType
    <3> QED
      BY <1>6, <2>2, <3>1 DEF Stating
  <2>3. CASE x # Function("GetSsMsgTypeFromUid", "SsMsgType")
    <3>1. PICK v \in {"kMessageUids", "kSsMsgTypes"} : x = Variable(v)
      BY <2>1, <2>3
    <3>2. v \in CVariables /\ VariablePlace(types, v) = L + (N + 8)
      BY <1>1 DEF CVariables, VariablePlace, D
    <3>3. L + (N + 8) = p
      BY <1>1, <1>24
    <3> QED
      BY <1>11, <3>1, <3>2, <3>3 DEF Stating
  <2> QED
    BY <2>2, <2>3
<1>25. CASE p = L + N + 9
  <2>1. x = Variable("kYamlHeader") \/ x \in Helpers
    BY <1>3, <1>25
  <2>2. CASE x = Variable("kYamlHeader")
    <3>1. "kYamlHeader" \in CVariables /\ VariablePlace(types, "kYamlHeader") = L + (N + 9)
      BY <1>1 DEF CVariables, VariablePlace, D
    <3>2. L + (N + 9) = p
      BY <1>1, <1>25
    <3> QED
      BY <1>11, <2>2, <3>1, <3>2 DEF Stating
  <2> QED
    BY <1>7, <2>1, <2>2 DEF Stating
<1>26. CASE p = L + N + 10
  <2>1. PICK m \in Range(Messages(types)) : x = LogFact(m)
    BY <1>3, <1>26
  <2> QED
    BY <1>10, <2>1 DEF Stating
<1> QED
  BY <1>4, <1>15, <1>16, <1>17, <1>18, <1>19, <1>20, <1>21, <1>22, <1>23, <1>24, <1>25, <1>26 DEF Stating

-----------------------------------------------------------------------------
\* What the document of C says of an enum is in the library, but for one constant.
ForceSigned(e) == Fact("constant", <<"kForceSigned">>, e.name, <<-1>>)

LEMMA CEnumDocSays ==
  ASSUME NEW e, IsSeq(e.fields), NEW d \in CEnumDoc(e)
  PROVE  d = ForceSigned(e) \/ d \in CEnum(e.name, NameSeq(e.fields))
<1>1. Len(NameSeq(e.fields)) = Len(e.fields)
  BY NamesOf
<1>2. \/ d = Type(e.name) \/ d = ForceSigned(e)
      \/ d = Fact("constant", <<"kNum" \o e.name>>, e.name, <<Len(e.fields)>>)
      \/ d \in CEnumerators(e.name, NameSeq(e.fields))
  BY Zenon DEF CEnumDoc, ForceSigned
<1>3. CEnum(e.name, NameSeq(e.fields)) =
        {Type(e.name), Fact("constant", <<"k" \o e.name \o "ForceSigned">>, e.name, <<-1>>),
         Fact("constant", <<"kNum" \o e.name>>, e.name, <<Len(NameSeq(e.fields))>>)}
          \cup CEnumerators(e.name, NameSeq(e.fields))
  BY DEF CEnum
<1> QED
  BY <1>1, <1>2, <1>3

LEMMA NoForceSigned ==
  ASSUME NEW types, Usable(types), NEW quoted, NEW e
  PROVE  ForceSigned(e) \notin Facts(CSource(types, quoted))
<1> SUFFICES ASSUME ForceSigned(e) \in Facts(CSource(types, quoted)) PROVE FALSE
  OBVIOUS
<1> DEFINE lib == CSource(types, quoted)
           L == Len(Declared(types))
           N == Len(types)
           x == ForceSigned(e)
<1>1. x.kind = "constant" /\ x.name = <<"kForceSigned">> /\ x.ns = <<-1>>
  BY FactIs DEF ForceSigned
<1>2. IsSeq(types)
  BY UsableHas
<1>3. CFactsAre(lib, types, L, N)
  BY <1>2, CSourceIs, CFactsAt
<1>4. x \in Facts(lib)
  OBVIOUS
<1> HIDE DEF lib, L, N, x
<1>5. PICK p \in DOMAIN lib : x \in lib[p].facts
  BY <1>4 DEF Facts
<1>6. x \notin CMacros(types)
  <2>1. \A f \in CMacros(types) : f.kind = "macro"
    <3>1. \A m : PackedSizeMacro(types, m).kind = "macro"
      BY Zenon DEF PackedSizeMacro, Fact
    <3>2. HeaderSizeMacro.kind = "macro"
      BY Zenon DEF HeaderSizeMacro, Fact
    <3> QED
      BY <3>1, <3>2 DEF CMacros
  <2> QED
    BY <1>1, <2>1
<1>7. ~MemberAt(types, x, p)
  BY <1>1, MemberIs DEF MemberAt
<1>8. PICK a, q : CStates(types, a, x, q)
  BY <1>3, <1>5, <1>6, <1>7, CClassified
<1>9. EnumStates(types, a, x, q)
  <2>1. Len(<<-1>>) # Len(<<>>)
    OBVIOUS
  <2>2. x.ns # <<>>
    BY <1>1, <2>1
  <2> QED
    BY <1>1, <1>8, <2>2, StatesName DEF CStates
<1>10. PICK f \in CEnums(types) : \E n \in DOMAIN Spelled(f) : x = EnumFact(f, n)
  BY <1>9 DEF EnumStates
<1>11. PICK n \in DOMAIN Spelled(f) : x = EnumFact(f, n)
  BY <1>10
<1>12. IsSeq(f.values)
  BY EnumsAre
<1>13. 1 \in DOMAIN Spelled(f) /\ Spelled(f)[1] = "k" \o f.name \o "ForceSigned"
  <2>1. /\ DOMAIN Spelled(f) = 1 .. (Len(f.values) + 2) /\ Len(f.values) \in Nat
        /\ DOMAIN f.values = 1 .. Len(f.values)
        /\ Spelled(f)[1] = "k" \o f.name \o "ForceSigned" /\ Spelled(f)[2] = "kNum" \o f.name
        /\ \A i \in 1 .. Len(f.values) : Spelled(f)[i + 2] = "k" \o f.name \o f.values[i]
    BY <1>12, SpelledIs
  <2> QED
    BY <2>1
<1>14. x.ns = EnumFact(f, 1).ns
  BY <1>1, FactIs DEF EnumFact, EnumValue
<1>15. n = 1
  BY <1>11, <1>12, <1>13, <1>14, ValuesDiffer
<1>16. x.name = <<"k" \o f.name \o "ForceSigned">>
  BY <1>11, <1>13, <1>15, FactIs DEF EnumFact
<1>17. f.name \in DOMAIN Camel \cup {"SsMsgType", "SsStatus"}
  <2>1. CASE f = MessageEnum(types) \/ f = LibraryEnum
    BY <2>1 DEF MessageEnum, LibraryEnum
  <2>2. CASE \E i \in DOMAIN Declared(types) : f = EnumOf(Declared(types)[i])
    <3>1. PICK i \in DOMAIN Declared(types) : f = EnumOf(Declared(types)[i])
      BY <2>2
    <3>2. PICK m \in DOMAIN types : Declared(types)[i] = types[m]
      BY <1>2, DeclaredAre DEF Range
    <3> QED
      BY <3>1, <3>2, TypeFacts DEF EnumOf
  <2> QED
    BY <2>1, <2>2, EnumsAre
<1>18. "k" \o f.name \o "ForceSigned" # "kForceSigned"
  BY <1>17, TypeNameAssumption DEF TypeNameAssumption
<1> DEFINE s == "k" \o f.name \o "ForceSigned"
<1> HIDE DEF s
<1>19. <<s>>[1] = <<"kForceSigned">>[1]
  BY <1>1, <1>16 DEF s
<1>20. s = "kForceSigned"
  BY <1>19
<1> QED
  BY <1>18, <1>20 DEF s

LEMMA CDocHolds ==
  ASSUME NEW types, Usable(types), NEW extra, Range(extra) = ExtraOf(CNames, types)
  PROVE  LET facts == Facts(CSource(types, FALSE))
         IN  {d.name : d \in CDoc(extra, types) \ facts} = {<<"kForceSigned">>}
<1> DEFINE facts == Facts(CSource(types, FALSE))
           enums == Range(OfKind(types, {"Enum"}))
           bitfields == Range(OfKind(types, {"Bitfield"}))
           structs == Range(OfKind(types, {"Struct"}))
           messages == Range(Messages(types))
<1>1. IsSeq(types) /\ \A t \in Range(types) : IsSeq(t.fields)
  BY UsableHas
<1>2. /\ Port \subseteq facts /\ MessageTypeEnum(types) \subseteq facts /\ StatusEnum \subseteq facts
      /\ \A t \in Range(Declared(types)) : CDeclaration(types, t).facts \subseteq facts
      /\ \A m \in messages :
           PackedSizeMacro(types, m) \in facts /\ LogFact(m) \in facts /\ PackFacts(m) \subseteq facts
      /\ HeaderSizeMacro \in facts /\ Helpers \subseteq facts /\ LogDelimiter \in facts
  BY <1>1, CHas
<1>3. /\ \A t \in enums : t \in Range(Declared(types)) /\ t.kind = "Enum"
      /\ \A t \in bitfields : t \in Range(Declared(types)) /\ t.kind = "Bitfield"
      /\ \A t \in structs : t \in Range(Declared(types)) /\ t.kind = "Struct"
      /\ \A t \in messages : t \in Range(Declared(types)) /\ t.kind = "Message"
  <2>1. "Enum" \in Kinds /\ "Bitfield" \in Kinds /\ "Struct" \in Kinds
    BY DEF Kinds
  <2>2. /\ \A kind \in Kinds : Range(OfKind(types, {kind})) =
             {t \in Range(Declared(types)) : t.kind = kind}
        /\ messages = {t \in Range(Declared(types)) : t.kind = "Message"}
    BY <1>1, DeclaredAre
  <2> QED
    BY <2>1, <2>2
<1>4. \A e : ForceSigned(e) \notin facts
  BY NoForceSigned
<1> HIDE DEF facts, bitfields, structs, messages
<1>5. ASSUME NEW e \in DocEnums(extra, types), NEW d \in CEnumDoc(e)
      PROVE  d = ForceSigned(e) \/ d \in facts
  <2>1. /\ CNames[1] = "SsMsgType" /\ CNames[2] = "SsStatus"
        /\ \/ e = ExtraEnum(CNames[1], Append(NameSeq(Messages(types)), "Unknown"))
           \/ e = ExtraEnum(CNames[2], StatusNames)
           \/ e \in enums
    BY <1>1, DocEnumsAre DEF CNames
  <2>2. CASE e = ExtraEnum(CNames[1], Append(NameSeq(Messages(types)), "Unknown"))
    <3> DEFINE values == Append(NameSeq(Messages(types)), "Unknown")
    <3>1. e = ExtraEnum("SsMsgType", values) /\ MessageTypeEnum(types) = CEnum("SsMsgType", values)
      BY <2>1, <2>2 DEF MessageTypeEnum
    <3>2. IsSeq(values)
      BY <1>1, ValuesAre
    <3> HIDE DEF values
    <3>3. e.name = "SsMsgType" /\ NameSeq(e.fields) = values /\ IsSeq(e.fields)
      BY <3>1, <3>2, ExtraIs
    <3>4. d = ForceSigned(e) \/ d \in CEnum(e.name, NameSeq(e.fields))
      BY <3>3, CEnumDocSays
    <3> QED
      BY <1>2, <3>1, <3>3, <3>4
  <2>3. CASE e = ExtraEnum(CNames[2], StatusNames)
    <3>1. IsSeq(StatusNames) /\ StatusEnum = CEnum("SsStatus", StatusNames)
      BY <1>1, ValuesAre DEF StatusEnum, StatusNames
    <3>2. e.name = "SsStatus" /\ NameSeq(e.fields) = StatusNames /\ IsSeq(e.fields)
      BY <2>1, <2>3, <3>1, ExtraIs
    <3>3. d = ForceSigned(e) \/ d \in CEnum(e.name, NameSeq(e.fields))
      BY <3>2, CEnumDocSays
    <3> QED
      BY <1>2, <3>1, <3>2, <3>3
  <2>4. CASE e \in enums
    <3>1. e \in Range(Declared(types)) /\ e.kind = "Enum"
      BY <1>3, <2>4
    <3>2. IsSeq(e.fields)
      BY <1>1, <3>1, DeclaredAre
    <3>3. CDeclaration(types, e).facts = CEnum(e.name, NameSeq(e.fields))
      BY <3>1 DEF CDeclaration, Item
    <3>4. d = ForceSigned(e) \/ d \in CEnum(e.name, NameSeq(e.fields))
      BY <3>2, CEnumDocSays
    <3> QED
      BY <1>2, <3>1, <3>3, <3>4
  <2> QED
    BY <2>1, <2>2, <2>3, <2>4
<1>6. ASSUME NEW t \in bitfields PROVE CBitfieldDoc(t) \subseteq facts
  <2>1. CDeclaration(types, t).facts = CBitfieldDoc(t)
    BY <1>3 DEF CDeclaration, Item, CBitfieldDoc
  <2> QED
    BY <1>2, <1>3, <2>1
<1>7. ASSUME NEW t \in structs \cup messages PROVE StructFacts(types, t) \subseteq facts
  <2>1. CDeclaration(types, t).facts = StructFacts(types, t)
    BY <1>3 DEF CDeclaration, Item
  <2> QED
    BY <1>2, <1>3, <2>1
<1>8. ASSUME NEW t \in messages PROVE CMessageDoc(types, t) \subseteq facts
  BY <1>2, <1>7 DEF CMessageDoc
<1>9. ASSUME NEW d \in CDoc(extra, types), d \notin facts
      PROVE  d.name = <<"kForceSigned">>
  <2>1. \/ d \in {HeaderSizeMacro, LogDelimiter} \cup Helpers \cup Port
        \/ \E e \in DocEnums(extra, types) : d \in CEnumDoc(e)
        \/ \E t \in bitfields : d \in CBitfieldDoc(t)
        \/ \E t \in structs : d \in StructFacts(types, t)
        \/ \E t \in messages : d \in CMessageDoc(types, t)
    BY DEF CDoc, CStructureDoc, bitfields, structs, messages
  <2>2. \E e : d = ForceSigned(e)
    BY <1>2, <1>5, <1>6, <1>7, <1>8, <1>9, <2>1
  <2> QED
    BY <2>2, FactIs DEF ForceSigned
<1>10. \E d \in CDoc(extra, types) : d \notin facts
  <2> DEFINE e == ExtraEnum(CNames[2], StatusNames)
  <2>1. e \in DocEnums(extra, types)
    BY DEF DocEnums, ExtraOf
  <2> HIDE DEF e
  <2>2. ForceSigned(e) \in CEnumDoc(e)
    BY DEF CEnumDoc, ForceSigned
  <2>3. ForceSigned(e) \in CDoc(extra, types)
    BY <2>1, <2>2 DEF CDoc
  <2> QED
    BY <1>4, <2>3
<1>11. {d.name : d \in CDoc(extra, types) \ facts} = {<<"kForceSigned">>}
  <2> DEFINE S == CDoc(extra, types) \ facts
  <2>1. (\A d \in S : d.name = <<"kForceSigned">>) /\ S # {}
    BY <1>9, <1>10
  <2> HIDE DEF S
  <2>2. {d.name : d \in S} = {<<"kForceSigned">>}
    BY <2>1
  <2> QED
    BY <2>2 DEF S
<1> QED
  BY <1>11 DEF facts

LEMMA Documented ==
  ASSUME IsSeq(files), FilesOK
  PROVE  DocsAgree
<1>1. ASSUME NEW f \in Latest(Docs)
      PROVE  LET types == Types(f, f.tag)
             IN  /\ f.out \in Docs
                 /\ f.out = "c_doc" =>
                      {d.name : d \in f.text \ Facts(CSource(types, FALSE))} = {<<"kForceSigned">>}
                 /\ f.out = "cc_doc" => f.text \subseteq Facts(CcSource(types))
                 /\ f.out = "py_doc" =>
                      (~CRefuses(types, Quoted(f.spec)) =>
                         \A d \in f.text : d \in PyModule(types) <=> ~PyWrong(types, d))
  <2> DEFINE types == Types(f, f.tag)
  <2>1. FileOK(f) /\ f.out \in Docs
    BY LatestIs
  <2>2. /\ f.spec \in SpecFile /\ WellFormed(f.spec) /\ TextIs(f.out, types, Quoted(f.spec), f.text)
        /\ types = Meaning(f.spec, f.tag, f.dict)
    BY <2>1 DEF FileOK, Types
  <2> HIDE DEF types
  <2>3. Usable(types)
    BY <2>2, FileUsable
  <2>4. IsSeq(types)
    BY <2>3, UsableHas
  <2>5. f.out \notin Sources
    BY <2>1 DEF Docs, Sources
  <2>6. PICK extra : /\ Range(extra) = ExtraOf(NamesFor(f.out), types)
                     /\ f.out = "c_doc" => f.text = CDoc(extra, types)
                     /\ f.out = "cc_doc" => f.text = CcDoc(extra, types)
                     /\ f.out = "py_doc" => f.text = PyDoc(extra, types)
    BY <2>1, <2>2, <2>5 DEF TextIs
  <2>7. ASSUME f.out = "c_doc"
        PROVE  {d.name : d \in f.text \ Facts(CSource(types, FALSE))} = {<<"kForceSigned">>}
    <3>1. Range(extra) = ExtraOf(CNames, types) /\ f.text = CDoc(extra, types)
      BY <2>6, <2>7 DEF NamesFor
    <3> QED
      BY <2>3, <3>1, CDocHolds
  <2>8. ASSUME f.out = "cc_doc" PROVE f.text \subseteq Facts(CcSource(types))
    <3>1. Range(extra) = ExtraOf(CcNames, types) /\ f.text = CcDoc(extra, types)
      BY <2>6, <2>8 DEF NamesFor
    <3> QED
      BY <2>4, <3>1, CcDocHolds
  <2>9. ASSUME f.out = "py_doc", ~CRefuses(types, Quoted(f.spec)), NEW d \in f.text
        PROVE  d \in PyModule(types) <=> ~PyWrong(types, d)
    <3>1. Range(extra) = ExtraOf(CNames, types) /\ f.text = PyDoc(extra, types)
      BY <2>6, <2>9 DEF NamesFor
    <3> QED
      BY <2>3, <2>9, <3>1, PyTrue, PyUntrue
  <2> QED
    BY <2>1, <2>7, <2>8, <2>9 DEF types
<1>2. \A f \in Latest(Docs) : f.out \in {"c_doc", "cc_doc", "py_doc"}
  BY <1>1 DEF Docs
<1> QED
  BY <1>1, <1>2 DEF DocsAgree

\* What the documentation says of a library is true of it, but for the constant
\* kForceSigned of C and for what is listed of Python, and all of that is wrong.
THEOREM DocumentsAreTrue == GenSpec => []DocsAgree
<1>1. StepInv /\ FilesOK => DocsAgree
  BY Documented DEF StepInv
<1> QED
  BY <1>1, StepsRight, FilesAreRight, PTL
=============================================================================
