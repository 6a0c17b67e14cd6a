-------------------------- MODULE DescriptorsProofs --------------------------
(***************************************************************************)
(* Proofs about Descriptors, for any specifications that a generator       *)
(* accepted, any primitive types and any hash: the fields of a descriptor  *)
(* lie end to end, only a use before the definition is refused, and the    *)
(* builder comes to the sizes and UIDs of the generators.                  *)
(***************************************************************************)
EXTENDS Descriptors, SpecTypesProofs

-----------------------------------------------------------------------------
(* The document.                                                           *)

\* Numbers that differ are put into their order by counting those up to each.
LEMMA Sorting ==
  ASSUME NEW n \in Nat, NEW rank \in [1 .. n -> Int],
         \A a, b \in 1 .. n : rank[a] = rank[b] => a = b,
         NEW at, at = [p \in 1 .. n |->
                         CHOOSE m \in 1 .. n :
                           Cardinality({l \in 1 .. n : rank[l] <= rank[m]}) = p]
  PROVE  /\ at \in [1 .. n -> 1 .. n]
         /\ \A m \in 1 .. n : \E p \in 1 .. n : at[p] = m
         /\ \A p, q \in 1 .. n : p < q => rank[at[p]] < rank[at[q]]
<1> DEFINE S == 1 .. n
           Upto(m) == {l \in S : rank[l] <= rank[m]}
           f == [m \in S |-> Cardinality(Upto(m))]
<1>1. IsFiniteSet(S) /\ Cardinality(S) = n
  BY FS_Interval
<1>2. ASSUME NEW m \in S PROVE IsFiniteSet(Upto(m)) /\ Cardinality(Upto(m)) \in S
  <2>1. Upto(m) \subseteq S /\ m \in Upto(m)
    BY DEF Upto
  <2>2. IsFiniteSet(Upto(m)) /\ Cardinality(Upto(m)) <= n /\ Cardinality(Upto(m)) \in Nat
    BY <1>1, <2>1, FS_Subset, FS_CardinalityType
  <2>3. Cardinality(Upto(m)) # 0
    BY <2>1, <2>2, FS_EmptySet
  <2> QED
    BY <2>2, <2>3
<1>3. ASSUME NEW a \in S, NEW b \in S, rank[a] < rank[b]
      PROVE  Cardinality(Upto(a)) < Cardinality(Upto(b))
  <2>1. Upto(a) \subseteq Upto(b) /\ b \in Upto(b) /\ b \notin Upto(a)
    BY <1>3
  <2>2. Upto(a) # Upto(b)
    BY <2>1
  <2> HIDE DEF Upto
  <2>3. /\ Cardinality(Upto(a)) <= Cardinality(Upto(b))
        /\ Cardinality(Upto(a)) = Cardinality(Upto(b)) => Upto(a) = Upto(b)
    BY <1>2, <2>1, FS_Subset
  <2>4. Cardinality(Upto(a)) \in Nat /\ Cardinality(Upto(b)) \in Nat
    BY <1>2
  <2> QED
    BY <2>2, <2>3, <2>4
<1>4. f \in [S -> S]
  BY <1>2
<1>13. \A a, b \in S : rank[a] < rank[b] => f[a] < f[b]
  <2> HIDE DEF Upto
  <2> QED
    BY <1>3
<1>5. ASSUME NEW a \in S, NEW b \in S, f[a] = f[b] PROVE a = b
  <2> HIDE DEF f
  <2>1. ~(rank[a] < rank[b]) /\ ~(rank[b] < rank[a])
    BY <1>4, <1>5, <1>13
  <2> QED
    BY <2>1
<1>6. f \in Surjection(S, S)
  <2> HIDE DEF f, S
  <2>1. f \in Injection(S, S)
    BY <1>4, <1>5 DEF Injection, IsInjective
  <2> QED
    BY <1>1, <2>1, FS_Injection
<1>7. \A p \in S : \E m \in S : f[m] = p
  <2> HIDE DEF f, S
  <2> QED
    BY <1>6 DEF Surjection
<1>8. \A p \in S : at[p] = CHOOSE m \in S : f[m] = p
  OBVIOUS
<1>9. \A p \in S : at[p] \in S /\ f[at[p]] = p
  <2> SUFFICES ASSUME NEW p \in S PROVE at[p] \in S /\ f[at[p]] = p
    OBVIOUS
  <2> DEFINE m == CHOOSE m \in S : f[m] = p
  <2> HIDE DEF f, S
  <2>1. \E l \in S : f[l] = p
    BY <1>7
  <2>2. m \in S /\ f[m] = p
    BY <2>1
  <2> QED
    BY <1>8, <2>2
<1>10. at \in [S -> S]
  BY <1>9
<1>11. ASSUME NEW m \in S PROVE \E p \in S : at[p] = m
  <2>1. f[m] \in S /\ at[f[m]] \in S /\ f[at[f[m]]] = f[m]
    BY <1>4, <1>9
  <2> HIDE DEF f
  <2> QED
    BY <1>5, <2>1
<1>12. ASSUME NEW p \in S, NEW q \in S, p < q PROVE rank[at[p]] < rank[at[q]]
  <2>1. at[p] \in S /\ at[q] \in S /\ f[at[p]] = p /\ f[at[q]] = q
    BY <1>9
  <2> HIDE DEF f
  <2>2. ~(rank[at[q]] < rank[at[p]])
    BY <1>12, <1>13, <2>1
  <2>3. rank[at[p]] # rank[at[q]]
    BY <1>12, <2>1
  <2> QED
    BY <2>1, <2>2, <2>3
<1> QED
  BY <1>10, <1>11, <1>12

UidMap == [shape |-> "ok", name |-> "SsMessageUidMap", kind |-> "none", items |-> <<>>]

\* The header of a log has each entry once, and one more, in the order of their names.
LEMMA LogHeaderIs ==
  ASSUME NEW s \in SpecFile
  PROVE  /\ IsSeq(LogHeader(s)) /\ DOMAIN LogHeader(s) = 1 .. (Len(s) + 1)
         /\ \A n \in DOMAIN LogHeader(s) : LogHeader(s)[n] = UidMap \/ LogHeader(s)[n] \in Range(s)
         /\ \A e \in Range(s) : \E n \in DOMAIN LogHeader(s) : LogHeader(s)[n] = e
         /\ \A a, b \in DOMAIN LogHeader(s) :
              a < b => /\ Rank(LogHeader(s)[a].name) \in Int /\ Rank(LogHeader(s)[b].name) \in Int
                       /\ Rank(LogHeader(s)[a].name) < Rank(LogHeader(s)[b].name)
<1> DEFINE all == Append(s, UidMap)
           N == Len(s) + 1
           rank == [m \in 1 .. N |-> Rank(all[m].name)]
           at == [p \in 1 .. N |->
                    CHOOSE m \in 1 .. N :
                      Cardinality({l \in 1 .. N : rank[l] <= rank[m]}) = p]
<1>1. IsSeq(s) /\ WellFormed(s)
  BY SpecFileAssumption DEF Acceptable, IsSeq
<1>2. Len(s) \in Nat /\ DOMAIN s = 1 .. Len(s)
  BY <1>1, SeqIs
<1>3. /\ DOMAIN all = 1 .. N /\ N \in Nat /\ all[N] = UidMap
      /\ \A m \in 1 .. Len(s) : all[m] = s[m]
  BY <1>1, <1>2, AppendIs
<1>4. \A m \in 1 .. Len(s) : all[m].name \in Names(s)
  BY <1>2, <1>3 DEF Names
<1>5. \A m \in 1 .. N : m \in 1 .. Len(s) \/ m = N
  BY <1>2
<1>6. all[N].name = "SsMessageUidMap"
  BY <1>3 DEF UidMap
<1> HIDE DEF all
<1>7. rank \in [1 .. N -> Int]
  BY <1>4, <1>5, <1>6, RankAssumption
<1>8. ASSUME NEW a \in 1 .. N, NEW b \in 1 .. N, rank[a] = rank[b] PROVE a = b
  <2>1. all[a].name = all[b].name
    BY <1>4, <1>5, <1>6, <1>8, RankAssumption
  <2>2. ASSUME NEW c \in 1 .. Len(s), NEW e \in 1 .. Len(s), s[c].name = s[e].name PROVE ~(c < e)
    <3> SUFFICES ASSUME c < e PROVE FALSE
      OBVIOUS
    <3>1. s[c].name \in {s[n].name : n \in 1 .. (e - 1)}
      BY <1>2
    <3> QED
      BY <1>1, <1>2, <2>2, <3>1 DEF WellFormed
  <2>3. CASE a \in 1 .. Len(s) /\ b \in 1 .. Len(s)
    BY <1>2, <1>3, <2>1, <2>2, <2>3
  <2>4. CASE a = N \/ b = N
    BY <1>4, <1>5, <1>6, <2>1, <2>4, RankAssumption
  <2> QED
    BY <1>5, <2>3, <2>4
<1> HIDE DEF N
<1>9. /\ at \in [1 .. N -> 1 .. N]
      /\ \A m \in 1 .. N : \E p \in 1 .. N : at[p] = m
      /\ \A p, q \in 1 .. N : p < q => rank[at[p]] < rank[at[q]]
  <2> HIDE DEF rank
  <2> QED
    BY <1>3, <1>7, <1>8, Sorting
<1>10. LogHeader(s) = [p \in 1 .. N |-> all[at[p]]]
  <2> DEFINE upTo(n) == {m \in DOMAIN all : Rank(all[m].name) <= Rank(all[n].name)}
  <2>1. LogHeader(s) = [p \in DOMAIN all |->
                          all[CHOOSE n \in DOMAIN all : Cardinality(upTo(n)) = p]]
    BY DEF LogHeader, UidMap, all
  <2>2. \A n \in 1 .. N : upTo(n) = {l \in 1 .. N : rank[l] <= rank[n]}
    BY <1>3
  <2> HIDE DEF upTo, rank
  <2>3. \A p \in 1 .. N : at[p] = CHOOSE n \in DOMAIN all : Cardinality(upTo(n)) = p
    BY <1>3, <2>2
  <2> HIDE DEF at
  <2> QED
    BY <1>3, <2>1, <2>3
<1> HIDE DEF at
<1>11. IsSeq(LogHeader(s)) /\ DOMAIN LogHeader(s) = 1 .. N
  <2>1. LogHeader(s) = [p \in 1 .. N |-> LogHeader(s)[p]]
    BY <1>10
  <2> QED
    BY <1>3, <2>1, FunctionIsSeq
<1>12. ASSUME NEW p \in 1 .. N PROVE LogHeader(s)[p] = UidMap \/ LogHeader(s)[p] \in Range(s)
  <2>1. LogHeader(s)[p] = all[at[p]] /\ at[p] \in 1 .. N
    BY <1>9, <1>10
  <2>2. \A m \in 1 .. N : all[m] = UidMap \/ all[m] \in Range(s)
    BY <1>2, <1>3, <1>5 DEF Range
  <2> QED
    BY <2>1, <2>2
<1>13. ASSUME NEW e \in Range(s) PROVE \E p \in 1 .. N : LogHeader(s)[p] = e
  <2>1. PICK m \in 1 .. Len(s) : s[m] = e
    BY <1>2 DEF Range
  <2>2. m \in 1 .. N /\ all[m] = e
    BY <1>2, <1>3, <2>1 DEF N
  <2>3. PICK p \in 1 .. N : at[p] = m
    BY <1>9, <2>2
  <2> QED
    BY <1>10, <2>2, <2>3
<1>14. ASSUME NEW a \in 1 .. N, NEW b \in 1 .. N, a < b
       PROVE  /\ Rank(LogHeader(s)[a].name) \in Int /\ Rank(LogHeader(s)[b].name) \in Int
              /\ Rank(LogHeader(s)[a].name) < Rank(LogHeader(s)[b].name)
  <2>1. LogHeader(s)[a] = all[at[a]] /\ LogHeader(s)[b] = all[at[b]]
    BY <1>10
  <2>2. at[a] \in 1 .. N /\ at[b] \in 1 .. N /\ rank[at[a]] < rank[at[b]]
    BY <1>9, <1>14
  <2> QED
    BY <1>7, <2>1, <2>2
<1> QED
  BY <1>11, <1>12, <1>13, <1>14 DEF N

-----------------------------------------------------------------------------
(* The specification.                                                      *)

\* A document has the entries of the specification, each once.
LEMMA DocumentIs ==
  ASSUME NEW s \in SpecFile, NEW from \in {"file", "log"}
  PROVE  /\ IsSeq(Document(s, from))
         /\ \A n \in DOMAIN Document(s, from) :
              Document(s, from)[n] = UidMap \/ Document(s, from)[n] \in Range(s)
         /\ \A e \in Range(s) : \E n \in DOMAIN Document(s, from) : Document(s, from)[n] = e
         /\ \A a, b \in DOMAIN Document(s, from) :
              Document(s, from)[a].name = Document(s, from)[b].name => a = b
<1>1. CASE from = "log"
  <2>1. Document(s, from) = LogHeader(s) /\ DOMAIN LogHeader(s) = 1 .. (Len(s) + 1)
    BY <1>1, LogHeaderIs DEF Document
  <2>2. ASSUME NEW a \in DOMAIN LogHeader(s), NEW b \in DOMAIN LogHeader(s), a < b
        PROVE  LogHeader(s)[a].name # LogHeader(s)[b].name
    <3>1. /\ Rank(LogHeader(s)[a].name) \in Int /\ Rank(LogHeader(s)[b].name) \in Int
          /\ Rank(LogHeader(s)[a].name) < Rank(LogHeader(s)[b].name)
      BY <2>2, LogHeaderIs
    <3> QED
      BY <3>1
  <2>3. ASSUME NEW a \in DOMAIN LogHeader(s), NEW b \in DOMAIN LogHeader(s),
               LogHeader(s)[a].name = LogHeader(s)[b].name
        PROVE  a = b
    <3>1. ~(a < b) /\ ~(b < a)
      BY <2>2, <2>3
    <3>2. a \in Int /\ b \in Int
      BY <2>1
    <3> QED
      BY <3>1, <3>2
  <2> QED
    BY <2>1, <2>3, LogHeaderIs
<1>2. CASE from = "file"
  <2>1. Document(s, from) = s /\ IsSeq(s) /\ WellFormed(s)
    BY <1>2, SpecFileAssumption DEF Acceptable, Document, IsSeq
  <2>2. DOMAIN s = 1 .. Len(s) /\ Len(s) \in Nat
    BY <2>1, SeqIs
  <2>3. ASSUME NEW a \in DOMAIN s, NEW b \in DOMAIN s, a < b PROVE s[a].name # s[b].name
    <3>1. s[a].name \in {s[n].name : n \in 1 .. (b - 1)}
      BY <2>2, <2>3
    <3> QED
      BY <2>1, <3>1 DEF WellFormed
  <2>4. ASSUME NEW a \in DOMAIN s, NEW b \in DOMAIN s, s[a].name = s[b].name PROVE a = b
    <3>1. ~(a < b) /\ ~(b < a)
      BY <2>3, <2>4
    <3>2. a \in Int /\ b \in Int
      BY <2>2
    <3> QED
      BY <3>1, <3>2
  <2> QED
    BY <2>1, <2>4 DEF Range
<1> QED
  BY <1>1, <1>2

-----------------------------------------------------------------------------
(* The map of types only grows.                                            *)

Extends(more, map) ==
  DOMAIN map \subseteq DOMAIN more /\ \A key \in DOMAIN map : more[key] = map[key]

\* Each field takes the UID of its type, and begins where the one before ends.
FieldLies(fs, n, map) ==
  /\ fs[n].key \in DOMAIN map
  /\ fs[n].uid = FieldHash(fs[n].name, map[fs[n].key].uid)
  /\ n = 1 => fs[n].offset = 0
  /\ n > 1 => fs[n].offset = fs[n - 1].offset + map[fs[n - 1].key].size
Laid(struct, map) ==
  /\ IsSeq(struct.fields) /\ struct.size \in Int
  /\ \A n \in 1 .. Len(struct.fields) : FieldLies(struct.fields, n, map)
  /\ Len(struct.fields) = 0 => struct.size = 0
  /\ Len(struct.fields) > 0 =>
       struct.size = struct.fields[Len(struct.fields)].offset
                       + map[struct.fields[Len(struct.fields)].key].size

\* An array is what its element and its lengths make it.
MapOK(map) ==
  \A key \in DOMAIN map :
    /\ key = Key(key.base, key.lens) /\ key.lens \in Seq(Int) /\ Named(key.base) \in DOMAIN map
    /\ map[key].name = IF key.lens = <<>> THEN key.base ELSE key
    /\ map[key].size \in Int
    /\ map[key].size = ArraySize(map[Named(key.base)].size, key.lens)
    /\ map[key].uid = ArrayUid(map[Named(key.base)].uid, key.lens)
    /\ map[key].kind \in {"Struct", "Message"} => Laid(map[key], map)

LEMMA AddIs ==
  ASSUME NEW map, NEW key, NEW value
  PROVE  /\ DOMAIN Add(map, key, value) = DOMAIN map \cup {key}
         /\ key \notin DOMAIN map => Add(map, key, value)[key] = value
         /\ Extends(Add(map, key, value), map)
BY DEF Add, Extends

LEMMA ExtendsFurther ==
  ASSUME NEW a, NEW b, NEW c, Extends(b, a), Extends(c, b)
  PROVE  Extends(c, a)
BY DEF Extends

LEMMA LaidStays ==
  ASSUME NEW struct, NEW map, NEW more, Laid(struct, map), Extends(more, map)
  PROVE  Laid(struct, more)
<1>1. Len(struct.fields) \in Nat
  BY SeqIs DEF Laid
<1>2. \A n \in 1 .. Len(struct.fields) : struct.fields[n].key \in DOMAIN map
  BY DEF Laid, FieldLies
<1>3. ASSUME NEW n \in 1 .. Len(struct.fields) PROVE FieldLies(struct.fields, n, more)
  <2>1. FieldLies(struct.fields, n, map)
    BY DEF Laid
  <2>2. n > 1 => struct.fields[n - 1].key \in DOMAIN map
    BY <1>1, <1>2
  <2> QED
    BY <2>1, <2>2 DEF FieldLies, Extends
<1>4. Len(struct.fields) > 0 => struct.fields[Len(struct.fields)].key \in DOMAIN map
  BY <1>1, <1>2
<1> QED
  BY <1>3, <1>4 DEF Laid, Extends

LEMMA AddKeeps ==
  ASSUME NEW map, MapOK(map), NEW key, NEW value,
         key = Key(key.base, key.lens), key.lens \in Seq(Int),
         value.name = IF key.lens = <<>> THEN key.base ELSE key, value.size \in Int,
         value.kind \in {"Struct", "Message"} => Laid(value, map),
         key.lens # <<>> => Named(key.base) \in DOMAIN map,
         key.lens # <<>> => /\ value.size = ArraySize(map[Named(key.base)].size, key.lens)
                            /\ value.uid = ArrayUid(map[Named(key.base)].uid, key.lens)
  PROVE  MapOK(Add(map, key, value))
<1> DEFINE more == Add(map, key, value)
<1>1. /\ DOMAIN more = DOMAIN map \cup {key} /\ Extends(more, map)
      /\ key \notin DOMAIN map => more[key] = value
  BY AddIs
<1> HIDE DEF more
<1>2. CASE key \in DOMAIN map
  <2>1. DOMAIN more = DOMAIN map /\ \A x \in DOMAIN map : more[x] = map[x]
    BY <1>1, <1>2 DEF Extends
  <2>2. ASSUME NEW x \in DOMAIN map, map[x].kind \in {"Struct", "Message"} PROVE Laid(map[x], more)
    BY <1>1, <2>2, LaidStays DEF MapOK
  <2> QED
    BY <2>1, <2>2 DEF MapOK, more
<1>3. CASE key \notin DOMAIN map
  <2>1. ASSUME NEW x \in DOMAIN map
        PROVE  /\ x = Key(x.base, x.lens) /\ x.lens \in Seq(Int) /\ Named(x.base) \in DOMAIN more
               /\ more[x].name = IF x.lens = <<>> THEN x.base ELSE x
               /\ more[x].size \in Int
               /\ more[x].size = ArraySize(more[Named(x.base)].size, x.lens)
               /\ more[x].uid = ArrayUid(more[Named(x.base)].uid, x.lens)
               /\ more[x].kind \in {"Struct", "Message"} => Laid(more[x], more)
    <3>1. /\ x = Key(x.base, x.lens) /\ x.lens \in Seq(Int) /\ Named(x.base) \in DOMAIN map
          /\ map[x].name = IF x.lens = <<>> THEN x.base ELSE x
          /\ map[x].size \in Int
          /\ map[x].size = ArraySize(map[Named(x.base)].size, x.lens)
          /\ map[x].uid = ArrayUid(map[Named(x.base)].uid, x.lens)
          /\ map[x].kind \in {"Struct", "Message"} => Laid(map[x], map)
      BY DEF MapOK
    <3>2. more[x] = map[x] /\ more[Named(x.base)] = map[Named(x.base)] /\ Named(x.base) \in DOMAIN more
      BY <1>1, <3>1 DEF Extends
    <3>3. map[x].kind \in {"Struct", "Message"} => Laid(map[x], more)
      BY <1>1, <3>1, LaidStays
    <3> QED
      BY <3>1, <3>2, <3>3
  <2>2. /\ Named(key.base) \in DOMAIN more
        /\ value.size = ArraySize(more[Named(key.base)].size, key.lens)
        /\ value.uid = ArrayUid(more[Named(key.base)].uid, key.lens)
    <3>1. CASE key.lens = <<>>
      <4>1. key = Named(key.base) /\ DOMAIN key.lens = {}
        BY <3>1 DEF Named
      <4> QED
        BY <1>1, <1>3, <4>1, ArrayOfNone
    <3>2. CASE key.lens # <<>>
      BY <1>1, <3>2 DEF Extends
    <3> QED
      BY <3>1, <3>2
  <2>3. value.kind \in {"Struct", "Message"} => Laid(value, more)
    BY <1>1, LaidStays
  <2>4. \A x \in DOMAIN more : x \in DOMAIN map \/ (x = key /\ more[x] = value)
    BY <1>1, <1>3
  <2> QED
    BY <2>1, <2>2, <2>3, <2>4 DEF MapOK, more
<1> QED
  BY <1>2, <1>3

-----------------------------------------------------------------------------
(* The parts of a descriptor.                                              *)

\* The UID that SetUid gives a descriptor with members.
MembersUid(o) == TypeHash(o.name, [n \in 1 .. Len(o.fields) |-> o.fields[n].uid])

HasField(with, o, name, key, map) ==
  /\ Laid(with, map)
  /\ with.name = o.name /\ with.kind = o.kind
  /\ Len(with.fields) = Len(o.fields) + 1
  /\ \A n \in 1 .. Len(o.fields) : with.fields[n] = o.fields[n]
  /\ with.fields[Len(o.fields) + 1].name = name
  /\ with.fields[Len(o.fields) + 1].key = key
  /\ with.uid = MembersUid(with)

LEMMA WithFieldIs ==
  ASSUME NEW map, MapOK(map), NEW o, Laid(o, map), NEW name, NEW key \in DOMAIN map
  PROVE  HasField(WithField(o, name, key, map), o, name, key, map)
<1> DEFINE f == [name |-> name, key |-> key, uid |-> FieldHash(name, map[key].uid),
                 offset |-> o.size]
           fs == Append(o.fields, f)
           with == WithField(o, name, key, map)
           N == Len(o.fields)
<1>1. /\ with.name = o.name /\ with.kind = o.kind /\ with.fields = fs
      /\ with.size = o.size + map[key].size
      /\ with.uid = TypeHash(o.name, [n \in DOMAIN fs |-> fs[n].uid])
  BY DEF WithField, Descriptor
<1>2. /\ f.name = name /\ f.key = key /\ f.uid = FieldHash(name, map[key].uid)
      /\ f.offset = o.size
  OBVIOUS
<1>3. /\ IsSeq(o.fields) /\ N \in Nat /\ o.size \in Int
      /\ \A n \in 1 .. N : FieldLies(o.fields, n, map)
      /\ N = 0 => o.size = 0
      /\ N > 0 => o.size = o.fields[N].offset + map[o.fields[N].key].size
  BY SeqIs DEF Laid
<1> HIDE DEF f
<1>4. /\ IsSeq(fs) /\ Len(fs) = N + 1 /\ DOMAIN fs = 1 .. (N + 1)
      /\ \A n \in 1 .. N : fs[n] = o.fields[n]
      /\ fs[N + 1] = f
  BY <1>3, AppendIs
<1> HIDE DEF fs, with
<1>5. ASSUME NEW n \in 1 .. (N + 1) PROVE FieldLies(fs, n, map)
  <2>1. CASE n \in 1 .. N
    <3>1. FieldLies(o.fields, n, map)
      BY <1>3, <2>1
    <3>2. n > 1 => n - 1 \in 1 .. N
      BY <1>3, <2>1
    <3> QED
      BY <1>4, <2>1, <3>1, <3>2 DEF FieldLies
  <2>2. CASE n = N + 1
    <3>1. N > 0 => N \in 1 .. N /\ n - 1 = N
      BY <1>3, <2>2
    <3>2. n = 1 => N = 0
      BY <1>3, <2>2
    <3> QED
      BY <1>2, <1>3, <1>4, <2>2, <3>1, <3>2 DEF FieldLies
  <2> QED
    BY <1>3, <2>1, <2>2
<1>6. map[key].size \in Int
  BY DEF MapOK
<1>7. Laid(with, map)
  BY <1>1, <1>2, <1>3, <1>4, <1>5, <1>6 DEF Laid
<1>8. with.uid = MembersUid(with)
  BY <1>1, <1>4 DEF MembersUid
<1> QED
  BY <1>1, <1>2, <1>3, <1>4, <1>7, <1>8 DEF with, HasField

\* Only arrays are added to the map.
OnlyArrays(more, map) == \A key \in DOMAIN more : key \in DOMAIN map \/ key.lens # <<>>

ArraysFold == INSTANCE FoldTheorems WITH
  Op <- LAMBDA c, m, n :
    Add(m, Key(c.base, SubSeq(c.lens, 1, n)),
        Descriptor(Key(c.base, SubSeq(c.lens, 1, n)), "Array",
                   ArrayHash(m[Key(c.base, SubSeq(c.lens, 1, n - 1))].uid, c.lens[n]),
                   m[Key(c.base, SubSeq(c.lens, 1, n - 1))].size * c.lens[n],
                   <<Key(c.base, SubSeq(c.lens, 1, n - 1))>>))

LEMMA WithArraysIsFold ==
  ASSUME NEW map, NEW base, NEW lens
  PROVE  WithArrays(map, base, lens) =
           ArraysFold!Fold([base |-> base, lens |-> lens], map, [n \in DOMAIN lens |-> n])
BY DEF WithArrays, FoldLeft, MapThenFoldSet, ArraysFold!Fold, ArraysFold!Rec,
       ArraysFold!Step, Max, ArraysFold!Max

\* ParseArray enters the array and the arrays inside it, and changes nothing else.
LEMMA WithArraysIs ==
  ASSUME NEW map, MapOK(map), NEW base, Named(base) \in DOMAIN map, NEW lens \in Seq(Int)
  PROVE  LET more == WithArrays(map, base, lens)
         IN  /\ MapOK(more) /\ Extends(more, map) /\ OnlyArrays(more, map)
             /\ Key(base, lens) \in DOMAIN more
<1> DEFINE c == [base |-> base, lens |-> lens]
           seq == [n \in DOMAIN lens |-> n]
           N == Len(lens)
           key(n) == Key(base, SubSeq(lens, 1, n))
           Good(m, n) == MapOK(m) /\ Extends(m, map) /\ OnlyArrays(m, map) /\ key(n) \in DOMAIN m
<1>1. N \in Nat /\ DOMAIN lens = 1 .. N /\ \A n \in 1 .. N : lens[n] \in Int
  BY LenProperties, ElementOfSeq
<1>2. ASSUME NEW n \in 0 .. N
      PROVE  /\ SubSeq(lens, 1, n) \in Seq(Int) /\ DOMAIN SubSeq(lens, 1, n) = 1 .. n
             /\ \A i \in 1 .. n : SubSeq(lens, 1, n)[i] = lens[i]
             /\ Len(SubSeq(lens, 1, n)) = n
  <2>1. \A i \in 1 .. n : lens[i] \in Int
    BY <1>1
  <2>2. /\ SubSeq(lens, 1, n) \in Seq(Int) /\ Len(SubSeq(lens, 1, n)) = n
        /\ \A i \in 1 .. n : SubSeq(lens, 1, n)[i] = lens[i]
    BY <1>1, <2>1, SubSeqProperties
  <2> QED
    BY <2>2, LenProperties
<1>3. PICK h : ArraysFold!FoldsTo(h, c, map, seq, N) /\ ArraysFold!Fold(c, map, seq) = h[N]
  <2>1. DOMAIN seq = 1 .. N
    BY <1>1
  <2> HIDE DEF c, seq, N
  <2> QED
    BY <1>1, <2>1, ArraysFold!FoldHas
<1>4. Good(h[0], 0)
  <2>1. h[0] = map
    BY <1>3 DEF ArraysFold!FoldsTo
  <2>2. SubSeq(lens, 1, 0) = <<>>
    BY <1>1, <1>2, EmptySeq
  <2> QED
    BY <2>1, <2>2 DEF Extends, OnlyArrays, Named
<1>5. ASSUME NEW n \in Nat, n < N, Good(h[n], n) PROVE Good(h[n + 1], n + 1)
  <2> DEFINE m == h[n]
             new == Descriptor(key(n + 1), "Array", ArrayHash(m[key(n)].uid, lens[n + 1]),
                               m[key(n)].size * lens[n + 1], <<key(n)>>)
  <2>1. h[n + 1] = Add(m, key(n + 1), new)
    <3>1. n + 1 \in 1 .. N /\ (n + 1) - 1 = n /\ seq[n + 1] = n + 1
      BY <1>1, <1>5
    <3>2. c.base = base /\ c.lens = lens
      OBVIOUS
    <3> HIDE DEF c, seq
    <3>3. h[n + 1] =
            Add(h[(n + 1) - 1], Key(c.base, SubSeq(c.lens, 1, seq[n + 1])),
                Descriptor(Key(c.base, SubSeq(c.lens, 1, seq[n + 1])), "Array",
                  ArrayHash(h[(n + 1) - 1][Key(c.base, SubSeq(c.lens, 1, seq[n + 1] - 1))].uid,
                            c.lens[seq[n + 1]]),
                  h[(n + 1) - 1][Key(c.base, SubSeq(c.lens, 1, seq[n + 1] - 1))].size
                    * c.lens[seq[n + 1]],
                  <<Key(c.base, SubSeq(c.lens, 1, seq[n + 1] - 1))>>))
      BY <1>3, <3>1 DEF ArraysFold!FoldsTo
    <3> QED
      BY <3>1, <3>2, <3>3
  <2>2. /\ new.name = key(n + 1) /\ new.kind = "Array"
        /\ new.uid = ArrayHash(m[key(n)].uid, lens[n + 1])
        /\ new.size = m[key(n)].size * lens[n + 1]
    BY DEF Descriptor
  <2>3. /\ key(n + 1).base = base /\ key(n + 1).lens = SubSeq(lens, 1, n + 1)
        /\ key(n).base = base /\ key(n).lens = SubSeq(lens, 1, n)
    BY DEF Key
  <2>4. /\ n \in 0 .. N /\ n + 1 \in 0 .. N /\ lens[n + 1] \in Int
        /\ SubSeq(lens, 1, n + 1)[n + 1] = lens[n + 1]
        /\ \A i \in 1 .. n : SubSeq(lens, 1, n + 1)[i] = SubSeq(lens, 1, n)[i]
        /\ SubSeq(lens, 1, n + 1) # <<>>
    BY <1>1, <1>2, <1>5, EmptySeq
  <2>5. /\ MapOK(m) /\ Extends(m, map) /\ OnlyArrays(m, map) /\ key(n) \in DOMAIN m
        /\ Named(base) \in DOMAIN m
    BY <1>5 DEF Extends
  <2>6. /\ m[key(n)].size = ArraySize(m[Named(base)].size, SubSeq(lens, 1, n))
        /\ m[key(n)].uid = ArrayUid(m[Named(base)].uid, SubSeq(lens, 1, n))
        /\ m[key(n)].size \in Int
    BY <2>3, <2>5 DEF MapOK
  <2>7. /\ ArraySize(m[Named(base)].size, SubSeq(lens, 1, n + 1)) = m[key(n)].size * lens[n + 1]
        /\ ArrayUid(m[Named(base)].uid, SubSeq(lens, 1, n + 1)) = ArrayHash(m[key(n)].uid, lens[n + 1])
    <3> DEFINE a == SubSeq(lens, 1, n)
               b == SubSeq(lens, 1, n + 1)
               x == m[Named(base)].size
               y == m[Named(base)].uid
    <3>1. DOMAIN a = 1 .. n /\ DOMAIN b = 1 .. (n + 1) /\ \A i \in 1 .. n : b[i] = a[i]
      BY <1>2, <2>4
    <3>2. b[n + 1] = lens[n + 1] /\ m[key(n)].size = ArraySize(x, a) /\ m[key(n)].uid = ArrayUid(y, a)
      BY <2>4, <2>6
    <3> HIDE DEF a, b, x, y
    <3>3. ArraySize(x, b) = ArraySize(x, a) * b[n + 1]
      BY <3>1, ArraySizeOneMore
    <3>4. ArrayUid(y, b) = ArrayHash(ArrayUid(y, a), b[n + 1])
      BY <3>1, ArrayUidOneMore
    <3> QED
      BY <3>2, <3>3, <3>4 DEF a, b, x, y
  <2>8. new.size \in Int
    BY <2>2, <2>4, <2>6
  <2>9. key(n + 1) = Key(key(n + 1).base, key(n + 1).lens) /\ key(n + 1).lens \in Seq(Int)
    BY <1>2, <2>3, <2>4
  <2> HIDE DEF new, key, m
  <2>10. MapOK(Add(m, key(n + 1), new))
    BY <2>2, <2>3, <2>4, <2>5, <2>7, <2>8, <2>9, AddKeeps
  <2>11. Extends(Add(m, key(n + 1), new), map)
    BY <2>5, AddIs, ExtendsFurther
  <2>12. OnlyArrays(Add(m, key(n + 1), new), map)
    BY <2>3, <2>4, <2>5 DEF OnlyArrays, Add
  <2>13. key(n + 1) \in DOMAIN Add(m, key(n + 1), new)
    BY DEF Add
  <2> QED
    BY <2>1, <2>10, <2>11, <2>12, <2>13 DEF m
<1>6. Good(h[N], N)
  <2> DEFINE K == {n \in Nat : n <= N => Good(h[n], n)}
  <2> HIDE DEF Good
  <2>1. 0 \in K
    BY <1>4
  <2>2. ASSUME NEW n \in Nat, n \in K PROVE n + 1 \in K
    <3> SUFFICES ASSUME n + 1 <= N PROVE Good(h[n + 1], n + 1)
      OBVIOUS
    <3>1. n < N /\ Good(h[n], n)
      BY <1>1, <2>2
    <3> QED
      BY <1>5, <3>1
  <2>3. \A n \in Nat : n \in K
    <3> HIDE DEF K
    <3> QED
      BY <2>1, <2>2, ArraysFold!Induction
  <2> QED
    BY <1>1, <2>3
<1>7. SubSeq(lens, 1, N) = lens
  BY <1>1, SubSeqFull
<1> QED
  BY <1>3, <1>6, <1>7, WithArraysIsFold

\* The header has an integer of 32 bits and one of 16.
IsHeader(o) ==
  /\ o.name = "SsHeader" /\ o.kind = "Struct" /\ Len(o.fields) = 2
  /\ o.fields[1].name = "uid" /\ o.fields[1].key = Named("uint32")
  /\ o.fields[2].name = "len" /\ o.fields[2].key = Named("uint16")
  /\ o.uid = MembersUid(o)

LEMMA BaseTypesAre ==
  /\ MapOK(BaseTypes)
  /\ DOMAIN BaseTypes = {Named(name) : name \in Reserved}
  /\ \A name \in Range(Primitive) :
       /\ BaseTypes[Named(name)].uid = PrimitiveHash(name, PrimSize[name])
       /\ BaseTypes[Named(name)].size = PrimSize[name]
  /\ IsHeader(BaseTypes[Named("SsHeader")])
<1> DEFINE prim(key) == Descriptor(key.base, "Primitive",
                                   PrimitiveHash(key.base, PrimSize[key.base]),
                                   PrimSize[key.base], <<>>)
           prims == [key \in {Named(name) : name \in Range(Primitive)} |-> prim(key)]
           header == Descriptor("SsHeader", "Struct", NoUid, 0, <<>>)
           one == WithField(header, "uid", Named("uint32"), prims)
           two == WithField(one, "len", Named("uint16"), prims)
<1>1. BaseTypes = Add(prims, Named("SsHeader"), two)
  BY DEF BaseTypes
<1>2. \A name : Named(name).base = name /\ Named(name).lens = <<>> /\ Named(name) = Key(name, <<>>)
  BY DEF Named, Key
<1>3. \A name \in Range(Primitive) :
        /\ Named(name) \in DOMAIN prims
        /\ prims[Named(name)].name = name /\ prims[Named(name)].kind = "Primitive"
        /\ prims[Named(name)].uid = PrimitiveHash(name, PrimSize[name])
        /\ prims[Named(name)].size = PrimSize[name]
  BY <1>2 DEF Descriptor
<1>4. DOMAIN prims = {Named(name) : name \in Range(Primitive)}
  OBVIOUS
<1> HIDE DEF prims
<1>5. MapOK(prims)
  <2> SUFFICES ASSUME NEW name \in Range(Primitive)
               PROVE  /\ Named(name) = Key(Named(name).base, Named(name).lens)
                      /\ Named(name).lens \in Seq(Int)
                      /\ Named(Named(name).base) \in DOMAIN prims
                      /\ prims[Named(name)].name =
                           IF Named(name).lens = <<>> THEN Named(name).base ELSE Named(name)
                      /\ prims[Named(name)].size \in Int
                      /\ prims[Named(name)].size =
                           ArraySize(prims[Named(Named(name).base)].size, Named(name).lens)
                      /\ prims[Named(name)].uid =
                           ArrayUid(prims[Named(Named(name).base)].uid, Named(name).lens)
                      /\ prims[Named(name)].kind \notin {"Struct", "Message"}
    BY <1>4 DEF MapOK
  <2>1. <<>> \in Seq(Int)
    OBVIOUS
  <2>2. PrimSize[name] \in Int
    BY SizeAssumption
  <2>3. \A x : ArraySize(x, <<>>) = x /\ ArrayUid(x, <<>>) = x
    BY ArrayOfNone
  <2> DEFINE x == Named(name)
  <2>4. x.base = name /\ x.lens = <<>> /\ x = Key(name, <<>>) /\ Named(name) = x
    BY <1>2
  <2>5. /\ x \in DOMAIN prims /\ prims[x].name = name /\ prims[x].kind = "Primitive"
        /\ prims[x].size = PrimSize[name]
    BY <1>3
  <2> HIDE DEF x
  <2>6. x = Key(x.base, x.lens) /\ x.lens \in Seq(Int) /\ Named(x.base) = x
    BY <2>1, <2>4
  <2>7. /\ prims[x].size = ArraySize(prims[x].size, x.lens)
        /\ prims[x].uid = ArrayUid(prims[x].uid, x.lens)
    BY <2>3, <2>4
  <2>8. prims[x].name = IF x.lens = <<>> THEN x.base ELSE x
    BY <2>4, <2>5
  <2> QED
    BY <2>2, <2>4, <2>5, <2>6, <2>7, <2>8
<1>6. Named("uint32") \in DOMAIN prims /\ Named("uint16") \in DOMAIN prims
  BY <1>3, PrimitiveAssumption
<1>7. /\ Laid(header, prims) /\ header.name = "SsHeader" /\ header.kind = "Struct"
      /\ header.fields = <<>> /\ Len(header.fields) = 0
  <2>1. /\ header.name = "SsHeader" /\ header.kind = "Struct" /\ header.size = 0
        /\ header.fields = <<>>
    BY DEF Descriptor
  <2>2. IsSeq(<<>>) /\ Len(<<>>) = 0
    BY DEF IsSeq
  <2> HIDE DEF header
  <2> QED
    BY <2>1, <2>2 DEF Laid
<1> HIDE DEF header
<1>8. /\ Laid(one, prims) /\ one.name = "SsHeader" /\ one.kind = "Struct"
      /\ Len(one.fields) = 1 /\ one.fields[1].name = "uid" /\ one.fields[1].key = Named("uint32")
  <2>1. HasField(one, header, "uid", Named("uint32"), prims)
    BY <1>5, <1>6, <1>7, WithFieldIs
  <2> HIDE DEF one
  <2> QED
    BY <1>7, <2>1 DEF HasField
<1> HIDE DEF one
<1>9. /\ Laid(two, prims) /\ two.name = "SsHeader" /\ two.kind = "Struct"
      /\ Len(two.fields) = 2 /\ two.fields[1] = one.fields[1]
      /\ two.fields[2].name = "len" /\ two.fields[2].key = Named("uint16")
      /\ two.uid = MembersUid(two)
  <2>1. HasField(two, one, "len", Named("uint16"), prims)
    BY <1>5, <1>6, <1>8, WithFieldIs
  <2> HIDE DEF two
  <2> QED
    BY <1>8, <2>1 DEF HasField
<1> HIDE DEF two
<1>10. Named("SsHeader") \notin DOMAIN prims
  <2>1. \A name \in Range(Primitive) : Named(name) # Named("SsHeader")
    BY <1>2, PrimitiveAssumption
  <2> QED
    BY <1>4, <2>1
<1>11. MapOK(BaseTypes)
  <2>1. /\ Named("SsHeader") = Key(Named("SsHeader").base, Named("SsHeader").lens)
        /\ Named("SsHeader").lens \in Seq(Int) /\ Named("SsHeader").lens = <<>>
        /\ Named("SsHeader").base = "SsHeader"
    <3>1. <<>> \in Seq(Int)
      OBVIOUS
    <3> QED
      BY <1>2, <3>1
  <2>2. two.size \in Int
    BY <1>9 DEF Laid
  <2> QED
    BY <1>1, <1>5, <1>9, <2>1, <2>2, AddKeeps
<1>12. /\ DOMAIN BaseTypes = DOMAIN prims \cup {Named("SsHeader")}
       /\ BaseTypes[Named("SsHeader")] = two
       /\ \A x \in DOMAIN prims : BaseTypes[x] = prims[x]
  BY <1>1, <1>10 DEF Add
<1>13. DOMAIN BaseTypes = {Named(name) : name \in Reserved}
  BY <1>4, <1>12 DEF Reserved
<1>14. IsHeader(two)
  BY <1>8, <1>9 DEF IsHeader
<1> QED
  BY <1>3, <1>4, <1>11, <1>12, <1>13, <1>14

-----------------------------------------------------------------------------
(* A descriptor under construction.                                        *)

FilledStruct(o, e, c, map) ==
  /\ Laid(o, map)
  /\ HeaderCount(e) = 1 => o.fields[1].name = "ss_header" /\ o.fields[1].key = Named("SsHeader")
  /\ \A i \in 1 .. c : /\ o.fields[HeaderCount(e) + i].name = e.items[i].name
                       /\ o.fields[HeaderCount(e) + i].key = Key(e.items[i].type, e.items[i].lens)
FilledBitfield(o, e, c) ==
  /\ \A i \in 1 .. c : /\ o.fields[i].bits = e.items[i].bits
                       /\ o.fields[i].uid = ValueHash(e.items[i].name, e.items[i].bits)
  /\ o.size = IF c = 0 THEN 0 ELSE BitfieldSize(Bits(First(e.items, c)))
FilledEnum(o, e, c) ==
  /\ \A i \in 1 .. c : o.fields[i].uid = ValueHash(e.items[i].name, i - 1)
  /\ o.size = IF c = 0 THEN 1 ELSE EnumSize(c)

\* The descriptor o of entry e once c of its items have been read.
Filled(o, e, c, map) ==
  /\ o.name = e.name /\ o.kind = e.kind /\ o.size \in Int
  /\ IsSeq(o.fields) /\ Len(o.fields) = HeaderCount(e) + c
  /\ o.uid = IF Len(o.fields) = 0 THEN NoUid ELSE MembersUid(o)
  /\ e.kind \in {"Struct", "Message"} => FilledStruct(o, e, c, map)
  /\ e.kind = "Bitfield" => FilledBitfield(o, e, c)
  /\ e.kind = "Enum" => FilledEnum(o, e, c)

LEMMA FilledStays ==
  ASSUME NEW o, NEW e, NEW c, NEW map, NEW more, Filled(o, e, c, map), Extends(more, map)
  PROVE  Filled(o, e, c, more)
<1>1. e.kind \in {"Struct", "Message"} => FilledStruct(o, e, c, more)
  <2> SUFFICES ASSUME e.kind \in {"Struct", "Message"} PROVE FilledStruct(o, e, c, more)
    OBVIOUS
  <2>1. FilledStruct(o, e, c, map)
    BY DEF Filled
  <2>2. Laid(o, more)
    BY <2>1, LaidStays DEF FilledStruct
  <2> QED
    BY <2>1, <2>2 DEF FilledStruct
<1> QED
  BY <1>1 DEF Filled

HasMember(with, o, f) ==
  /\ IsSeq(with.fields) /\ Len(with.fields) = Len(o.fields) + 1 /\ Len(o.fields) \in Nat
  /\ \A n \in 1 .. Len(o.fields) : with.fields[n] = o.fields[n]
  /\ with.fields[Len(o.fields) + 1] = f
  /\ with.uid = MembersUid(with)

\* One more member: what WithBits and WithValue append.
LEMMA MemberAdded ==
  ASSUME NEW o, IsSeq(o.fields), NEW f, NEW new, new.name = o.name,
         new.fields = Append(o.fields, f),
         new.uid = TypeHash(o.name, [n \in DOMAIN new.fields |-> new.fields[n].uid])
  PROVE  HasMember(new, o, f)
<1>1. /\ IsSeq(Append(o.fields, f)) /\ Len(Append(o.fields, f)) = Len(o.fields) + 1
      /\ DOMAIN Append(o.fields, f) = 1 .. (Len(o.fields) + 1)
      /\ \A n \in 1 .. Len(o.fields) : Append(o.fields, f)[n] = o.fields[n]
      /\ Append(o.fields, f)[Len(o.fields) + 1] = f
  BY AppendIs
<1>2. Len(o.fields) \in Nat
  BY SeqIs
<1> QED
  BY <1>1, <1>2 DEF MembersUid, HasMember

\* The bits of the fields that have been added are those of the items.
LEMMA BitsSoFar ==
  ASSUME NEW o, NEW e, NEW c \in Nat, NEW map, Filled(o, e, c, map), e.kind = "Bitfield"
  PROVE  Bits(o.fields) = Bits(First(e.items, c))
<1>1. /\ DOMAIN o.fields = 1 .. c /\ \A i \in 1 .. c : o.fields[i].bits = e.items[i].bits
  BY SeqIs DEF Filled, FilledBitfield, HeaderCount
<1>2. DOMAIN First(e.items, c) = 1 .. c /\ \A i \in 1 .. c : First(e.items, c)[i] = e.items[i]
  BY DEF First
<1> QED
  BY <1>1, <1>2, BitsSame

LEMMA WithBitsFills ==
  ASSUME NEW o, NEW e, NEW c \in Nat, NEW map, Filled(o, e, c, map), e.kind = "Bitfield"
  PROVE  Filled(WithBits(o, e.items[c + 1].name, e.items[c + 1].bits), e, c + 1, map)
<1> DEFINE item == e.items[c + 1]
           f == [name |-> item.name, bits |-> item.bits, uid |-> ValueHash(item.name, item.bits),
                 offset |-> Bits(o.fields)]
           new == WithBits(o, item.name, item.bits)
<1>1. /\ new.name = o.name /\ new.kind = "Bitfield" /\ new.fields = Append(o.fields, f)
      /\ new.uid = TypeHash(o.name, [n \in DOMAIN new.fields |-> new.fields[n].uid])
      /\ new.size = BitfieldSize(Bits(new.fields))
  BY DEF WithBits, Descriptor
<1>2. f.bits = item.bits /\ f.uid = ValueHash(item.name, item.bits)
  OBVIOUS
<1>3. IsSeq(o.fields) /\ Len(o.fields) = c /\ o.name = e.name
  BY DEF Filled, HeaderCount
<1> HIDE DEF f, new
<1>4. /\ IsSeq(new.fields) /\ Len(new.fields) = Len(o.fields) + 1 /\ Len(o.fields) \in Nat
      /\ \A n \in 1 .. Len(o.fields) : new.fields[n] = o.fields[n]
      /\ new.fields[Len(o.fields) + 1] = f
      /\ new.uid = MembersUid(new)
  <2>1. HasMember(new, o, f)
    BY <1>1, <1>3, MemberAdded
  <2> QED
    BY <2>1 DEF HasMember
<1>5. ASSUME NEW i \in 1 .. (c + 1)
      PROVE  /\ new.fields[i].bits = e.items[i].bits
             /\ new.fields[i].uid = ValueHash(e.items[i].name, e.items[i].bits)
  <2>1. CASE i \in 1 .. c
    BY <1>3, <1>4, <2>1 DEF Filled, FilledBitfield
  <2>2. CASE i = c + 1
    BY <1>2, <1>3, <1>4, <2>2
  <2> QED
    BY <2>1, <2>2
<1>6. Bits(new.fields) = Bits(First(e.items, c + 1))
  <2>1. DOMAIN new.fields = 1 .. (c + 1)
    BY <1>3, <1>4, SeqIs
  <2>2. /\ DOMAIN First(e.items, c + 1) = 1 .. (c + 1)
        /\ \A i \in 1 .. (c + 1) : First(e.items, c + 1)[i] = e.items[i]
    BY DEF First
  <2> QED
    BY <1>5, <2>1, <2>2, BitsSame
<1>7. new.size \in Int
  BY <1>1 DEF BitfieldSize
<1>8. FilledBitfield(new, e, c + 1)
  <2>1. c + 1 # 0 /\ new.size = BitfieldSize(Bits(First(e.items, c + 1)))
    BY <1>1, <1>6
  <2>2. \A i \in 1 .. (c + 1) : /\ new.fields[i].bits = e.items[i].bits
                               /\ new.fields[i].uid = ValueHash(e.items[i].name, e.items[i].bits)
    BY <1>5
  <2> QED
    BY <2>1, <2>2 DEF FilledBitfield
<1>9. Len(new.fields) = HeaderCount(e) + (c + 1) /\ Len(new.fields) # 0
  BY <1>3, <1>4 DEF HeaderCount
<1>10. Filled(new, e, c + 1, map)
  BY <1>1, <1>3, <1>4, <1>7, <1>8, <1>9 DEF Filled
<1> QED
  BY <1>10 DEF new

LEMMA WithValueFills ==
  ASSUME NEW o, NEW e, NEW c \in Nat, NEW map, Filled(o, e, c, map), e.kind = "Enum"
  PROVE  Filled(WithValue(o, e.items[c + 1].name), e, c + 1, map)
<1> DEFINE item == e.items[c + 1]
           f == [name |-> item.name, uid |-> ValueHash(item.name, Len(o.fields))]
           new == WithValue(o, item.name)
<1>1. /\ new.name = o.name /\ new.kind = "Enum" /\ new.fields = Append(o.fields, f)
      /\ new.uid = TypeHash(o.name, [n \in DOMAIN new.fields |-> new.fields[n].uid])
      /\ new.size = EnumSize(Len(new.fields))
  BY DEF WithValue, Descriptor
<1>2. IsSeq(o.fields) /\ Len(o.fields) = c /\ o.name = e.name
  BY DEF Filled, HeaderCount
<1>3. f.uid = ValueHash(item.name, c)
  BY <1>2
<1> HIDE DEF f, new
<1>4. /\ IsSeq(new.fields) /\ Len(new.fields) = Len(o.fields) + 1 /\ Len(o.fields) \in Nat
      /\ \A n \in 1 .. Len(o.fields) : new.fields[n] = o.fields[n]
      /\ new.fields[Len(o.fields) + 1] = f
      /\ new.uid = MembersUid(new)
  <2>1. HasMember(new, o, f)
    BY <1>1, <1>2, MemberAdded
  <2> QED
    BY <2>1 DEF HasMember
<1>5. ASSUME NEW i \in 1 .. (c + 1) PROVE new.fields[i].uid = ValueHash(e.items[i].name, i - 1)
  <2>1. CASE i \in 1 .. c
    BY <1>2, <1>4, <2>1 DEF Filled, FilledEnum
  <2>2. CASE i = c + 1
    BY <1>2, <1>3, <1>4, <2>2
  <2> QED
    BY <2>1, <2>2
<1>6. new.size \in Int
  BY <1>1 DEF EnumSize
<1>7. FilledEnum(new, e, c + 1)
  BY <1>1, <1>2, <1>4, <1>5 DEF FilledEnum
<1>8. Len(new.fields) = HeaderCount(e) + (c + 1) /\ Len(new.fields) # 0
  BY <1>2, <1>4 DEF HeaderCount
<1>9. Filled(new, e, c + 1, map)
  BY <1>1, <1>2, <1>4, <1>6, <1>7, <1>8 DEF Filled
<1> QED
  BY <1>9 DEF new

LEMMA WithFieldFills ==
  ASSUME NEW o, NEW e, NEW c \in Nat, NEW map, MapOK(map), Filled(o, e, c, map),
         e.kind \in {"Struct", "Message"},
         Key(e.items[c + 1].type, e.items[c + 1].lens) \in DOMAIN map
  PROVE  Filled(WithField(o, e.items[c + 1].name, Key(e.items[c + 1].type, e.items[c + 1].lens), map),
                e, c + 1, map)
<1> DEFINE name == e.items[c + 1].name
           key == Key(e.items[c + 1].type, e.items[c + 1].lens)
           new == WithField(o, name, key, map)
           h == HeaderCount(e)
<1>1. Laid(o, map) /\ Len(o.fields) = h + c /\ h \in {0, 1} /\ FilledStruct(o, e, c, map)
  BY DEF Filled, FilledStruct, HeaderCount
<1>2. HasField(new, o, name, key, map)
  BY <1>1, WithFieldIs
<1> HIDE DEF new
<1>3. /\ Laid(new, map) /\ new.name = o.name /\ new.kind = o.kind
      /\ Len(new.fields) = h + (c + 1) /\ new.uid = MembersUid(new)
      /\ \A n \in 1 .. (h + c) : new.fields[n] = o.fields[n]
      /\ new.fields[h + (c + 1)].name = name /\ new.fields[h + (c + 1)].key = key
  BY <1>1, <1>2 DEF HasField
<1>4. ASSUME NEW i \in 1 .. (c + 1)
      PROVE  /\ new.fields[h + i].name = e.items[i].name
             /\ new.fields[h + i].key = Key(e.items[i].type, e.items[i].lens)
  <2>1. CASE i \in 1 .. c
    <3>1. h + i \in 1 .. (h + c)
      BY <1>1, <2>1
    <3> QED
      BY <1>1, <1>3, <2>1, <3>1 DEF FilledStruct
  <2>2. CASE i = c + 1
    BY <1>3, <2>2
  <2> QED
    BY <2>1, <2>2
<1>5. h = 1 => new.fields[1] = o.fields[1]
  <2>1. h = 1 => 1 \in 1 .. (h + c)
    OBVIOUS
  <2> QED
    BY <1>3, <2>1
<1>6. FilledStruct(new, e, c + 1, map)
  BY <1>1, <1>3, <1>4, <1>5 DEF FilledStruct
<1>7. IsSeq(new.fields) /\ new.size \in Int /\ Len(new.fields) # 0
  BY <1>1, <1>3 DEF Laid
<1>8. o.name = e.name /\ o.kind = e.kind
  BY DEF Filled
<1>9. Filled(new, e, c + 1, map)
  BY <1>3, <1>6, <1>7, <1>8 DEF Filled
<1> QED
  BY <1>9 DEF new

\* What the loop over the entries makes of an entry before its first item.
Fresh(e) == Descriptor(e.name, e.kind, NoUid, IF e.kind = "Enum" THEN 1 ELSE 0, <<>>)

LEMMA StartFills ==
  ASSUME NEW map, MapOK(map), Named("SsHeader") \in DOMAIN map, NEW e, e.kind \in Kinds, NEW o,
         e.kind = "Message" => o = WithField(Fresh(e), "ss_header", Named("SsHeader"), map),
         e.kind # "Message" => o = Fresh(e)
  PROVE  Filled(o, e, 0, map)
<1> DEFINE fresh == Fresh(e)
<1>1. /\ fresh.name = e.name /\ fresh.kind = e.kind /\ fresh.uid = NoUid
      /\ fresh.size = IF e.kind = "Enum" THEN 1 ELSE 0
      /\ fresh.fields = <<>>
  BY DEF Fresh, Descriptor
<1>2. IsSeq(<<>>) /\ Len(<<>>) = 0
  BY DEF IsSeq
<1>3. e.kind \in {"Struct", "Message"} => Laid(fresh, map)
  <2> HIDE DEF fresh
  <2> QED
    BY <1>1, <1>2 DEF Laid
<1>4. fresh.size \in Int
  BY <1>1
<1> HIDE DEF fresh
<1>5. CASE e.kind = "Message"
  <2>1. HasField(o, fresh, "ss_header", Named("SsHeader"), map)
    BY <1>3, <1>5, WithFieldIs DEF fresh
  <2>2. /\ Laid(o, map) /\ o.name = e.name /\ o.kind = e.kind /\ Len(o.fields) = 1
        /\ o.fields[1].name = "ss_header" /\ o.fields[1].key = Named("SsHeader")
        /\ o.uid = MembersUid(o)
    BY <1>1, <1>2, <2>1 DEF HasField
  <2>3. HeaderCount(e) = 1
    BY <1>5 DEF HeaderCount
  <2>4. FilledStruct(o, e, 0, map)
    BY <2>2, <2>3 DEF FilledStruct
  <2>5. o.size \in Int /\ IsSeq(o.fields)
    BY <2>2 DEF Laid
  <2> QED
    BY <1>5, <2>2, <2>3, <2>4, <2>5 DEF Filled
<1>6. CASE e.kind # "Message"
  <2>1. o = fresh /\ HeaderCount(e) = 0
    BY <1>6 DEF fresh, HeaderCount
  <2>2. e.kind \in {"Struct", "Message"} => FilledStruct(fresh, e, 0, map)
    BY <1>3, <2>1 DEF FilledStruct
  <2>3. e.kind = "Bitfield" => FilledBitfield(fresh, e, 0)
    BY <1>1 DEF FilledBitfield
  <2>4. e.kind = "Enum" => FilledEnum(fresh, e, 0)
    BY <1>1 DEF FilledEnum
  <2> QED
    BY <1>1, <1>2, <1>4, <2>1, <2>2, <2>3, <2>4 DEF Filled
<1> QED
  BY <1>5, <1>6

-----------------------------------------------------------------------------
(* The inductive invariant.                                                *)

SpecInv == spec \in SpecFile /\ origin \in {"file", "log"} /\ root = Document(spec, origin)

PlaceInv ==
  /\ pc \in {"entries", "items", "built", "thrown"}
  /\ k \in 1 .. (Len(root) + 1)
  /\ pc = "items" => /\ k <= Len(root) /\ root[k] \in Range(spec)
                     /\ j \in 1 .. (Len(root[k].items) + 1)
                     /\ Filled(obj, root[k], j - 1, types)
  /\ pc = "built" => k = Len(root) + 1

MapInv == MapOK(types) /\ Extends(types, BaseTypes)

\* The entries that the loop has left behind, and the names in the map.
Passed(e) == \E n \in 1 .. (k - 1) : root[n] = e
NamesInv ==
  \A key \in DOMAIN types :
    key.lens = <<>> => \/ key.base \in Reserved
                       \/ \E e \in Range(spec) : Passed(e) /\ e.name = key.base

\* The map holds the finished descriptor of an entry that was passed.
Settled(e, map) ==
  Named(e.name) \in DOMAIN map /\ Filled(map[Named(e.name)], e, Len(e.items), map)
SettledInv == \A e \in Range(spec) : Passed(e) => Settled(e, types)

\* The UIDs that can be looked up are those of the messages.
LookupInv ==
  /\ \A uid \in DOMAIN uid_lookup :
       \E e \in Range(spec) : /\ Passed(e) /\ e.kind = "Message"
                              /\ uid_lookup[uid] = Named(e.name)
                              /\ types[Named(e.name)].uid = uid
  /\ \A e \in Range(spec) :
       Passed(e) /\ e.kind = "Message" => types[Named(e.name)].uid \in DOMAIN uid_lookup

DescInv ==
  /\ SpecInv /\ PlaceInv /\ MapInv /\ NamesInv /\ SettledInv /\ LookupInv
  /\ OnlyForwardUseThrows

LEMMA RootIs ==
  ASSUME SpecInv
  PROVE  IsSeq(root) /\ DOMAIN root = 1 .. Len(root) /\ Len(root) \in Nat
BY DocumentIs, SeqIs DEF SpecInv

LEMMA InitDesc == Init => DescInv
<1> SUFFICES ASSUME Init PROVE DescInv
  OBVIOUS
<1>1. /\ spec \in SpecFile /\ origin \in {"file", "log"} /\ root = Document(spec, origin)
      /\ types = BaseTypes /\ uid_lookup = <<>> /\ pc = "entries" /\ k = 1
  BY Zenon DEF Init
<1>2. SpecInv
  BY <1>1 DEF SpecInv
<1>3. PlaceInv
  BY <1>1, <1>2, RootIs DEF PlaceInv
<1>4. MapInv
  BY <1>1, BaseTypesAre DEF MapInv, Extends
<1>5. \A e : ~Passed(e)
  BY <1>1 DEF Passed
<1>6. NamesInv
  BY <1>1, BaseTypesAre DEF NamesInv, Named, Key
<1>7. SettledInv /\ LookupInv
  BY <1>1, <1>5 DEF SettledInv, LookupInv
<1>8. OnlyForwardUseThrows
  BY <1>1 DEF OnlyForwardUseThrows
<1> QED
  BY <1>2, <1>3, <1>4, <1>6, <1>7, <1>8 DEF DescInv

\* Entries are passed one by one; the map of the UIDs is passed over.
LEMMA PassedThen ==
  ASSUME SpecInv, k \in 1 .. Len(root), k' = k + 1, UNCHANGED root
  PROVE  \A e : Passed(e)' <=> Passed(e) \/ e = root[k]
<1>1. Len(root) \in Nat /\ k \in Int
  BY RootIs
<1>2. \A n : n \in 1 .. ((k + 1) - 1) <=> n \in 1 .. (k - 1) \/ n = k
  BY <1>1
<1> QED
  BY <1>2 DEF Passed

LEMMA UidMapIsNoEntry ==
  ASSUME SpecInv
  PROVE  UidMap \notin Range(spec) /\ \A e \in Range(spec) : e.kind # "none"
<1>1. "SsMessageUidMap" \notin Names(spec) /\ UidMap.name = "SsMessageUidMap"
  BY RankAssumption DEF SpecInv, UidMap
<1>2. \A e \in Range(spec) : e.name \in Names(spec)
  BY DEF Range, Names
<1>3. \A e \in Range(spec) : e.kind \in Kinds
  BY EntryIs, SpecFileAssumption DEF SpecInv
<1> QED
  BY <1>1, <1>2, <1>3 DEF Kinds

LEMMA StartKeeps == DescInv /\ StartEntry => DescInv'
<1> SUFFICES ASSUME DescInv, StartEntry PROVE DescInv'
  OBVIOUS
<1>1. /\ SpecInv /\ PlaceInv /\ MapInv /\ NamesInv /\ SettledInv /\ LookupInv
      /\ pc = "entries" /\ k <= Len(root) /\ k \in 1 .. Len(root) /\ k \in Int /\ Len(root) \in Nat
      /\ j' = 1 /\ UNCHANGED <<spec, origin, root, types, uid_lookup>>
  BY RootIs DEF DescInv, StartEntry, PlaceInv
<1>2. SpecInv' /\ MapInv'
  BY <1>1 DEF SpecInv, MapInv
<1>3. root[k] = UidMap \/ root[k] \in Range(spec)
  BY <1>1, RootIs, DocumentIs DEF SpecInv
<1>4. CASE root[k].kind = "none"
  <2>1. k' = k + 1 /\ UNCHANGED <<pc, obj>>
    BY <1>4 DEF StartEntry
  <2>2. root[k] \notin Range(spec)
    BY <1>1, <1>4, UidMapIsNoEntry
  <2>3. \A e \in Range(spec) : Passed(e)' <=> Passed(e)
    BY <1>1, <2>1, <2>2, PassedThen
  <2>4. PlaceInv'
    BY <1>1, <2>1 DEF PlaceInv
  <2>5. NamesInv' /\ SettledInv' /\ LookupInv'
    BY <1>1, <2>3 DEF NamesInv, SettledInv, LookupInv
  <2>6. OnlyForwardUseThrows'
    BY <1>1, <2>1 DEF OnlyForwardUseThrows
  <2> QED
    BY <1>2, <2>4, <2>5, <2>6 DEF DescInv
<1>5. CASE root[k].kind # "none"
  <2>1. /\ pc' = "items" /\ UNCHANGED k
        /\ root[k].kind = "Message" =>
             obj' = WithField(Fresh(root[k]), "ss_header", Named("SsHeader"), types)
        /\ root[k].kind # "Message" => obj' = Fresh(root[k])
    BY <1>5 DEF StartEntry, Fresh
  <2>2. root[k] \in Range(spec)
    BY <1>3, <1>5 DEF UidMap
  <2>3. root[k].kind \in Kinds /\ Len(root[k].items) \in Nat
    BY <1>1, <2>2, EntryIs, SpecFileAssumption DEF SpecInv
  <2>4. Named("SsHeader") \in DOMAIN types /\ MapOK(types)
    BY <1>1, BaseTypesAre DEF MapInv, Extends, Reserved
  <2>5. Filled(obj', root[k], 0, types)
    BY <2>1, <2>3, <2>4, StartFills
  <2>6. PlaceInv'
    BY <1>1, <2>1, <2>2, <2>3, <2>5 DEF PlaceInv
  <2>7. \A e : Passed(e)' <=> Passed(e)
    BY <1>1, <2>1 DEF Passed
  <2>8. NamesInv' /\ SettledInv' /\ LookupInv'
    BY <1>1, <2>7 DEF NamesInv, SettledInv, LookupInv
  <2>9. OnlyForwardUseThrows'
    BY <2>1 DEF OnlyForwardUseThrows
  <2> QED
    BY <1>2, <2>6, <2>8, <2>9 DEF DescInv
<1> QED
  BY <1>4, <1>5

\* The loop over the items stops at a use before the definition, and at nothing else.
LEMMA ThrowsForward ==
  ASSUME DescInv, pc = "items", j <= Len(root[k].items), Throws(root[k].items[j])
  PROVE  /\ origin = "log"
         /\ \E m, n \in DOMAIN spec :
              /\ m < n /\ Rank(spec[n].name) < Rank(spec[m].name)
              /\ \E i \in DOMAIN spec[n].items : spec[n].items[i].type = spec[m].name
<1> DEFINE e == root[k]
           item == e.items[j]
<1>1. /\ SpecInv /\ MapInv /\ SettledInv
      /\ k \in 1 .. Len(root) /\ k \in Int /\ Len(root) \in Nat /\ e \in Range(spec)
      /\ Filled(obj, e, j - 1, types)
      /\ spec \in SpecFile /\ origin \in {"file", "log"} /\ root = Document(spec, origin)
  BY RootIs DEF DescInv, PlaceInv, SpecInv
<1>2. /\ e.kind \in Kinds /\ Len(e.items) \in Nat /\ DOMAIN e.items = 1 .. Len(e.items)
      /\ e.kind = "Bitfield" => \A c \in 0 .. Len(e.items) : Bits(First(e.items, c)) <= MaxBits
  BY <1>1, EntryIs, SpecFileAssumption
<1>3. j \in 1 .. Len(e.items) /\ j \in Int
  BY <1>2 DEF DescInv, PlaceInv
<1>4. obj.kind = e.kind
  BY <1>1 DEF Filled
<1>5. e.kind # "Bitfield"
  <2> SUFFICES ASSUME e.kind = "Bitfield" PROVE FALSE
    OBVIOUS
  <2>1. Bits(obj.fields) + item.bits > MaxBits
    BY <1>4 DEF Throws
  <2>2. j - 1 \in Nat /\ (j - 1) + 1 = j
    BY <1>3
  <2>3. Bits(obj.fields) = Bits(First(e.items, j - 1))
    BY <1>1, <2>2, BitsSoFar
  <2>4. Bits(First(e.items, j)) = Bits(First(e.items, j - 1)) + item.bits
    BY <2>2, BitsOfFirst
  <2>5. Bits(First(e.items, j)) <= MaxBits /\ Bits(First(e.items, j)) \in Nat
    <3>1. j \in 0 .. Len(e.items)
      BY <1>2, <1>3
    <3> HIDE DEF e
    <3> QED
      BY <1>1, <3>1, EntryIs, SpecFileAssumption
  <2> QED
    BY <2>1, <2>3, <2>4, <2>5 DEF MaxBits
<1>6. e.kind \in {"Struct", "Message"} /\ Named(item.type) \notin DOMAIN types
  BY <1>4, <1>5 DEF Throws
<1>7. PICK n \in DOMAIN spec : spec[n] = e
  BY <1>1 DEF Range
<1>8. item.type \notin Reserved
  BY <1>1, <1>6, BaseTypesAre DEF MapInv, Extends
<1>9. PICK m \in DOMAIN spec : m < n /\ item.type = spec[m].name
  BY <1>1, <1>2, <1>3, <1>6, <1>7, <1>8, UsesEarlier, SpecFileAssumption
<1>10. ~Passed(spec[m])
  BY <1>1, <1>6, <1>9 DEF SettledInv, Settled, Range
<1>11. IsSeq(spec) /\ DOMAIN spec = 1 .. Len(spec) /\ Len(spec) \in Nat
  BY <1>1, SpecFileAssumption, SeqIs DEF Acceptable, IsSeq
<1>12. \A a, b \in DOMAIN root : root[a].name = root[b].name => a = b
  BY <1>1, DocumentIs
<1>13. DOMAIN root = 1 .. Len(root)
  BY <1>1, RootIs
<1>14. origin = "log"
  <2> SUFFICES ASSUME origin = "file" PROVE FALSE
    BY <1>1
  <2>1. root = spec
    BY <1>1 DEF Document
  <2>2. n = k
    BY <1>1, <1>7, <1>12, <1>13, <2>1
  <2>3. m \in 1 .. (k - 1)
    BY <1>9, <1>11, <2>2
  <2> QED
    BY <1>10, <2>1, <2>3 DEF Passed
<1>15. Rank(spec[n].name) < Rank(spec[m].name)
  <2>1. root = LogHeader(spec)
    BY <1>1, <1>14 DEF Document
  <2>2. PICK q \in 1 .. Len(root) : root[q] = spec[m]
    <3>1. spec[m] \in Range(spec)
      BY DEF Range
    <3> QED
      BY <1>1, <1>13, <3>1, DocumentIs
  <2>3. q \notin 1 .. (k - 1)
    BY <1>10, <2>2 DEF Passed
  <2>4. q # k
    <3>1. spec[m] # spec[n]
      <4>1. spec[m].name \in {spec[l].name : l \in 1 .. (n - 1)}
        BY <1>9, <1>11
      <4>2. WellFormed(spec)
        BY <1>1, SpecFileAssumption DEF Acceptable
      <4>3. spec[n].name \notin {spec[l].name : l \in 1 .. (n - 1)}
        BY <4>2 DEF WellFormed
      <4> QED
        BY <4>1, <4>3
    <3> QED
      BY <1>7, <2>2, <3>1
  <2>5. k < q
    BY <1>1, <2>3, <2>4
  <2>6. /\ Rank(root[k].name) < Rank(root[q].name)
    BY <1>1, <1>13, <2>1, <2>5, LogHeaderIs
  <2> QED
    BY <1>7, <2>2, <2>6
<1>16. j \in DOMAIN spec[n].items /\ spec[n].items[j].type = spec[m].name
  BY <1>2, <1>3, <1>7, <1>9
<1> QED
  BY <1>9, <1>14, <1>15, <1>16

\* A round of the loop over the items, when it does not throw.
LEMMA AddedItem ==
  ASSUME DescInv, AddItem, ~Throws(root[k].items[j])
  PROVE  /\ MapOK(types') /\ Extends(types', types) /\ OnlyArrays(types', types)
         /\ Filled(obj', root[k], j, types')
<1> DEFINE e == root[k]
           item == e.items[j]
<1>1. /\ SpecInv /\ MapOK(types) /\ e \in Range(spec) /\ Filled(obj, e, j - 1, types)
      /\ spec \in SpecFile /\ j \in 1 .. Len(e.items) /\ j \in Int
      /\ j - 1 \in Nat /\ (j - 1) + 1 = j
  <2>1. /\ SpecInv /\ MapOK(types) /\ e \in Range(spec) /\ Filled(obj, e, j - 1, types)
        /\ spec \in SpecFile /\ j \in 1 .. (Len(e.items) + 1) /\ j <= Len(e.items)
    BY DEF DescInv, PlaceInv, MapInv, SpecInv, AddItem
  <2>2. Len(e.items) \in Nat
    BY <2>1, EntryIs, SpecFileAssumption
  <2> QED
    BY <2>1, <2>2
<1>2. /\ e.kind \in Kinds /\ e.items[j].lens \in Seq(Int)
  BY <1>1, EntryIs, SpecFileAssumption
<1>3. obj.kind = e.kind
  BY <1>1 DEF Filled
<1>4. CASE e.kind \in {"Struct", "Message"}
  <2>1. /\ types' = WithArrays(types, item.type, item.lens)
        /\ obj' = WithField(obj, item.name, Key(item.type, item.lens), types')
        /\ Named(item.type) \in DOMAIN types
    BY <1>3, <1>4 DEF AddItem, Throws
  <2>2. MapOK(types') /\ Extends(types', types) /\ OnlyArrays(types', types)
    BY <1>1, <1>2, <2>1, WithArraysIs
  <2>3. Key(item.type, item.lens) \in DOMAIN types'
    BY <1>1, <1>2, <2>1, WithArraysIs
  <2>4. Filled(obj, e, j - 1, types')
    BY <1>1, <2>2, FilledStays
  <2>5. /\ item.name = e.items[(j - 1) + 1].name /\ item.type = e.items[(j - 1) + 1].type
        /\ item.lens = e.items[(j - 1) + 1].lens
    BY <1>1
  <2> DEFINE c == j - 1
             map == types'
  <2> HIDE DEF e, c, map
  <2>6. Filled(WithField(obj, e.items[c + 1].name, Key(e.items[c + 1].type, e.items[c + 1].lens), map),
               e, c + 1, map)
    BY <1>1, <1>4, <2>2, <2>3, <2>4, <2>5, WithFieldFills DEF c, map
  <2> QED
    BY <1>1, <2>1, <2>2, <2>5, <2>6 DEF c, map, e
<1>5. CASE e.kind = "Bitfield"
  <2>1. types' = types /\ obj' = WithBits(obj, item.name, item.bits)
    BY <1>3, <1>5 DEF AddItem
  <2> DEFINE c == j - 1
  <2>2. c \in Nat /\ c + 1 = j
    BY <1>1
  <2> HIDE DEF e, c
  <2>3. Filled(WithBits(obj, e.items[c + 1].name, e.items[c + 1].bits), e, c + 1, types)
    BY <1>1, <1>5, <2>2, WithBitsFills DEF c
  <2> QED
    BY <1>1, <2>1, <2>2, <2>3 DEF Extends, OnlyArrays, e
<1>6. CASE e.kind = "Enum"
  <2>1. types' = types /\ obj' = WithValue(obj, item.name)
    BY <1>3, <1>6 DEF AddItem
  <2> DEFINE c == j - 1
  <2>2. c \in Nat /\ c + 1 = j
    BY <1>1
  <2> HIDE DEF e, c
  <2>3. Filled(WithValue(obj, e.items[c + 1].name), e, c + 1, types)
    BY <1>1, <1>6, <2>2, WithValueFills DEF c
  <2> QED
    BY <1>1, <2>1, <2>2, <2>3 DEF Extends, OnlyArrays, e
<1> QED
  BY <1>2, <1>4, <1>5, <1>6 DEF Kinds

LEMMA AddKeepsDesc == DescInv /\ AddItem => DescInv'
<1> SUFFICES ASSUME DescInv, AddItem PROVE DescInv'
  OBVIOUS
<1> DEFINE e == root[k]
           item == e.items[j]
<1>1. /\ SpecInv /\ PlaceInv /\ MapInv /\ NamesInv /\ SettledInv /\ LookupInv
      /\ pc = "items" /\ j <= Len(e.items) /\ j \in 1 .. (Len(e.items) + 1)
      /\ k <= Len(root) /\ e \in Range(spec)
      /\ UNCHANGED <<spec, origin, root, uid_lookup, k>>
  BY DEF DescInv, AddItem, PlaceInv
<1>2. SpecInv'
  BY <1>1 DEF SpecInv
<1>3. \A f : Passed(f)' <=> Passed(f)
  BY <1>1 DEF Passed
<1>4. CASE Throws(item)
  <2>1. pc' = "thrown" /\ UNCHANGED <<types, j, obj>>
    BY <1>4 DEF AddItem
  <2>2. PlaceInv'
    BY <1>1, <2>1 DEF PlaceInv
  <2>3. MapInv' /\ NamesInv' /\ SettledInv' /\ LookupInv'
    BY <1>1, <1>3, <2>1 DEF MapInv, NamesInv, SettledInv, LookupInv
  <2>4. OnlyForwardUseThrows'
    <3>1. /\ origin = "log"
          /\ \E m, n \in DOMAIN spec :
               /\ m < n /\ Rank(spec[n].name) < Rank(spec[m].name)
               /\ \E i \in DOMAIN spec[n].items : spec[n].items[i].type = spec[m].name
      BY <1>1, <1>4, ThrowsForward
    <3> QED
      BY <1>1, <3>1 DEF OnlyForwardUseThrows
  <2> QED
    BY <1>2, <2>2, <2>3, <2>4 DEF DescInv
<1>5. CASE ~Throws(item)
  <2>1. /\ MapOK(types') /\ Extends(types', types) /\ OnlyArrays(types', types)
        /\ Filled(obj', e, j, types')
    BY <1>5, AddedItem
  <2>2. j' = j + 1 /\ pc' = pc
    BY <1>5 DEF AddItem
  <2>3. Len(e.items) \in Nat
    <3> HIDE DEF e
    <3> QED
      BY <1>1, EntryIs, SpecFileAssumption DEF SpecInv
  <2>4. j \in Int /\ (j + 1) - 1 = j /\ j + 1 \in 1 .. (Len(e.items) + 1)
    BY <1>1, <2>3
  <2>5. PlaceInv'
    <3>1. Filled(obj', e, j' - 1, types')
      BY <2>1, <2>2, <2>4
    <3> QED
      BY <1>1, <2>2, <2>4, <3>1 DEF PlaceInv
  <2>6. MapInv'
    BY <1>1, <2>1, ExtendsFurther DEF MapInv
  <2>7. NamesInv'
    BY <1>1, <1>3, <2>1 DEF NamesInv, OnlyArrays
  <2>8. ASSUME NEW f \in Range(spec), Passed(f)
        PROVE  Settled(f, types') /\ types'[Named(f.name)] = types[Named(f.name)]
    <3>1. Settled(f, types)
      BY <1>1, <2>8 DEF SettledInv
    <3>2. types'[Named(f.name)] = types[Named(f.name)] /\ Named(f.name) \in DOMAIN types'
      BY <2>1, <3>1 DEF Settled, Extends
    <3>3. Filled(types[Named(f.name)], f, Len(f.items), types')
      BY <2>1, <3>1, FilledStays DEF Settled
    <3> QED
      BY <3>2, <3>3 DEF Settled
  <2>9. SettledInv' /\ LookupInv'
    <3>1. SettledInv'
      BY <1>1, <1>3, <2>8 DEF SettledInv
    <3>2. LookupInv'
      BY <1>1, <1>3, <2>8 DEF LookupInv
    <3> QED
      BY <3>1, <3>2
  <2>10. OnlyForwardUseThrows'
    BY <1>1, <2>2 DEF OnlyForwardUseThrows
  <2> QED
    BY <1>2, <2>5, <2>6, <2>7, <2>9, <2>10 DEF DescInv
<1> QED
  BY <1>4, <1>5

\* The descriptor that the map takes over is a new one in it.
LEMMA FinishKeeps == DescInv /\ FinishEntry => DescInv'
<1> SUFFICES ASSUME DescInv, FinishEntry PROVE DescInv'
  OBVIOUS
<1> DEFINE e == root[k]
           key == Named(e.name)
<1>1. /\ SpecInv /\ PlaceInv /\ MapInv /\ NamesInv /\ SettledInv /\ LookupInv
      /\ pc = "items" /\ j > Len(e.items) /\ j \in 1 .. (Len(e.items) + 1)
      /\ k <= Len(root) /\ k \in 1 .. (Len(root) + 1) /\ e \in Range(spec)
      /\ Filled(obj, e, j - 1, types)
      /\ types' = Add(types, Named(obj.name), obj)
      /\ uid_lookup' = IF obj.kind = "Message"
                       THEN Add(uid_lookup, obj.uid, Named(obj.name)) ELSE uid_lookup
      /\ pc' = "entries" /\ k' = k + 1 /\ UNCHANGED <<spec, origin, root, j, obj>>
  BY DEF DescInv, FinishEntry, PlaceInv
<1>2. /\ e.kind \in Kinds /\ e.name \notin Reserved /\ Len(e.items) \in Nat
  <2> HIDE DEF e
  <2> QED
    BY <1>1, EntryIs, SpecFileAssumption DEF SpecInv
<1>3. /\ Filled(obj, e, Len(e.items), types) /\ obj.name = e.name /\ obj.kind = e.kind
      /\ types' = Add(types, key, obj)
  <2>1. j - 1 = Len(e.items)
    BY <1>1, <1>2
  <2>2. Filled(obj, e, Len(e.items), types)
    BY <1>1, <2>1
  <2> QED
    BY <1>1, <2>2 DEF Filled
<1>4. Len(root) \in Nat /\ DOMAIN root = 1 .. Len(root) /\ k \in 1 .. Len(root) /\ k \in Int
  BY <1>1, RootIs
<1>5. \A f : Passed(f)' <=> Passed(f) \/ f = e
  BY <1>1, <1>4, PassedThen
<1>6. key.base = e.name /\ key.lens = <<>> /\ key = Key(key.base, key.lens) /\ <<>> \in Seq(Int)
  BY DEF Named, Key
<1>7. \A a, b \in DOMAIN root : root[a].name = root[b].name => a = b
  BY <1>1, DocumentIs DEF SpecInv
<1>8. key \notin DOMAIN types
  <2> SUFFICES ASSUME key \in DOMAIN types PROVE FALSE
    OBVIOUS
  <2>1. PICK f \in Range(spec) : Passed(f) /\ f.name = e.name
    BY <1>1, <1>2, <1>6 DEF NamesInv
  <2>2. PICK n \in 1 .. (k - 1) : root[n] = f
    BY <2>1 DEF Passed
  <2>3. n \in DOMAIN root /\ n # k
    BY <1>4
  <2> QED
    BY <1>4, <1>7, <2>1, <2>2, <2>3
<1> HIDE DEF e, key
<1>9. /\ DOMAIN types' = DOMAIN types \cup {key} /\ types'[key] = obj /\ Extends(types', types)
  BY <1>3, <1>8, AddIs
<1>10. SpecInv'
  BY <1>1 DEF SpecInv
<1>11. PlaceInv'
  BY <1>1, <1>4 DEF PlaceInv
<1>12. MapInv'
  <2>1. obj.size \in Int
    BY <1>3 DEF Filled
  <2>2. obj.kind \in {"Struct", "Message"} => Laid(obj, types)
    BY <1>3 DEF Filled, FilledStruct
  <2>3. MapOK(types')
    BY <1>1, <1>3, <1>6, <2>1, <2>2, AddKeeps DEF MapInv
  <2> QED
    BY <1>1, <1>9, <2>3, ExtendsFurther DEF MapInv
<1>13. NamesInv'
  <2> SUFFICES ASSUME NEW x \in DOMAIN types', x.lens = <<>>
               PROVE  \/ x.base \in Reserved
                      \/ \E f \in Range(spec) : Passed(f)' /\ f.name = x.base
    BY <1>1 DEF NamesInv
  <2>1. CASE x \in DOMAIN types
    BY <1>1, <1>5, <2>1 DEF NamesInv
  <2>2. CASE x = key
    BY <1>1, <1>5, <1>6, <2>2
  <2> QED
    BY <1>9, <2>1, <2>2
<1>14. ASSUME NEW f \in Range(spec), Passed(f)
       PROVE  Settled(f, types') /\ types'[Named(f.name)] = types[Named(f.name)]
  <2>1. Settled(f, types)
    BY <1>1, <1>14 DEF SettledInv
  <2>2. types'[Named(f.name)] = types[Named(f.name)] /\ Named(f.name) \in DOMAIN types'
    BY <1>9, <2>1 DEF Settled, Extends
  <2>3. Filled(types[Named(f.name)], f, Len(f.items), types')
    BY <1>9, <2>1, FilledStays DEF Settled
  <2> QED
    BY <2>2, <2>3 DEF Settled
<1>15. Settled(e, types')
  <2>1. Filled(obj, e, Len(e.items), types')
    BY <1>3, <1>9, FilledStays
  <2> QED
    BY <1>9, <2>1 DEF Settled, key
<1>16. SettledInv'
  BY <1>1, <1>5, <1>14, <1>15 DEF SettledInv
<1>17. LookupInv'
  <2>1. CASE e.kind = "Message"
    <3>1. uid_lookup' = Add(uid_lookup, obj.uid, key) /\ types'[Named(e.name)].uid = obj.uid
      BY <1>1, <1>3, <1>9, <2>1 DEF key
    <3>2. DOMAIN uid_lookup' = DOMAIN uid_lookup \cup {obj.uid}
      BY <3>1 DEF Add
    <3>3. ASSUME NEW uid \in DOMAIN uid_lookup'
          PROVE  \E f \in Range(spec) : /\ Passed(f)' /\ f.kind = "Message"
                                        /\ uid_lookup'[uid] = Named(f.name)
                                        /\ types'[Named(f.name)].uid = uid
      <4>1. CASE uid \in DOMAIN uid_lookup
        <5>1. uid_lookup'[uid] = uid_lookup[uid]
          BY <3>1, <4>1 DEF Add
        <5>2. PICK f \in Range(spec) : /\ Passed(f) /\ f.kind = "Message"
                                       /\ uid_lookup[uid] = Named(f.name)
                                       /\ types[Named(f.name)].uid = uid
          BY <1>1, <4>1 DEF LookupInv
        <5> QED
          BY <1>5, <1>14, <5>1, <5>2
      <4>2. CASE uid \notin DOMAIN uid_lookup
        <5>1. uid = obj.uid /\ uid_lookup'[uid] = key
          BY <3>1, <3>2, <4>2 DEF Add
        <5> QED
          BY <1>1, <1>5, <2>1, <3>1, <5>1 DEF key
      <4> QED
        BY <4>1, <4>2
    <3>4. ASSUME NEW f \in Range(spec), Passed(f)', f.kind = "Message"
          PROVE  types'[Named(f.name)].uid \in DOMAIN uid_lookup'
      <4>1. CASE f = e
        BY <3>1, <3>2, <4>1
      <4>2. CASE Passed(f)
        BY <1>1, <1>14, <3>2, <3>4, <4>2 DEF LookupInv
      <4> QED
        BY <1>5, <3>4, <4>1, <4>2
    <3> QED
      BY <1>1, <3>3, <3>4 DEF LookupInv
  <2>2. CASE e.kind # "Message"
    <3>1. uid_lookup' = uid_lookup
      BY <1>1, <1>3, <2>2
    <3> QED
      BY <1>1, <1>5, <1>14, <2>2, <3>1 DEF LookupInv
  <2> QED
    BY <2>1, <2>2
<1>18. OnlyForwardUseThrows'
  BY <1>1 DEF OnlyForwardUseThrows
<1> QED
  BY <1>10, <1>11, <1>12, <1>13, <1>16, <1>17, <1>18 DEF DescInv

LEMMA BuiltKeeps == DescInv /\ (Built \/ UNCHANGED vars) => DescInv'
<1>1. ASSUME DescInv, Built PROVE DescInv'
  <2>1. /\ pc = "entries" /\ k > Len(root) /\ pc' = "built" /\ k \in 1 .. (Len(root) + 1)
        /\ UNCHANGED <<spec, origin, root, types, uid_lookup, k, j, obj>>
    BY <1>1 DEF Built, DescInv, PlaceInv
  <2>2. Len(root) \in Nat
    BY <1>1, RootIs DEF DescInv
  <2>3. \A f : Passed(f)' <=> Passed(f)
    BY <2>1 DEF Passed
  <2>4. PlaceInv' /\ OnlyForwardUseThrows'
    BY <2>1, <2>2 DEF PlaceInv, OnlyForwardUseThrows
  <2> QED
    BY <1>1, <2>1, <2>3, <2>4 DEF DescInv, SpecInv, MapInv, NamesInv, SettledInv, LookupInv
<1>2. ASSUME DescInv, UNCHANGED vars PROVE DescInv'
  <2>1. \A f : Passed(f)' <=> Passed(f)
    BY <1>2 DEF Passed, vars
  <2> QED
    BY <1>2, <2>1 DEF DescInv, SpecInv, MapInv, NamesInv, SettledInv, LookupInv, PlaceInv,
                      OnlyForwardUseThrows, vars
<1> QED
  BY <1>1, <1>2

\* The builder keeps its invariant.
THEOREM DescInvHolds == Spec => []DescInv
<1>1. DescInv /\ [Next]_vars => DescInv'
  BY StartKeeps, AddKeepsDesc, FinishKeeps, BuiltKeeps DEF Next
<1> QED
  BY <1>1, InitDesc, PTL DEF Spec

\* The variables keep their types, and a UID leads to a descriptor in the map.
THEOREM TypeCorrect == Spec => []TypeOK
<1>1. DescInv => TypeOK
  <2> SUFFICES ASSUME DescInv PROVE TypeOK
    OBVIOUS
  <2>1. /\ spec \in SpecFile /\ origin \in {"file", "log"}
        /\ pc \in {"entries", "items", "built", "thrown"}
        /\ k \in 1 .. (Len(root) + 1)
        /\ pc = "items" => k <= Len(root) /\ j \in 1 .. (Len(root[k].items) + 1)
    BY DEF DescInv, SpecInv, PlaceInv
  <2>2. \A key \in DOMAIN types :
          types[key].name = IF key.lens = <<>> THEN key.base ELSE key
    BY DEF DescInv, MapInv, MapOK
  <2>3. \A uid \in DOMAIN uid_lookup : uid_lookup[uid] \in DOMAIN types
    BY DEF DescInv, LookupInv, SettledInv, Settled
  <2> QED
    BY <2>1, <2>2, <2>3 DEF TypeOK
<1> QED
  BY <1>1, DescInvHolds, PTL

\* In every descriptor, finished or inside another, the UIDs and offsets that the fields
\* recorded are those of the descriptors the map holds now.
THEOREM FieldsLie == Spec => []FieldsLieEndToEnd
<1>1. DescInv => FieldsLieEndToEnd
  <2> SUFFICES ASSUME DescInv, NEW key \in DOMAIN types,
                      types[key].kind \in {"Struct", "Message"}
               PROVE  LET struct == types[key]  fs == struct.fields
                          End(n) == fs[n].offset + types[fs[n].key].size
                      IN  /\ \A n \in DOMAIN fs :
                               /\ fs[n].uid = FieldHash(fs[n].name, types[fs[n].key].uid)
                               /\ fs[n].offset = IF n = 1 THEN 0 ELSE End(n - 1)
                          /\ struct.size = IF fs = <<>> THEN 0 ELSE End(Len(fs))
    BY DEF FieldsLieEndToEnd
  <2> DEFINE fs == types[key].fields
             End(n) == fs[n].offset + types[fs[n].key].size
  <2>1. Laid(types[key], types)
    BY DEF DescInv, MapInv, MapOK
  <2>2. /\ IsSeq(fs) /\ \A n \in 1 .. Len(fs) : FieldLies(fs, n, types)
        /\ Len(fs) = 0 => types[key].size = 0
        /\ Len(fs) > 0 => types[key].size = End(Len(fs))
    BY <2>1 DEF Laid
  <2>3. DOMAIN fs = 1 .. Len(fs) /\ Len(fs) \in Nat
    BY <2>2, SeqIs
  <2>4. fs = <<>> <=> Len(fs) = 0
    <3> HIDE DEF fs
    <3>1. Len(fs) = 0 => fs = <<>>
      BY <2>2, EmptySeq DEF IsSeq
    <3> QED
      BY <3>1
  <2>5. \A n \in DOMAIN fs :
          /\ fs[n].uid = FieldHash(fs[n].name, types[fs[n].key].uid)
          /\ fs[n].offset = IF n = 1 THEN 0 ELSE End(n - 1)
    BY <2>2, <2>3 DEF FieldLies
  <2>6. types[key].size = IF fs = <<>> THEN 0 ELSE End(Len(fs))
    BY <2>2, <2>3, <2>4
  <2> QED
    BY <2>5, <2>6
<1> QED
  BY <1>1, DescInvHolds, PTL

\* The builder throws nothing at what a generator accepted but a use before the
\* definition, and that only in the header of a log.
THEOREM OnlyForwardUse == Spec => []OnlyForwardUseThrows
<1>1. DescInv => OnlyForwardUseThrows
  BY DEF DescInv
<1> QED
  BY <1>1, DescInvHolds, PTL

-----------------------------------------------------------------------------
(* The sizes that the builder and the generators give.                     *)

LEMMA SameBitfieldSize ==
  ASSUME NEW b \in 1 .. MaxBits
  PROVE  BitfieldSize(b) = BytesForBits(b)
<1>1. b \in 1 .. 64
  BY DEF MaxBits
<1>2. /\ b <= 8 => BytesForBits(b) = 1
      /\ b > 8 /\ b <= 16 => BytesForBits(b) = 2
      /\ b > 16 /\ b <= 32 => BytesForBits(b) = 4
      /\ b > 32 => BytesForBits(b) = 8
  BY <1>1, BytesAre
<1> QED
  BY <1>1, <1>2 DEF BitfieldSize

LEMMA SameEnumSize ==
  ASSUME NEW v \in Nat, v >= 1, v <= IntMax
  PROVE  EnumSize(v) = EnumBytes(v)
<1> DEFINE l == BitLength(v)
<1>1. v \in Nat /\ v < 2 ^ 31
  BY Literals DEF IntMax
<1>2. l \in 0 .. 64 /\ v < 2 ^ l /\ (l = 0 \/ v >= 2 ^ (l - 1))
  BY <1>1, BitLengthIs
<1> HIDE DEF l
<1>3. l \in Nat /\ 2 ^ l \in Nat
  BY <1>2, PowersOfTwo
<1>4. l # 0
  <2> SUFFICES ASSUME l = 0 PROVE FALSE
    OBVIOUS
  <2>1. v < 2 ^ 0
    BY <1>2
  <2> QED
    BY <2>1
<1>5. l - 1 \in Nat /\ v >= 2 ^ (l - 1) /\ 2 ^ (l - 1) \in Nat
  <2>1. l - 1 \in Nat
    BY <1>3, <1>4
  <2> QED
    BY <1>2, <1>4, <2>1, PowersOfTwo
<1>6. ASSUME NEW c \in Nat PROVE /\ l <= c => v < 2 ^ c
                                 /\ l > c => v >= 2 ^ c
  <2>1. 2 ^ c \in Nat
    BY PowersOfTwo
  <2>2. l <= c => 2 ^ l <= 2 ^ c
    BY <1>3, PowersGrow
  <2>3. l > c => c <= l - 1 /\ 2 ^ c <= 2 ^ (l - 1)
    BY <1>3, <1>5, PowersGrow
  <2> QED
    BY <1>1, <1>2, <1>3, <1>5, <2>1, <2>2, <2>3
<1>7. /\ l <= 7 <=> v <= 127
      /\ l <= 15 <=> v <= 32767
      /\ l <= 31
  <2> HIDE DEF l
  <2>1. 7 \in Nat /\ 15 \in Nat /\ 31 \in Nat
    OBVIOUS
  <2>2. (l <= 7 => v < 2 ^ 7) /\ (l > 7 => v >= 2 ^ 7)
    BY <1>6, <2>1, Zenon
  <2>3. (l <= 15 => v < 2 ^ 15) /\ (l > 15 => v >= 2 ^ 15)
    BY <1>6, <2>1, Zenon
  <2>4. l > 31 => v >= 2 ^ 31
    BY <1>6, <2>1, Zenon
  <2> QED
    BY <1>1, <1>3, <2>2, <2>3, <2>4, Literals, SMT
<1>8. l + 1 \in 1 .. 64
  BY <1>3, <1>7
<1>9. /\ l + 1 <= 8 => BytesForBits(l + 1) = 1
      /\ l + 1 > 8 /\ l + 1 <= 16 => BytesForBits(l + 1) = 2
      /\ l + 1 > 16 /\ l + 1 <= 32 => BytesForBits(l + 1) = 4
  BY <1>8, BytesAre
<1>10. EnumBytes(v) = IF v <= 127 THEN 1 ELSE IF v <= 32767 THEN 2 ELSE 4
  BY <1>3, <1>7, <1>9 DEF EnumBytes, l
<1>11. EnumSize(v) = IF v <= 127 THEN 1 ELSE IF v <= 32767 THEN 2 ELSE 4
  BY Literals DEF EnumSize
<1> QED
  BY <1>10, <1>11

-----------------------------------------------------------------------------
(* Types that contain some types.                                          *)

ContainFold == INSTANCE FoldTheorems WITH
  Op <- LAMBDA c, found, n : IF Reaches(c.gen, c.some, found, n) THEN found \cup {n} ELSE found

LEMMA ContainingIsFold ==
  ASSUME NEW gen, NEW some
  PROVE  Containing(gen, some) =
           ContainFold!Fold([gen |-> gen, some |-> some], {}, [n \in DOMAIN gen |-> n])
BY DEF Containing, FoldLeft, MapThenFoldSet, ContainFold!Fold, ContainFold!Rec,
       ContainFold!Step, Max, ContainFold!Max

LEMMA ReachesByEarlier ==
  ASSUME NEW gen, NEW some, NEW at \in DOMAIN gen, at \in Nat, FieldsBack(gen[at], at),
         NEW a, NEW b, \A i \in 1 .. (at - 1) : i \in a <=> i \in b
  PROVE  Reaches(gen, some, a, at) <=> Reaches(gen, some, b, at)
<1>1. gen[at].kind \in {"Struct", "Message"} => HasMembers(gen[at])
  BY DEF HasMembers
<1> QED
  BY <1>1 DEF Reaches, FieldsBack

\* Such a type is one of them, or has a field of a type that contains one.
LEMMA ContainingIs ==
  ASSUME NEW gen, NEW N \in Nat, DOMAIN gen = 1 .. N, FoundFirst(gen), NEW some
  PROVE  \A n \in 1 .. N :
           n \in Containing(gen, some) <=> Reaches(gen, some, Containing(gen, some), n)
<1> DEFINE c == [gen |-> gen, some |-> some]
           seq == [n \in DOMAIN gen |-> n]
<1>1. DOMAIN seq = 1 .. N /\ \A n \in 1 .. N : seq[n] = n
  OBVIOUS
<1>2. c.gen = gen /\ c.some = some
  OBVIOUS
<1>3. Containing(gen, some) = ContainFold!Fold(c, {}, seq)
  BY ContainingIsFold
<1> HIDE DEF c, seq
<1>4. PICK h : ContainFold!FoldsTo(h, c, {}, seq, N) /\ ContainFold!Fold(c, {}, seq) = h[N]
  BY <1>1, ContainFold!FoldHas
<1>5. /\ h[0] = {}
      /\ \A n \in 1 .. N :
           h[n] = IF Reaches(gen, some, h[n - 1], n) THEN h[n - 1] \cup {n} ELSE h[n - 1]
  BY <1>1, <1>2, <1>4 DEF ContainFold!FoldsTo
<1> DEFINE Good(n) == h[n] \subseteq 1 .. n /\ \A i \in 1 .. n : i \in h[n] <=> Reaches(gen, some, h[i - 1], i)
           K == {n \in Nat : n <= N => Good(n)}
<1>6. 0 \in K
  BY <1>5
<1>7. ASSUME NEW n \in Nat, n \in K PROVE n + 1 \in K
  <2> HIDE DEF K
  <2>1. SUFFICES ASSUME n + 1 <= N PROVE Good(n + 1)
    BY DEF K
  <2>2. n + 1 \in 1 .. N /\ (n + 1) - 1 = n
    BY <2>1
  <2>3. Good(n)
    BY <1>7, <2>1 DEF K
  <2>4. h[n + 1] = IF Reaches(gen, some, h[n], n + 1) THEN h[n] \cup {n + 1} ELSE h[n]
    BY <1>5, <2>2
  <2>5. h[n + 1] \subseteq 1 .. (n + 1)
    BY <2>3, <2>4
  <2>6. ASSUME NEW i \in 1 .. (n + 1) PROVE i \in h[n + 1] <=> Reaches(gen, some, h[i - 1], i)
    <3>1. CASE i = n + 1
      <4>1. i \notin h[n]
        BY <2>3, <3>1
      <4> QED
        BY <2>2, <2>4, <3>1, <4>1
    <3>2. CASE i \in 1 .. n
      <4>1. i \in h[n + 1] <=> i \in h[n]
        BY <2>4, <3>2
      <4> QED
        BY <2>3, <3>2, <4>1
    <3> QED
      BY <3>1, <3>2
  <2> QED
    BY <2>5, <2>6
<1>8. \A n \in Nat : n \in K
  <2> HIDE DEF K
  <2> QED
    BY <1>6, <1>7, BitFold!Induction
<1>9. \A n \in 0 .. N : Good(n)
  <2> HIDE DEF Good
  <2> QED
    BY <1>8
<1>10. ASSUME NEW n \in 1 .. N PROVE n \in h[N] <=> Reaches(gen, some, h[N], n)
  <2>1. n \in Nat /\ n - 1 \in 0 .. N /\ N \in 0 .. N /\ n \in DOMAIN gen
    OBVIOUS
  <2>2. \A i \in 1 .. (n - 1) : i \in h[n - 1] <=> i \in h[N]
    BY <1>9, <2>1
  <2>3. FieldsBack(gen[n], n)
    BY DEF FoundFirst
  <2>4. Reaches(gen, some, h[n - 1], n) <=> Reaches(gen, some, h[N], n)
    BY <2>1, <2>2, <2>3, ReachesByEarlier
  <2> QED
    BY <1>9, <2>1, <2>4
<1> QED
  BY <1>3, <1>4, <1>10

-----------------------------------------------------------------------------
(* A descriptor and the type of the generators that it stands for.         *)

AsPrimitive(o, g) == /\ o.uid = PrimitiveHash(g.name, PrimSize[g.name]) /\ o.size = PrimSize[g.name]
                     /\ g.fields = <<>>
AsMembers(o, g) ==
  /\ o.name = g.name /\ IsSeq(o.fields) /\ IsSeq(g.fields) /\ Len(g.fields) = Len(o.fields)
  /\ o.uid = IF Len(o.fields) = 0 THEN NoUid ELSE MembersUid(o)
AsEnum(o, g) ==
  /\ \A i \in 1 .. Len(o.fields) : o.fields[i].uid = ValueHash(g.fields[i].name, i - 1)
  /\ o.size = IF Len(o.fields) = 0 THEN 1 ELSE EnumSize(Len(o.fields))
  /\ Len(o.fields) <= IntMax
AsBitfield(o, g) ==
  /\ \A i \in 1 .. Len(o.fields) : o.fields[i].uid = ValueHash(g.fields[i].name, g.fields[i].bits)
  /\ o.size = IF Len(o.fields) = 0 THEN 0 ELSE BitfieldSize(Bits(g.fields))
  /\ Len(o.fields) > 0 => Bits(g.fields) \in 1 .. MaxBits
SameMember(f, g, gen, at) ==
  /\ f.name = g.name
  /\ g.type.index \in 1 .. (at - 1)
  /\ f.key = Key(gen[g.type.index].name, g.lens)
  /\ g.lens \in Seq(Int) /\ \A l \in DOMAIN g.lens : g.lens[l] >= 1
AsStructure(o, g, gen, at, map) ==
  /\ Laid(o, map)
  /\ \A i \in 1 .. Len(o.fields) : SameMember(o.fields[i], g.fields[i], gen, at)
  /\ g.kind = "Message" => Len(o.fields) > 0

StandsFor(o, gen, at, map) ==
  LET g == gen[at]
  IN  /\ g.kind \in Kinds \cup {"Primitive"}
      /\ g.kind = "Primitive" => AsPrimitive(o, g)
      /\ g.kind # "Primitive" => AsMembers(o, g)
      /\ g.kind = "Enum" => AsEnum(o, g)
      /\ g.kind = "Bitfield" => AsBitfield(o, g)
      /\ g.kind \in {"Struct", "Message"} => AsStructure(o, g, gen, at, map)

\* The map holds a descriptor for every type.
For(map, g) == map[Named(g.name)]
HoldsAll(map, gen) ==
  /\ IsSeq(gen) /\ MapOK(map)
  /\ \A n \in DOMAIN gen : /\ Named(gen[n].name) \in DOMAIN map
                           /\ StandsFor(For(map, gen[n]), gen, n, map)

LEMMA TypesAreFoundFirst ==
  ASSUME NEW gen, NEW map, HoldsAll(map, gen)
  PROVE  FoundFirst(gen)
<1> SUFFICES ASSUME NEW n \in DOMAIN gen PROVE FieldsBack(gen[n], n)
  BY DEF FoundFirst
<1> DEFINE g == gen[n]
           o == For(map, g)
<1>1. StandsFor(o, gen, n, map)
  BY DEF HoldsAll
<1>2. CASE g.kind = "Primitive"
  <2>1. g.fields = <<>>
    BY <1>1, <1>2 DEF StandsFor, AsPrimitive
  <2>2. DOMAIN g.fields = 1 .. 0
    BY <2>1
  <2> QED
    BY <1>2, <2>2 DEF FieldsBack, HasMembers
<1>3. CASE g.kind # "Primitive"
  <2>1. AsMembers(o, g)
    BY <1>1, <1>3 DEF StandsFor
  <2>2. DOMAIN g.fields = 1 .. Len(o.fields) /\ Len(o.fields) \in Nat
    BY <2>1, SeqIs DEF AsMembers
  <2>3. HasMembers(g) => \A i \in 1 .. Len(o.fields) : g.fields[i].type.index \in 1 .. (n - 1)
    BY <1>1, <1>3 DEF StandsFor, HasMembers, AsStructure, SameMember, Kinds
  <2> QED
    BY <2>2, <2>3 DEF FieldsBack
<1> QED
  BY <1>2, <1>3

\* What is hashed for a member of a type.
PartUid(g, before, i) ==
  CASE g.kind = "Enum" -> ValueHash(g.fields[i].name, i - 1)
    [] g.kind = "Bitfield" -> ValueHash(g.fields[i].name, g.fields[i].bits)
    [] OTHER -> FieldHash(g.fields[i].name,
                          ArrayUid(before[g.fields[i].type.index], g.fields[i].lens))
LEMMA TypeUidIs ==
  ASSUME NEW g, g.kind # "Primitive", NEW before
  PROVE  TypeUid(g, before) = TypeHash(g.name, [i \in DOMAIN g.fields |-> PartUid(g, before, i)])
BY DEF TypeUid, PartUid

\* The UID that a field recorded is that of the type it has in the map.
LEMMA FieldUidIs ==
  ASSUME NEW gen, NEW map, HoldsAll(map, gen), NEW at \in DOMAIN gen,
         gen[at].kind \in {"Struct", "Message"}, NEW i \in DOMAIN gen[at].fields
  PROVE  For(map, gen[at]).fields[i].uid =
           FieldHash(gen[at].fields[i].name,
                     ArrayUid(For(map, gen[gen[at].fields[i].type.index]).uid, gen[at].fields[i].lens))
<1> DEFINE g == gen[at]
           o == For(map, g)
           idx == g.fields[i].type.index
           f == o.fields[i]
           key == f.key
<1>1. AsStructure(o, g, gen, at, map) /\ AsMembers(o, g)
  BY DEF HoldsAll, StandsFor
<1>2. i \in 1 .. Len(o.fields)
  BY <1>1, SeqIs DEF AsMembers
<1>3. SameMember(f, g.fields[i], gen, at) /\ FieldLies(o.fields, i, map)
  BY <1>1, <1>2 DEF AsStructure, Laid
<1>4. /\ key = Key(gen[idx].name, g.fields[i].lens) /\ key \in DOMAIN map
      /\ f.name = g.fields[i].name /\ f.uid = FieldHash(f.name, map[key].uid)
  BY <1>3 DEF SameMember, FieldLies
<1>5. key.base = gen[idx].name /\ key.lens = g.fields[i].lens
  BY <1>4 DEF Key
<1> HIDE DEF g, o, idx, f, key
<1>6. map[key].uid = ArrayUid(map[Named(key.base)].uid, key.lens)
  BY <1>4 DEF HoldsAll, MapOK
<1>7. f.uid = FieldHash(g.fields[i].name, ArrayUid(map[Named(gen[idx].name)].uid, g.fields[i].lens))
  BY <1>4, <1>5, <1>6
<1> QED
  BY <1>7 DEF g, o, idx, f, For

\* The UID is the same when there are members, and those of their types are the same.
LEMMA SameUid ==
  ASSUME NEW gen, NEW map, HoldsAll(map, gen), NEW at \in DOMAIN gen, NEW before,
         gen[at].kind # "Primitive" => gen[at].fields # <<>>,
         gen[at].kind \in {"Struct", "Message"} =>
           \A i \in DOMAIN gen[at].fields :
             For(map, gen[gen[at].fields[i].type.index]).uid = before[gen[at].fields[i].type.index]
  PROVE  For(map, gen[at]).uid = TypeUid(gen[at], before)
<1> DEFINE g == gen[at]
           o == For(map, g)
<1>1. StandsFor(o, gen, at, map)
  BY DEF HoldsAll
<1>2. CASE g.kind = "Primitive"
  BY <1>1, <1>2 DEF StandsFor, AsPrimitive, TypeUid
<1>3. CASE g.kind # "Primitive"
  <2>1. AsMembers(o, g) /\ g.kind \in Kinds
    BY <1>1, <1>3 DEF StandsFor
  <2>2. DOMAIN g.fields = 1 .. Len(o.fields)
    BY <2>1, SeqIs DEF AsMembers
  <2>3. Len(o.fields) # 0
    <3> SUFFICES ASSUME Len(o.fields) = 0 PROVE FALSE
      OBVIOUS
    <3>1. g.fields = <<>>
      <4>1. Len(g.fields) = 0 /\ g.fields \in Seq(Range(g.fields))
        BY <2>1 DEF AsMembers, IsSeq
      <4> HIDE DEF g
      <4> QED
        BY <4>1, EmptySeq
    <3> QED
      BY <1>3, <3>1
  <2>4. o.uid = MembersUid(o) /\ o.name = g.name
    BY <2>1, <2>3 DEF AsMembers
  <2>5. ASSUME NEW i \in DOMAIN g.fields PROVE o.fields[i].uid = PartUid(g, before, i)
    <3>1. CASE g.kind = "Enum"
      BY <1>1, <2>2, <3>1 DEF StandsFor, AsEnum, PartUid
    <3>2. CASE g.kind = "Bitfield"
      BY <1>1, <2>2, <3>2 DEF StandsFor, AsBitfield, PartUid
    <3>3. CASE g.kind \in {"Struct", "Message"}
      <4>1. o.fields[i].uid =
              FieldHash(g.fields[i].name,
                        ArrayUid(For(map, gen[g.fields[i].type.index]).uid, g.fields[i].lens))
        BY <3>3, FieldUidIs
      <4>2. For(map, gen[g.fields[i].type.index]).uid = before[g.fields[i].type.index]
        BY <3>3
      <4> QED
        BY <3>3, <4>1, <4>2 DEF PartUid
    <3> QED
      BY <2>1, <3>1, <3>2, <3>3 DEF Kinds
  <2>6. TypeUid(g, before) = TypeHash(g.name, [i \in DOMAIN g.fields |-> PartUid(g, before, i)])
    BY <1>3, TypeUidIs
  <2> HIDE DEF g, o
  <2>7. [i \in DOMAIN g.fields |-> PartUid(g, before, i)] = [n \in 1 .. Len(o.fields) |-> o.fields[n].uid]
    BY <2>2, <2>5
  <2>8. o.uid = TypeUid(g, before)
    BY <2>4, <2>6, <2>7 DEF MembersUid
  <2> QED
    BY <2>8 DEF g, o
<1> QED
  BY <1>2, <1>3

Hollow(gen) == Containing(gen, Empty(gen, {"Enum", "Bitfield", "Struct"}))
Bitless(gen) == Containing(gen, Empty(gen, {"Bitfield"}))

\* Of the types that contain none without members, the builder and the generators have
\* the same UIDs.
LEMMA UidsAgree ==
  ASSUME NEW gen, NEW map, HoldsAll(map, gen), NEW N \in Nat, DOMAIN gen = 1 .. N
  PROVE  \A n \in 1 .. N : n \notin Hollow(gen) => For(map, gen[n]).uid = Uids(gen)[n]
<1> DEFINE uids == Uids(gen)
           Good(n) == n \notin Hollow(gen) => For(map, gen[n]).uid = uids[n]
           K == {n \in Nat : n <= N => \A x \in 1 .. n : Good(x)}
<1>1. FoundFirst(gen)
  BY TypesAreFoundFirst
<1>2. \A n \in 1 .. N : uids[n] = TypeUid(gen[n], uids)
  BY <1>1, UidsAre
<1>3. \A n \in 1 .. N :
        n \in Hollow(gen) <=> Reaches(gen, Empty(gen, {"Enum", "Bitfield", "Struct"}), Hollow(gen), n)
  BY <1>1, ContainingIs DEF Hollow
<1> HIDE DEF uids
<1>4. 0 \in K
  OBVIOUS
<1>5. ASSUME NEW n \in Nat, n \in K PROVE n + 1 \in K
  <2> HIDE DEF K
  <2>1. SUFFICES ASSUME n + 1 <= N PROVE \A x \in 1 .. (n + 1) : Good(x)
    BY DEF K
  <2>2. \A x \in 1 .. n : Good(x)
    BY <1>5, <2>1 DEF K
  <2> DEFINE at == n + 1
             g == gen[at]
  <2>3. at \in 1 .. N /\ at - 1 = n /\ at \in DOMAIN gen
    BY <2>1
  <2> HIDE DEF at
  <2>4. Good(at)
    <3> SUFFICES ASSUME at \notin Hollow(gen) PROVE For(map, g).uid = uids[at]
      OBVIOUS
    <3>1. ~Reaches(gen, Empty(gen, {"Enum", "Bitfield", "Struct"}), Hollow(gen), at)
      BY <1>3, <2>3
    <3>2. StandsFor(For(map, g), gen, at, map)
      BY <2>3 DEF HoldsAll
    <3>3. g.kind # "Primitive" => g.fields # <<>>
      <4>1. CASE g.kind = "Message"
        <5>1. AsStructure(For(map, g), g, gen, at, map) /\ AsMembers(For(map, g), g)
          BY <3>2, <4>1 DEF StandsFor
        <5>2. Len(g.fields) > 0
          BY <4>1, <5>1 DEF AsStructure, AsMembers
        <5> QED
          BY <5>2
      <4>2. CASE g.kind \in {"Enum", "Bitfield", "Struct"}
        BY <2>3, <3>1, <4>2 DEF Reaches, Empty
      <4>3. g.kind \in {"Primitive", "Message", "Enum", "Bitfield", "Struct"}
        BY <3>2 DEF StandsFor, Kinds
      <4> QED
        BY <4>1, <4>2, <4>3
    <3>4. ASSUME g.kind \in {"Struct", "Message"}, NEW i \in DOMAIN g.fields
          PROVE  For(map, gen[g.fields[i].type.index]).uid = uids[g.fields[i].type.index]
      <4>1. g.fields[i].type.index \notin Hollow(gen)
        BY <3>1, <3>4 DEF Reaches
      <4>2. HasMembers(g) /\ FieldsBack(g, at)
        BY <1>1, <2>3, <3>4 DEF HasMembers, FoundFirst
      <4>3. g.fields[i].type.index \in 1 .. n
        BY <2>3, <4>2 DEF FieldsBack
      <4> QED
        BY <2>2, <4>1, <4>3
    <3>5. For(map, gen[at]).uid = TypeUid(gen[at], uids)
      BY <2>3, <3>3, <3>4, SameUid
    <3> QED
      BY <1>2, <2>3, <3>5
  <2>5. ASSUME NEW x \in 1 .. (n + 1) PROVE Good(x)
    <3> HIDE DEF Good
    <3>1. x \in 1 .. n \/ x = at
      BY DEF at
    <3> QED
      BY <2>2, <2>4, <3>1
  <2> QED
    BY <2>5
<1>6. \A n \in Nat : n \in K
  <2> HIDE DEF K
  <2> QED
    BY <1>4, <1>5, BitFold!Induction
<1>7. \A x \in 1 .. N : Good(x)
  <2> HIDE DEF Good
  <2> QED
    BY <1>6
<1> QED
  BY <1>7 DEF uids

\* A field of a type that is no smaller is no smaller.
NoSmaller(map, gen, at, before) ==
  \A x \in 1 .. (at - 1) : /\ Named(gen[x].name) \in DOMAIN map /\ before[x] \in Int
                           /\ For(map, gen[x]).size <= before[x]
LEMMA FieldSizes ==
  ASSUME NEW gen, NEW map, HoldsAll(map, gen), NEW at \in DOMAIN gen,
         gen[at].kind \in {"Struct", "Message"}, NEW before, NoSmaller(map, gen, at, before),
         NEW q \in DOMAIN gen[at].fields, NEW own, own = For(map, gen[at]).fields[q],
         NEW theirs, theirs = gen[at].fields[q], NEW size, size = map[own.key].size,
         NEW full, full = ArraySize(before[theirs.type.index], theirs.lens)
  PROVE  /\ size \in Int /\ full \in Int /\ size <= full
         /\ size = full <=> For(map, gen[theirs.type.index]).size = before[theirs.type.index]
<1> DEFINE g == gen[at]
           o == For(map, g)
           x == theirs.type.index
           key == own.key
           lens == theirs.lens
           base == For(map, gen[x]).size
           y == before[x]
<1>1. AsStructure(o, g, gen, at, map) /\ AsMembers(o, g) /\ MapOK(map)
  BY DEF HoldsAll, StandsFor
<1>2. q \in 1 .. Len(o.fields)
  BY <1>1, SeqIs DEF AsMembers
<1>3. SameMember(own, theirs, gen, at)
  BY <1>1, <1>2 DEF AsStructure
<1>4. FieldLies(o.fields, q, map)
  BY <1>1, <1>2 DEF AsStructure, Laid
<1>5. own.key \in DOMAIN map
  BY <1>4 DEF FieldLies
<1>6. /\ key = Key(gen[x].name, lens) /\ x \in 1 .. (at - 1)
      /\ lens \in Seq(Int) /\ \A l \in DOMAIN lens : lens[l] >= 1
  BY <1>3 DEF SameMember
<1>7. key.base = gen[x].name /\ key.lens = lens
  BY <1>6 DEF Key
<1>8. base <= y /\ y \in Int /\ Named(gen[x].name) \in DOMAIN map
  BY <1>6 DEF NoSmaller
<1>9. key \in DOMAIN map
  BY <1>5
<1>10. size = map[key].size /\ full = ArraySize(y, lens)
  OBVIOUS
<1> HIDE DEF g, o, key, lens, y
<1>11. map[key].size = ArraySize(map[Named(key.base)].size, key.lens) /\ map[key].size \in Int
  BY <1>1, <1>9 DEF MapOK
<1>12. base \in Int
  BY <1>1, <1>8 DEF MapOK, For
<1>13. base = map[Named(key.base)].size
  BY <1>7 DEF For
<1> HIDE DEF base, x
<1>14. size = ArraySize(base, lens)
  BY <1>7, <1>10, <1>11, <1>13
<1>15. /\ ArraySize(base, lens) \in Int /\ ArraySize(y, lens) \in Int
       /\ ArraySize(base, lens) <= ArraySize(y, lens)
       /\ ArraySize(base, lens) = ArraySize(y, lens) <=> base = y
  BY <1>6, <1>8, <1>12, ArraySizeGrows
<1>16. size \in Int /\ full \in Int /\ size <= full /\ (size = full <=> base = y)
  BY <1>10, <1>15, <1>14
<1> QED
  BY <1>16 DEF base, x, y

\* A structure of fields that are no smaller is no smaller.
LEMMA StructureSizes ==
  ASSUME NEW gen, NEW map, HoldsAll(map, gen), NEW at \in DOMAIN gen,
         gen[at].kind \in {"Struct", "Message"}, NEW before, NoSmaller(map, gen, at, before)
  PROVE  /\ MembersSize(before, gen[at].fields) \in Int
         /\ For(map, gen[at]).size <= MembersSize(before, gen[at].fields)
         /\ For(map, gen[at]).size = MembersSize(before, gen[at].fields) <=>
              \A i \in DOMAIN gen[at].fields :
                For(map, gen[gen[at].fields[i].type.index]).size = before[gen[at].fields[i].type.index]
<1> DEFINE g == gen[at]
           o == For(map, g)
           L == Len(o.fields)
           Same(i) == For(map, gen[g.fields[i].type.index]).size = before[g.fields[i].type.index]
           S(i) == map[o.fields[i].key].size
           B(i) == ArraySize(before[g.fields[i].type.index], g.fields[i].lens)
           End(n) == IF n = 0 THEN 0 ELSE o.fields[n].offset + S(n)
<1>1. AsStructure(o, g, gen, at, map) /\ AsMembers(o, g) /\ MapOK(map)
  BY DEF HoldsAll, StandsFor
<1>2. L \in Nat /\ DOMAIN g.fields = 1 .. L
  BY <1>1, SeqIs DEF AsMembers
<1>3. PICK h : /\ MembersFold!FoldsTo(h, before, 0, g.fields, L)
               /\ MembersSize(before, g.fields) = h[L]
  <2> HIDE DEF g, L
  <2>1. PICK h : /\ MembersFold!FoldsTo(h, before, 0, g.fields, L)
                 /\ MembersFold!Fold(before, 0, g.fields) = h[L]
    BY <1>2, MembersFold!FoldHas
  <2> QED
    BY <2>1, MembersIsFold
<1>4. h[0] = 0 /\ \A i \in 1 .. L : h[i] = h[i - 1] + B(i)
  BY <1>3 DEF MembersFold!FoldsTo
<1>5. \A i \in 1 .. L : S(i) \in Int /\ B(i) \in Int /\ S(i) <= B(i) /\ (S(i) = B(i) <=> Same(i))
  BY <1>2, FieldSizes
<1>6. o.size = End(L)
  BY <1>1, <1>2 DEF AsStructure, Laid
<1>7. \A i \in 1 .. L : End(i) = End(i - 1) + S(i)
  <2>1. \A i \in 1 .. L : FieldLies(o.fields, i, map)
    BY <1>1 DEF AsStructure, Laid
  <2> QED
    BY <1>2, <2>1 DEF FieldLies
<1>8. End(0) = 0
  OBVIOUS
<1> HIDE DEF g, o, L, Same, S, B, End
<1> DEFINE Good(n) == /\ End(n) \in Int /\ h[n] \in Int /\ End(n) <= h[n]
                      /\ End(n) = h[n] <=> \A i \in 1 .. n : Same(i)
           K == {n \in Nat : n <= L => Good(n)}
<1>9. 0 \in K
  BY <1>4, <1>8
<1>10. ASSUME NEW n \in Nat, n \in K PROVE n + 1 \in K
  <2> HIDE DEF K
  <2>1. SUFFICES ASSUME n + 1 <= L PROVE Good(n + 1)
    BY DEF K
  <2>2. Good(n)
    BY <1>2, <1>10, <2>1 DEF K
  <2> DEFINE i == n + 1
  <2>3. i \in 1 .. L /\ i - 1 = n
    BY <1>2, <2>1
  <2> HIDE DEF i
  <2>4. /\ End(i) = End(n) + S(i) /\ h[i] = h[n] + B(i)
        /\ S(i) \in Int /\ B(i) \in Int /\ S(i) <= B(i) /\ (S(i) = B(i) <=> Same(i))
    BY <1>4, <1>5, <1>7, <2>3
  <2>5. (\A x \in 1 .. i : Same(x)) <=> (\A x \in 1 .. n : Same(x)) /\ Same(i)
    BY DEF i
  <2>6. Good(i)
    BY <2>2, <2>4, <2>5
  <2> QED
    BY <2>6 DEF i
<1>11. \A n \in Nat : n \in K
  <2> HIDE DEF K
  <2> QED
    BY <1>9, <1>10, BitFold!Induction
<1>12. Good(L)
  <2> HIDE DEF Good
  <2> QED
    BY <1>2, <1>11
<1> QED
  BY <1>2, <1>3, <1>6, <1>12 DEF g, o, Same

\* The size of a type without fields of its own.
LEMMA SimpleSizes ==
  ASSUME NEW gen, NEW map, HoldsAll(map, gen), NEW at \in DOMAIN gen, NEW before,
         gen[at].kind \notin {"Struct", "Message"}
  PROVE  /\ TypeSize(gen[at], before) \in Int
         /\ For(map, gen[at]).size <= TypeSize(gen[at], before)
         /\ For(map, gen[at]).size = TypeSize(gen[at], before)
              <=> ~(gen[at].kind = "Bitfield" /\ gen[at].fields = <<>>)
<1> DEFINE g == gen[at]
           o == For(map, g)
<1>1. StandsFor(o, gen, at, map) /\ MapOK(map) /\ Named(g.name) \in DOMAIN map
  BY DEF HoldsAll
<1>2. o.size \in Int
  BY <1>1 DEF MapOK, For
<1>3. CASE g.kind = "Primitive"
  BY <1>1, <1>2, <1>3 DEF StandsFor, AsPrimitive, TypeSize
<1>4. g.kind # "Primitive" =>
        /\ Len(g.fields) = Len(o.fields) /\ Len(o.fields) \in Nat
        /\ g.fields = <<>> <=> Len(o.fields) = 0
  <2> SUFFICES ASSUME g.kind # "Primitive"
               PROVE  /\ Len(g.fields) = Len(o.fields) /\ Len(o.fields) \in Nat
                      /\ g.fields = <<>> <=> Len(o.fields) = 0
    OBVIOUS
  <2>1. AsMembers(o, g)
    BY <1>1 DEF StandsFor
  <2>2. Len(g.fields) = Len(o.fields) /\ g.fields \in Seq(Range(g.fields)) /\ Len(o.fields) \in Nat
    BY <2>1, SeqIs DEF AsMembers, IsSeq
  <2> HIDE DEF g, o
  <2>3. g.fields = <<>> <=> Len(g.fields) = 0
    BY <2>2, EmptySeq
  <2> QED
    BY <2>2, <2>3
<1>5. CASE g.kind = "Enum"
  <2>1. /\ o.size = IF Len(o.fields) = 0 THEN 1 ELSE EnumSize(Len(o.fields))
        /\ Len(o.fields) <= IntMax
    BY <1>1, <1>5 DEF StandsFor, AsEnum
  <2>2. TypeSize(g, before) = IF g.fields = <<>> THEN 1 ELSE EnumBytes(Len(g.fields))
    BY <1>5 DEF TypeSize
  <2> HIDE DEF g, o
  <2>3. o.size = TypeSize(g, before)
    BY <1>4, <1>5, <2>1, <2>2, SameEnumSize
  <2> QED
    BY <1>2, <1>5, <2>3 DEF g, o
<1>6. CASE g.kind = "Bitfield"
  <2>1. /\ o.size = IF Len(o.fields) = 0 THEN 0 ELSE BitfieldSize(Bits(g.fields))
        /\ Len(o.fields) > 0 => Bits(g.fields) \in 1 .. MaxBits
    BY <1>1, <1>6 DEF StandsFor, AsBitfield
  <2>2. TypeSize(g, before) = IF g.fields = <<>> THEN 1 ELSE BytesForBits(Bits(g.fields))
    BY <1>6 DEF TypeSize
  <2> HIDE DEF g, o
  <2>3. IF g.fields = <<>> THEN o.size = 0 /\ TypeSize(g, before) = 1
                           ELSE o.size = TypeSize(g, before)
    BY <1>4, <1>6, <2>1, <2>2, SameBitfieldSize
  <2> QED
    BY <1>2, <1>6, <2>3 DEF g, o
<1> QED
  BY <1>1, <1>3, <1>5, <1>6 DEF StandsFor, Kinds

\* The builder's size of a type is that of the generators unless the type contains a
\* bitfield without fields, and then it is smaller.
LEMMA SizesAgree ==
  ASSUME NEW gen, NEW map, HoldsAll(map, gen), NEW N \in Nat, DOMAIN gen = 1 .. N
  PROVE  \A n \in 1 .. N : /\ Sizes(gen)[n] \in Int /\ For(map, gen[n]).size <= Sizes(gen)[n]
                           /\ For(map, gen[n]).size = Sizes(gen)[n] <=> n \notin Bitless(gen)
<1> DEFINE sizes == Sizes(gen)
           Good(n) == /\ sizes[n] \in Int /\ For(map, gen[n]).size <= sizes[n]
                      /\ For(map, gen[n]).size = sizes[n] <=> n \notin Bitless(gen)
           K == {n \in Nat : n <= N => \A x \in 1 .. n : Good(x)}
<1>1. FoundFirst(gen)
  BY TypesAreFoundFirst
<1>2. \A n \in 1 .. N : sizes[n] = TypeSize(gen[n], sizes)
  BY <1>1, SizesAre
<1>3. \A n \in 1 .. N :
        n \in Bitless(gen) <=> Reaches(gen, Empty(gen, {"Bitfield"}), Bitless(gen), n)
  BY <1>1, ContainingIs DEF Bitless
<1> HIDE DEF sizes
<1>4. 0 \in K
  OBVIOUS
<1>5. ASSUME NEW n \in Nat, n \in K PROVE n + 1 \in K
  <2> HIDE DEF K
  <2>1. SUFFICES ASSUME n + 1 <= N PROVE \A x \in 1 .. (n + 1) : Good(x)
    BY DEF K
  <2>2. \A x \in 1 .. n : Good(x)
    BY <1>5, <2>1 DEF K
  <2> DEFINE at == n + 1
             g == gen[at]
  <2>3. at \in 1 .. N /\ at - 1 = n /\ at \in DOMAIN gen
    BY <2>1
  <2> HIDE DEF at
  <2>4. Good(at)
    <3>1. CASE g.kind \in {"Struct", "Message"}
      <4>1. NoSmaller(map, gen, at, sizes)
        BY <2>2, <2>3 DEF NoSmaller, HoldsAll
      <4>2. /\ MembersSize(sizes, g.fields) \in Int
            /\ For(map, gen[at]).size <= MembersSize(sizes, g.fields)
            /\ For(map, gen[at]).size = MembersSize(sizes, g.fields) <=>
                 \A i \in DOMAIN g.fields :
                   For(map, gen[g.fields[i].type.index]).size = sizes[g.fields[i].type.index]
        BY <2>3, <3>1, <4>1, StructureSizes
      <4>3. sizes[at] = MembersSize(sizes, g.fields)
        BY <1>2, <2>3, <3>1 DEF TypeSize
      <4>4. \A i \in DOMAIN g.fields : g.fields[i].type.index \in 1 .. n
        <5>1. FieldsBack(g, at) /\ HasMembers(g)
          BY <1>1, <2>3, <3>1 DEF FoundFirst, HasMembers
        <5> QED
          BY <2>3, <5>1 DEF FieldsBack
      <4>5. at \in Bitless(gen) <=>
              \E i \in DOMAIN g.fields : g.fields[i].type.index \in Bitless(gen)
        BY <1>3, <2>3, <3>1 DEF Reaches, Empty
      <4> HIDE DEF g
      <4>6. (\A i \in DOMAIN g.fields :
               For(map, gen[g.fields[i].type.index]).size = sizes[g.fields[i].type.index])
              <=> at \notin Bitless(gen)
        BY <2>2, <4>4, <4>5
      <4> QED
        BY <4>2, <4>3, <4>6
    <3>2. CASE g.kind \notin {"Struct", "Message"}
      <4>1. /\ TypeSize(gen[at], sizes) \in Int
            /\ For(map, gen[at]).size <= TypeSize(gen[at], sizes)
            /\ For(map, gen[at]).size = TypeSize(gen[at], sizes)
                 <=> ~(gen[at].kind = "Bitfield" /\ gen[at].fields = <<>>)
        BY <2>3, <3>2, SimpleSizes
      <4>2. at \in Bitless(gen) <=> gen[at].kind = "Bitfield" /\ gen[at].fields = <<>>
        BY <1>3, <2>3, <3>2 DEF Reaches, Empty
      <4>3. sizes[at] = TypeSize(gen[at], sizes)
        BY <1>2, <2>3
      <4> QED
        BY <4>1, <4>2, <4>3
    <3> QED
      BY <3>1, <3>2
  <2>5. ASSUME NEW x \in 1 .. (n + 1) PROVE Good(x)
    <3> HIDE DEF Good
    <3>1. x \in 1 .. n \/ x = at
      BY DEF at
    <3> QED
      BY <2>2, <2>4, <3>1
  <2> QED
    BY <2>5
<1>6. \A n \in Nat : n \in K
  <2> HIDE DEF K
  <2> QED
    BY <1>4, <1>5, BitFold!Induction
<1>7. \A x \in 1 .. N : Good(x)
  <2> HIDE DEF Good
  <2> QED
    BY <1>6
<1> QED
  BY <1>7 DEF sizes

-----------------------------------------------------------------------------
(* A builder that was built holds the types of the generators.             *)

\* The descriptor of an entry stands for the type that the generators have for it.
LEMMA EntryStandsFor ==
  ASSUME NEW s \in SpecFile, NEW t, NEW gen, gen = Meaning(s, t, 1), NEW m \in DOMAIN s,
         NEW map, Settled(s[m], map), NEW R, R = Builtins(1) \o s
  PROVE  /\ Named(gen[NumBuiltins + m].name) \in DOMAIN map
         /\ StandsFor(For(map, gen[NumBuiltins + m]), gen, NumBuiltins + m, map)
<1> DEFINE e == s[m]
           c == Len(e.items)
           at == NumBuiltins + m
           g == gen[at]
           o == For(map, g)
           h == HeaderCount(e)
<1>1. IsSeq(s)
  BY SpecFileAssumption DEF Acceptable, IsSeq
<1>2. DOMAIN s = 1 .. Len(s) /\ Len(s) \in Nat /\ e \in Range(s)
  BY <1>1, SeqIs DEF Range
<1>3. g = ObjectOf(e, c, t, 1, R)
  BY <1>1, <1>2, MeaningIs
<1>4. /\ e.kind \in Kinds /\ c \in Nat /\ DOMAIN e.items = 1 .. c /\ c <= IntMax
      /\ \A i \in 1 .. c : e.items[i].lens \in Seq(Int)
      /\ e.kind \in {"Struct", "Message"} =>
           \A i \in 1 .. c : \A l \in DOMAIN e.items[i].lens : e.items[i].lens[l] >= 1
  BY <1>2, EntryIs, SpecFileAssumption
<1>5. g.name = e.name /\ g.kind = e.kind
  BY <1>3, ObjIs DEF ObjectOf
<1>6. Named(e.name) \in DOMAIN map /\ Filled(o, e, c, map)
  BY <1>5 DEF Settled, For
<1>7. /\ DOMAIN g.fields = 1 .. (h + c)
      /\ h = 1 => g.fields[1] = HeaderOf(1, R)
      /\ \A i \in 1 .. c : g.fields[h + i] = MemberOf(e, e.items[i], t, 1, R)
  BY <1>3, <1>4, FieldsAre
<1>8. IsSeq(g.fields)
  BY <1>3, <1>4, FieldsAreSeq
<1>9. h \in {0, 1} /\ (h = 1 <=> e.kind = "Message")
  BY DEF HeaderCount
<1>10. Len(g.fields) = h + c
  BY <1>4, <1>7, <1>8, <1>9, SeqIs
<1>11. AsMembers(o, g)
  BY <1>5, <1>6, <1>8, <1>10 DEF AsMembers, Filled
<1>12. Len(o.fields) = h + c
  BY <1>6 DEF Filled
<1>13. ASSUME e.kind = "Enum" PROVE AsEnum(o, g)
  <2>1. h = 0 /\ Len(o.fields) = c /\ \A i \in 1 .. c : h + i = i
    BY <1>4, <1>9, <1>12, <1>13
  <2>2. FilledEnum(o, e, c)
    BY <1>6, <1>13 DEF Filled
  <2>3. \A i \in 1 .. c : g.fields[i].name = e.items[i].name
    <3>1. \A i \in 1 .. c : g.fields[i] = MemberOf(e, e.items[i], t, 1, R)
      BY <1>7, <2>1
    <3>2. \A i \in 1 .. c : MemberOf(e, e.items[i], t, 1, R).name = e.items[i].name
      BY <1>13 DEF MemberOf, Member
    <3> QED
      BY <3>1, <3>2
  <2> QED
    BY <1>4, <2>1, <2>2, <2>3 DEF FilledEnum, AsEnum
<1>14. ASSUME e.kind = "Bitfield" PROVE AsBitfield(o, g)
  <2>1. h = 0 /\ Len(o.fields) = c /\ \A i \in 1 .. c : h + i = i
    BY <1>4, <1>9, <1>12, <1>14
  <2>2. FilledBitfield(o, e, c)
    BY <1>6, <1>14 DEF Filled
  <2>3. \A i \in 1 .. c : g.fields[i].name = e.items[i].name /\ g.fields[i].bits = e.items[i].bits
    <3>1. \A i \in 1 .. c : g.fields[i] = MemberOf(e, e.items[i], t, 1, R)
      BY <1>7, <2>1
    <3>2. \A i \in 1 .. c : /\ MemberOf(e, e.items[i], t, 1, R).name = e.items[i].name
                            /\ MemberOf(e, e.items[i], t, 1, R).bits = e.items[i].bits
      BY <1>14 DEF MemberOf, Member
    <3> QED
      BY <3>1, <3>2
  <2>4. Bits(g.fields) = Bits(First(e.items, c))
    BY <1>3, <1>4, <1>14, FieldBits
  <2>5. c > 0 => Bits(g.fields) \in 1 .. MaxBits
    BY <1>2, <1>14, <2>4, SomeBits, SpecFileAssumption
  <2> QED
    BY <2>1, <2>2, <2>3, <2>4, <2>5 DEF FilledBitfield, AsBitfield
<1>15. ASSUME e.kind \in {"Struct", "Message"} PROVE AsStructure(o, g, gen, at, map)
  <2>1. FilledStruct(o, e, c, map)
    BY <1>6, <1>15 DEF Filled
  <2>2. /\ DOMAIN R = 1 .. (NumBuiltins + Len(s)) /\ Distinct(R)
        /\ DOMAIN gen = 1 .. (NumBuiltins + Len(s)) /\ \A x \in DOMAIN gen : gen[x].name = R[x].name
    <3>1. Placed(R, gen, NumBuiltins + Len(s))
      BY PlacesAre, SpecFileAssumption
    <3> QED
      BY <3>1 DEF Placed
  <2>3. NumBuiltins \in Nat /\ NumBuiltins >= 1 /\ m \in Nat /\ m >= 1 /\ m <= Len(s)
    BY <1>2, BuiltinsAre
  <2>4. NumBuiltins \in 1 .. (at - 1) /\ \A x \in 1 .. (at - 1) : x \in DOMAIN gen /\ x \in DOMAIN R
    BY <1>2, <2>2, <2>3
  <2>5. R[NumBuiltins].name = "SsHeader"
    <3>1. NumBuiltins \in DOMAIN gen /\ NumBuiltins \in 1 .. NumBuiltins
      BY <2>3, <2>4
    <3>2. gen[NumBuiltins] = Builtins(1)[NumBuiltins]
      BY <1>1, <3>1, MeaningIs
    <3> QED
      BY <2>2, <3>1, <3>2, BuiltinsAre
  <2>6. IndexOf(R, "SsHeader") = NumBuiltins
    <3> HIDE DEF at
    <3> QED
      BY <2>2, <2>4, <2>5, IndexIs
  <2>7. ASSUME h = 1 PROVE SameMember(o.fields[1], g.fields[1], gen, at)
    <3>1. o.fields[1].name = "ss_header" /\ o.fields[1].key = Key("SsHeader", <<>>)
      BY <2>1, <2>7 DEF FilledStruct, Named
    <3>2. g.fields[1] = Scalar("ss_header", Ref(1, NumBuiltins))
      BY <1>7, <2>6, <2>7 DEF HeaderOf
    <3>3. /\ g.fields[1].name = "ss_header" /\ g.fields[1].type.index = NumBuiltins
          /\ g.fields[1].lens = <<>>
      BY <3>2 DEF Scalar, Member, Ref
    <3>4. gen[NumBuiltins].name = "SsHeader"
      BY <2>2, <2>4, <2>5
    <3> HIDE DEF g, o, at
    <3> QED
      BY <2>4, <3>1, <3>3, <3>4 DEF SameMember
  <2>8. ASSUME NEW i \in 1 .. c PROVE SameMember(o.fields[h + i], g.fields[h + i], gen, at)
    <3> DEFINE item == e.items[i]
               idx == IndexOf(R, item.type)
    <3>1. o.fields[h + i].name = item.name /\ o.fields[h + i].key = Key(item.type, item.lens)
      BY <2>1 DEF FilledStruct
    <3>2. g.fields[h + i] = Member(item.name, Ref(1, idx), item.lens, 0, t \in item.tags)
      BY <1>7, <1>15 DEF MemberOf
    <3>3. /\ g.fields[h + i].name = item.name /\ g.fields[h + i].type.index = idx
          /\ g.fields[h + i].lens = item.lens
      BY <3>2 DEF Member, Ref
    <3>4. idx \in 1 .. (at - 1) /\ R[idx].name = item.type
      <4>1. i \in DOMAIN e.items
        BY <1>4
      <4>2. Found(R, item.type, at)
        BY <1>15, <4>1, TypeFound, SpecFileAssumption
      <4> HIDE DEF item, at
      <4> QED
        BY <4>2 DEF Found
    <3>5. gen[idx].name = item.type
      BY <2>2, <2>4, <3>4
    <3>6. item.lens \in Seq(Int) /\ \A l \in DOMAIN item.lens : item.lens[l] >= 1
      BY <1>4, <1>15
    <3> HIDE DEF g, o, at, item, idx
    <3> QED
      BY <3>1, <3>3, <3>4, <3>5, <3>6 DEF SameMember
  <2>9. ASSUME NEW i \in 1 .. Len(o.fields) PROVE SameMember(o.fields[i], g.fields[i], gen, at)
    <3> HIDE DEF g, o, at, h, c
    <3>1. CASE i <= h
      <4>1. i = 1 /\ h = 1
        BY <1>9, <3>1
      <4> QED
        BY <2>7, <4>1
    <3>2. CASE i > h
      <4>1. i - h \in 1 .. c /\ h + (i - h) = i
        BY <1>4, <1>9, <1>12, <3>2
      <4> QED
        BY <2>8, <4>1
    <3> QED
      BY <1>9, <3>1, <3>2
  <2>10. g.kind = "Message" => Len(o.fields) > 0
    BY <1>4, <1>5, <1>9, <1>12
  <2>11. Laid(o, map)
    BY <2>1 DEF FilledStruct
  <2> HIDE DEF g, o, at
  <2> QED
    BY <2>9, <2>10, <2>11 DEF AsStructure
<1>16. g.kind \in Kinds
  BY <1>4, <1>5
<1> HIDE DEF o, at, e
<1>17. StandsFor(o, gen, at, map)
  BY <1>5, <1>11, <1>13, <1>14, <1>15, <1>16 DEF StandsFor, Kinds
<1> QED
  BY <1>5, <1>6, <1>17 DEF o, at

\* So do the descriptors that are always there.
LEMMA BuiltinStandsFor ==
  ASSUME NEW gen, \A n \in 1 .. NumBuiltins : gen[n] = Builtins(1)[n],
         NEW map, MapOK(map), Extends(map, BaseTypes), NEW at \in 1 .. NumBuiltins
  PROVE  Named(gen[at].name) \in DOMAIN map /\ StandsFor(For(map, gen[at]), gen, at, map)
<1> DEFINE g == gen[at]
           o == For(map, g)
<1>1. /\ NumBuiltins \in Nat /\ NumBuiltins >= 1
      /\ DOMAIN Primitive = 1 .. (NumBuiltins - 1)
  BY BuiltinsAre, PrimitiveAssumption DEF PrimitiveAssumption, NumBuiltins
<1>2. /\ \A name \in Reserved : /\ Named(name) \in DOMAIN map
                               /\ map[Named(name)] = BaseTypes[Named(name)]
      /\ \A name \in Range(Primitive) :
           /\ BaseTypes[Named(name)].uid = PrimitiveHash(name, PrimSize[name])
           /\ BaseTypes[Named(name)].size = PrimSize[name]
      /\ IsHeader(BaseTypes[Named("SsHeader")])
  BY BaseTypesAre DEF Extends
<1>3. CASE at \in 1 .. (NumBuiltins - 1)
  <2>1. g = TypeObj(Primitive[at], "Primitive", <<>>)
    BY <1>3, BuiltinsAreTypes
  <2>2. g.name = Primitive[at] /\ g.kind = "Primitive" /\ g.fields = <<>>
    BY <2>1, ObjIs
  <2>3. g.name \in Range(Primitive) /\ g.name \in Reserved
    BY <1>1, <1>3, <2>2 DEF Range, Reserved
  <2>4. o = BaseTypes[Named(g.name)]
    BY <1>2, <2>3 DEF For
  <2>5. AsPrimitive(o, g)
    BY <1>2, <2>2, <2>3, <2>4 DEF AsPrimitive
  <2> QED
    BY <1>2, <2>2, <2>3, <2>5 DEF StandsFor, Kinds
<1>4. CASE at = NumBuiltins
  <2>1. PICK a, b \in 1 .. (NumBuiltins - 1) :
          /\ Primitive[a] = "uint32" /\ Primitive[b] = "uint16"
          /\ Builtins(1)[NumBuiltins] =
               TypeObj("SsHeader", "Struct", <<Scalar("uid", Ref(1, a)), Scalar("len", Ref(1, b))>>)
    BY BuiltinsAreTypes
  <2>2. /\ g.name = "SsHeader" /\ g.kind = "Struct"
        /\ g.fields = <<Scalar("uid", Ref(1, a)), Scalar("len", Ref(1, b))>>
    BY <1>1, <1>4, <2>1, ObjIs
  <2>3. IsSeq(g.fields) /\ Len(g.fields) = 2
    <3>1. g.fields \in Seq({Scalar("uid", Ref(1, a)), Scalar("len", Ref(1, b))})
      BY <2>2
    <3>2. Len(g.fields) = 2
      BY <2>2
    <3> HIDE DEF g
    <3> QED
      BY <3>1, <3>2, SeqOfSome
  <2>4. "SsHeader" \in Reserved
    BY DEF Reserved
  <2>5. o = BaseTypes[Named("SsHeader")] /\ IsHeader(o) /\ Named("SsHeader") \in DOMAIN map
    BY <1>2, <2>2, <2>4 DEF For
  <2>6. /\ o.name = "SsHeader" /\ o.kind = "Struct" /\ Len(o.fields) = 2
        /\ o.fields[1].name = "uid" /\ o.fields[1].key = Key("uint32", <<>>)
        /\ o.fields[2].name = "len" /\ o.fields[2].key = Key("uint16", <<>>)
        /\ o.uid = MembersUid(o)
    BY <2>5 DEF IsHeader, Named
  <2>7. Laid(o, map)
    BY <2>2, <2>5, <2>6 DEF MapOK, For
  <2>8. IsSeq(o.fields)
    BY <2>7 DEF Laid
  <2>9. /\ g.fields[1].name = "uid" /\ g.fields[1].type.index = a /\ g.fields[1].lens = <<>>
        /\ g.fields[2].name = "len" /\ g.fields[2].type.index = b /\ g.fields[2].lens = <<>>
    BY <2>2 DEF Scalar, Member, Ref
  <2>10. \A n \in 1 .. (NumBuiltins - 1) : n \in 1 .. (at - 1) /\ gen[n].name = Primitive[n]
    BY <1>1, <1>4, BuiltinsAre
  <2> HIDE DEF g, o
  <2>11. AsMembers(o, g)
    BY <2>2, <2>3, <2>6, <2>8 DEF AsMembers
  <2>12. SameMember(o.fields[1], g.fields[1], gen, at)
    BY <2>1, <2>6, <2>9, <2>10 DEF SameMember
  <2>13. SameMember(o.fields[2], g.fields[2], gen, at)
    BY <2>1, <2>6, <2>9, <2>10 DEF SameMember
  <2>14. AsStructure(o, g, gen, at, map)
    <3>1. \A i \in 1 .. Len(o.fields) : i = 1 \/ i = 2
      BY <2>6
    <3> QED
      BY <2>2, <2>7, <2>12, <2>13, <3>1 DEF AsStructure
  <2>15. StandsFor(o, gen, at, map)
    BY <2>2, <2>11, <2>14 DEF StandsFor, Kinds, g
  <2> QED
    BY <2>2, <2>5, <2>15 DEF g, o
<1> QED
  BY <1>1, <1>3, <1>4

\* A builder that was built has passed every entry.
LEMMA Counterparts ==
  ASSUME DescInv, pc = "built", NEW t
  PROVE  HoldsAll(types, Meaning(spec, t, 1))
<1> DEFINE gen == Meaning(spec, t, 1)
<1>1. SpecInv /\ PlaceInv /\ MapInv /\ SettledInv
  BY DEF DescInv
<1>2. spec \in SpecFile /\ origin \in {"file", "log"} /\ root = Document(spec, origin)
  BY <1>1 DEF SpecInv
<1>3. DOMAIN root = 1 .. Len(root) /\ Len(root) \in Nat /\ k = Len(root) + 1
  BY <1>1, RootIs DEF PlaceInv
<1>4. \A e \in Range(spec) : Passed(e)
  <2>1. \A e \in Range(spec) : \E n \in DOMAIN root : root[n] = e
    BY <1>2, DocumentIs
  <2>2. (k - 1) = Len(root)
    BY <1>3
  <2> QED
    BY <1>3, <2>1, <2>2 DEF Passed
<1>5. IsSeq(spec)
  BY <1>2, SpecFileAssumption DEF Acceptable, IsSeq
<1>6. DOMAIN spec = 1 .. Len(spec) /\ Len(spec) \in Nat
  BY <1>5, SeqIs
<1>7. \A m \in DOMAIN spec : Settled(spec[m], types)
  BY <1>1, <1>4 DEF SettledInv, Range
<1>8. /\ IsSeq(gen) /\ DOMAIN gen = 1 .. (NumBuiltins + Len(spec))
      /\ \A i \in 1 .. NumBuiltins : gen[i] = Builtins(1)[i]
  BY <1>5, MeaningIs
<1>9. NumBuiltins \in Nat
  BY BuiltinsAre
<1>10. MapOK(types) /\ Extends(types, BaseTypes)
  BY <1>1 DEF MapInv
<1>11. ASSUME NEW n \in DOMAIN gen
       PROVE  /\ Named(gen[n].name) \in DOMAIN types
              /\ StandsFor(For(types, gen[n]), gen, n, types)
  <2>1. CASE n \in 1 .. NumBuiltins
    <3> HIDE DEF gen
    <3> QED
      BY <1>8, <1>10, <2>1, BuiltinStandsFor
  <2>2. CASE n \notin 1 .. NumBuiltins
    <3> DEFINE m == n - NumBuiltins
    <3>1. m \in DOMAIN spec /\ NumBuiltins + m = n
      BY <1>6, <1>8, <1>9, <2>2
    <3> HIDE DEF m
    <3>2. /\ Named(gen[NumBuiltins + m].name) \in DOMAIN types
          /\ StandsFor(For(types, gen[NumBuiltins + m]), gen, NumBuiltins + m, types)
      BY <1>2, <1>7, <3>1, EntryStandsFor
    <3> QED
      BY <3>1, <3>2
  <2> QED
    BY <2>1, <2>2
<1> HIDE DEF gen
<1>12. HoldsAll(types, gen)
  BY <1>8, <1>10, <1>11 DEF HoldsAll
<1> QED
  BY <1>12 DEF gen

\* The messages of a builder that was built are those of the specification.
LEMMA MessagesAre ==
  ASSUME DescInv, pc = "built", NEW t, NEW gen, gen = Meaning(spec, t, 1)
  PROVE  /\ \A n \in DOMAIN gen : gen[n].kind = "Message" =>
              For(types, gen[n]).uid \in DOMAIN uid_lookup
         /\ \A uid \in DOMAIN uid_lookup : \E n \in DOMAIN gen :
              /\ gen[n].kind = "Message" /\ For(types, gen[n]).uid = uid
              /\ uid_lookup[uid] = Named(gen[n].name)
<1>1. SpecInv /\ PlaceInv /\ LookupInv
  BY DEF DescInv
<1>2. spec \in SpecFile /\ origin \in {"file", "log"} /\ root = Document(spec, origin)
  BY <1>1 DEF SpecInv
<1>3. DOMAIN root = 1 .. Len(root) /\ Len(root) \in Nat /\ k = Len(root) + 1
  BY <1>1, RootIs DEF PlaceInv
<1>4. \A e \in Range(spec) : Passed(e)
  <2>1. \A e \in Range(spec) : \E n \in DOMAIN root : root[n] = e
    BY <1>2, DocumentIs
  <2>2. (k - 1) = Len(root)
    BY <1>3
  <2> QED
    BY <1>3, <2>1, <2>2 DEF Passed
<1>5. IsSeq(spec)
  BY <1>2, SpecFileAssumption DEF Acceptable, IsSeq
<1>6. DOMAIN spec = 1 .. Len(spec) /\ Len(spec) \in Nat
  BY <1>5, SeqIs
<1>7. /\ DOMAIN gen = 1 .. (NumBuiltins + Len(spec))
      /\ \A i \in 1 .. NumBuiltins : gen[i] = Builtins(1)[i]
      /\ \A m \in 1 .. Len(spec) :
           gen[NumBuiltins + m] = ObjectOf(spec[m], Len(spec[m].items), t, 1, Builtins(1) \o spec)
  BY <1>5, MeaningIs
<1>8. NumBuiltins \in Nat
  BY BuiltinsAre
<1>9. \A m \in 1 .. Len(spec) : /\ gen[NumBuiltins + m].name = spec[m].name
                                /\ gen[NumBuiltins + m].kind = spec[m].kind
  <2>1. \A m \in 1 .. Len(spec) :
          /\ ObjectOf(spec[m], Len(spec[m].items), t, 1, Builtins(1) \o spec).name = spec[m].name
          /\ ObjectOf(spec[m], Len(spec[m].items), t, 1, Builtins(1) \o spec).kind = spec[m].kind
    BY ObjIs DEF ObjectOf
  <2> QED
    BY <1>7, <2>1
<1>10. \A n \in 1 .. NumBuiltins : Builtins(1)[n].kind # "Message"
  <2>1. ASSUME NEW n \in 1 .. (NumBuiltins - 1) PROVE Builtins(1)[n].kind # "Message"
    <3>1. Builtins(1)[n] = TypeObj(Primitive[n], "Primitive", <<>>)
      BY BuiltinsAreTypes
    <3> QED
      BY <3>1, ObjIs
  <2>2. Builtins(1)[NumBuiltins].kind # "Message"
    <3>1. \E fields : Builtins(1)[NumBuiltins] = TypeObj("SsHeader", "Struct", fields)
      BY BuiltinsAreTypes
    <3> QED
      BY <3>1, ObjIs
  <2> QED
    BY <1>8, <2>1, <2>2
<1>11. ASSUME NEW n \in DOMAIN gen, gen[n].kind = "Message"
       PROVE  For(types, gen[n]).uid \in DOMAIN uid_lookup
  <2>1. n \notin 1 .. NumBuiltins
    BY <1>7, <1>10, <1>11
  <2> DEFINE m == n - NumBuiltins
  <2>2. m \in 1 .. Len(spec) /\ NumBuiltins + m = n
    BY <1>6, <1>7, <1>8, <2>1
  <2> HIDE DEF m
  <2>3. spec[m] \in Range(spec) /\ spec[m].kind = "Message" /\ spec[m].name = gen[n].name
    BY <1>6, <1>9, <1>11, <2>2 DEF Range
  <2>4. types[Named(spec[m].name)].uid \in DOMAIN uid_lookup
    BY <1>1, <1>4, <2>3 DEF LookupInv
  <2> QED
    BY <2>3, <2>4 DEF For
<1>12. ASSUME NEW uid \in DOMAIN uid_lookup
       PROVE  \E n \in DOMAIN gen : /\ gen[n].kind = "Message" /\ For(types, gen[n]).uid = uid
                                    /\ uid_lookup[uid] = Named(gen[n].name)
  <2>1. PICK e \in Range(spec) : /\ e.kind = "Message" /\ uid_lookup[uid] = Named(e.name)
                                 /\ types[Named(e.name)].uid = uid
    BY <1>1 DEF LookupInv
  <2>2. PICK m \in 1 .. Len(spec) : spec[m] = e
    BY <1>6 DEF Range
  <2>3. NumBuiltins + m \in DOMAIN gen
    BY <1>6, <1>7, <1>8
  <2> QED
    BY <1>9, <2>1, <2>2, <2>3 DEF For
<1> QED
  BY <1>11, <1>12

\* What Generated stands for; the empty string in it is no concern of the proofs.
LEMMA GeneratedIs == \E t : Generated = Meaning(spec, t, 1)
BY Zenon DEF Generated

\* Whatever the hash: a builder that was built has every type of the specification, with
\* the size that the generated libraries have unless the type contains a bitfield without
\* fields, and then with a smaller one; and with their UID unless it contains a type
\* without fields or values.  Every message can be looked up by the UID the builder has
\* for it, and what is found under a UID is a message with that UID.
ComesToSameTypes ==
  pc = "built" =>
    /\ \A n \in DOMAIN Generated :
         /\ Named(Generated[n].name) \in DOMAIN types
         /\ For(types, Generated[n]).size <= Sizes(Generated)[n]
         /\ For(types, Generated[n]).size = Sizes(Generated)[n] <=> n \notin Bitless(Generated)
         /\ n \notin Hollow(Generated) => For(types, Generated[n]).uid = Uids(Generated)[n]
         /\ Generated[n].kind = "Message" => For(types, Generated[n]).uid \in DOMAIN uid_lookup
    /\ \A uid \in DOMAIN uid_lookup : \E n \in DOMAIN Generated :
         /\ Generated[n].kind = "Message" /\ For(types, Generated[n]).uid = uid
         /\ uid_lookup[uid] = Named(Generated[n].name)

LEMMA SameTypes == DescInv => ComesToSameTypes
<1> SUFFICES ASSUME DescInv, pc = "built"
             PROVE  /\ \A n \in DOMAIN Generated :
                         /\ Named(Generated[n].name) \in DOMAIN types
                         /\ For(types, Generated[n]).size <= Sizes(Generated)[n]
                         /\ For(types, Generated[n]).size = Sizes(Generated)[n]
                              <=> n \notin Bitless(Generated)
                         /\ n \notin Hollow(Generated) =>
                              For(types, Generated[n]).uid = Uids(Generated)[n]
                         /\ Generated[n].kind = "Message" =>
                              For(types, Generated[n]).uid \in DOMAIN uid_lookup
                    /\ \A uid \in DOMAIN uid_lookup : \E n \in DOMAIN Generated :
                         /\ Generated[n].kind = "Message" /\ For(types, Generated[n]).uid = uid
                         /\ uid_lookup[uid] = Named(Generated[n].name)
  BY DEF ComesToSameTypes
<1>1. PICK t : Generated = Meaning(spec, t, 1)
  BY GeneratedIs
<1> DEFINE gen == Generated
<1>2. HoldsAll(types, gen)
  BY <1>1, Counterparts
<1>3. /\ \A n \in DOMAIN gen : gen[n].kind = "Message" => For(types, gen[n]).uid \in DOMAIN uid_lookup
      /\ \A uid \in DOMAIN uid_lookup : \E n \in DOMAIN gen :
           /\ gen[n].kind = "Message" /\ For(types, gen[n]).uid = uid
           /\ uid_lookup[uid] = Named(gen[n].name)
  BY <1>1, MessagesAre
<1>4. IsSeq(gen)
  BY <1>2 DEF HoldsAll
<1>5. Len(gen) \in Nat /\ DOMAIN gen = 1 .. Len(gen)
  BY <1>4, SeqIs
<1>6. \A n \in 1 .. Len(gen) : n \notin Hollow(gen) => For(types, gen[n]).uid = Uids(gen)[n]
  BY <1>2, <1>5, UidsAgree
<1>7. \A n \in 1 .. Len(gen) : /\ Sizes(gen)[n] \in Int /\ For(types, gen[n]).size <= Sizes(gen)[n]
                               /\ For(types, gen[n]).size = Sizes(gen)[n] <=> n \notin Bitless(gen)
  BY <1>2, <1>5, SizesAgree
<1>8. \A n \in DOMAIN gen : Named(gen[n].name) \in DOMAIN types
  BY <1>2 DEF HoldsAll
<1> QED
  BY <1>3, <1>5, <1>6, <1>7, <1>8

\* The descriptors that DescriptorBuilder ends with are the generators' types, as far as
\* ComesToSameTypes says, for every hash, collisions included.
THEOREM BuilderMatches == Spec => []ComesToSameTypes
BY SameTypes, DescInvHolds, PTL

-----------------------------------------------------------------------------
(* When no two descriptions that occur have the same hash.                 *)

\* What the CRC-32 of a type, of a field and of an array is taken of.  The UIDs of
\* the types are u.
Description(name, number, parts) == [name |-> name, n |-> number, parts |-> parts]
TypeDescription(gen, u, n) ==
  Description(gen[n].name, 0, [i \in DOMAIN gen[n].fields |-> PartUid(gen[n], u, i)])
FieldDescription(f, u) ==
  Description(f.name, 0, <<ArrayUid(u[f.type.index], f.lens)>>)
ArrayDescription(uid, length) == Description("", length, <<uid>>)

\* The first lengths of an array of arrays, and the elements that have them.
Outer(lens, m) == [l \in 1 .. m |-> lens[l]]
Element(f, u, m) == ArrayUid(u[f.type.index], Outer(f.lens, m - 1))

\* All that is hashed for the types of a specification, and their fields.
Structures(gen) == {n \in DOMAIN gen : gen[n].kind \in {"Struct", "Message"}}
Members(gen) == UNION {Range(gen[n].fields) : n \in Structures(gen)}
Hashed(gen, u) ==
  {TypeDescription(gen, u, n) : n \in {m \in DOMAIN gen : gen[m].kind # "Primitive"}}
    \cup {FieldDescription(f, u) : f \in Members(gen)}
    \cup (UNION {{ArrayDescription(Element(f, u, m), f.lens[m]) : m \in DOMAIN f.lens}
                 : f \in Members(gen)})

\* No two of some descriptions have the same CRC-32, and none has a CRC-32 of zero.
Apart(descriptions) ==
  /\ \A d, e \in descriptions : Hash(d) = Hash(e) => d = e
  /\ \A d \in descriptions : Hash(d) # NoUid

BuilderUids(map, gen) == [n \in DOMAIN gen |-> For(map, gen[n]).uid]
AllHashed(map, gen) == Hashed(gen, BuilderUids(map, gen)) \cup Hashed(gen, Uids(gen))

\* The CRC-32 tells apart what the builder and the generators have hashed for the one
\* specification that was read.
HashesApart == Apart(AllHashed(types, Generated))

LEMMA DescriptionHas ==
  ASSUME NEW name, NEW number, NEW parts, NEW name2, NEW number2, NEW parts2,
         Description(name, number, parts) = Description(name2, number2, parts2)
  PROVE  name = name2 /\ number = number2 /\ parts = parts2
<1> DEFINE d == Description(name, number, parts)
           e == Description(name2, number2, parts2)
<1>1. /\ d.name = name /\ d.n = number /\ d.parts = parts
      /\ e.name = name2 /\ e.n = number2 /\ e.parts = parts2
  BY DEF Description
<1> HIDE DEF d, e
<1>2. d = e
  BY DEF d, e
<1> QED
  BY <1>1, <1>2

\* The hashes are those of descriptions.
LEMMA HashesOf ==
  /\ \A name, uids : TypeHash(name, uids) = Hash(Description(name, 0, uids))
  /\ \A name, uid : FieldHash(name, uid) = Hash(Description(name, 0, <<uid>>))
  /\ \A uid, length : ArrayHash(uid, length) = Hash(ArrayDescription(uid, length))
<1>1. \A uid, length : ArrayHash(uid, length) = Hash(ArrayDescription(uid, length))
  BY Zenon DEF ArrayHash, ArrayDescription, Description
<1> QED
  BY <1>1 DEF TypeHash, FieldHash, Description

LEMMA ArrayDescriptionHas ==
  ASSUME NEW uid, NEW uid2, NEW length, NEW length2,
         ArrayDescription(uid, length) = ArrayDescription(uid2, length2)
  PROVE  uid = uid2
<1>1. \A x, y : Description(x, length, <<uid>>) = Description(y, length2, <<uid2>>) => <<uid>> = <<uid2>>
  BY DescriptionHas
<1>2. \E x, y : Description(x, length, <<uid>>) = Description(y, length2, <<uid2>>)
  BY Zenon DEF ArrayDescription
<1>3. <<uid>> = <<uid2>>
  BY <1>1, <1>2
<1> QED
  BY <1>3

LEMMA TypeIsHashed ==
  ASSUME NEW gen, NEW u, NEW n \in DOMAIN gen, gen[n].kind # "Primitive"
  PROVE  TypeDescription(gen, u, n) \in Hashed(gen, u)
BY DEF Hashed

LEMMA FieldIsHashed ==
  ASSUME NEW gen, NEW u, NEW f \in Members(gen)
  PROVE  /\ FieldDescription(f, u) \in Hashed(gen, u)
         /\ \A m \in DOMAIN f.lens : ArrayDescription(Element(f, u, m), f.lens[m]) \in Hashed(gen, u)
BY DEF Hashed

\* Arrays of different elements differ.
LEMMA ArraysDiffer ==
  ASSUME NEW gen, NEW u, NEW v, Apart(Hashed(gen, u) \cup Hashed(gen, v)),
         NEW f \in Members(gen), IsSeq(f.lens), u[f.type.index] # v[f.type.index]
  PROVE  ArrayUid(u[f.type.index], f.lens) # ArrayUid(v[f.type.index], f.lens)
<1> DEFINE lens == f.lens
           a == u[f.type.index]
           b == v[f.type.index]
           L == Len(lens)
           K == {m \in Nat : m <= L => ArrayUid(a, Outer(lens, m)) # ArrayUid(b, Outer(lens, m))}
<1>1. L \in Nat /\ DOMAIN lens = 1 .. L /\ a # b
  BY SeqIs
<1>2. \A m \in DOMAIN lens :
        /\ ArrayDescription(Element(f, u, m), lens[m]) \in Hashed(gen, u)
        /\ ArrayDescription(Element(f, v, m), lens[m]) \in Hashed(gen, v)
  BY FieldIsHashed
<1>3. \A m \in Nat : DOMAIN Outer(lens, m) = 1 .. m /\ \A l \in 1 .. m : Outer(lens, m)[l] = lens[l]
  BY DEF Outer
<1>4. \A m : Element(f, u, m) = ArrayUid(a, Outer(lens, m - 1)) /\ Element(f, v, m) = ArrayUid(b, Outer(lens, m - 1))
  BY DEF Element
<1>5. Outer(lens, L) = lens
  <2>1. IsSeq(lens) /\ lens = [l \in DOMAIN lens |-> lens[l]]
    BY DEF IsSeq
  <2> QED
    BY <1>1, <2>1 DEF Outer
<1> HIDE DEF lens, a, b, L
<1>6. 0 \in K
  <2>1. DOMAIN Outer(lens, 0) = {}
    BY <1>3
  <2>2. ArrayUid(a, Outer(lens, 0)) = a /\ ArrayUid(b, Outer(lens, 0)) = b
    BY <2>1, ArrayUidIsFold, ArrayUidFold!FoldNone
  <2> QED
    BY <1>1, <2>2
<1>7. ASSUME NEW m \in Nat, m \in K PROVE m + 1 \in K
  <2> DEFINE x == ArrayUid(a, Outer(lens, m))
             y == ArrayUid(b, Outer(lens, m))
             xs == ArrayUid(a, Outer(lens, m + 1))
             ys == ArrayUid(b, Outer(lens, m + 1))
  <2> SUFFICES ASSUME m + 1 <= L PROVE xs # ys
    OBVIOUS
  <2>1. m + 1 \in DOMAIN lens /\ (m + 1) - 1 = m /\ x # y /\ m + 1 \in Nat
    BY <1>1, <1>7
  <2>2. /\ DOMAIN Outer(lens, m) = 1 .. m /\ DOMAIN Outer(lens, m + 1) = 1 .. (m + 1)
        /\ \A l \in 1 .. m : Outer(lens, m + 1)[l] = Outer(lens, m)[l]
        /\ Outer(lens, m + 1)[m + 1] = lens[m + 1]
    BY <1>3, <2>1
  <2>3. xs = ArrayHash(x, lens[m + 1]) /\ ys = ArrayHash(y, lens[m + 1])
    BY <2>2, ArrayUidOneMore
  <2>4. /\ ArrayDescription(x, lens[m + 1]) \in Hashed(gen, u)
        /\ ArrayDescription(y, lens[m + 1]) \in Hashed(gen, v)
    BY <1>2, <1>4, <2>1
  <2> HIDE DEF x, y, xs, ys
  <2>5. xs = ys => ArrayDescription(x, lens[m + 1]) = ArrayDescription(y, lens[m + 1])
    BY <2>3, <2>4, HashesOf DEF Apart
  <2> QED
    BY <2>1, <2>5, ArrayDescriptionHas
<1>8. \A m \in Nat : m \in K
  <2> HIDE DEF K
  <2> QED
    BY <1>6, <1>7, BitFold!Induction
<1>9. ArrayUid(a, lens) # ArrayUid(b, lens)
  BY <1>1, <1>5, <1>8
<1> QED
  BY <1>9 DEF a, b, lens

\* The UID of a structure in the map is the hash of its description.
LEMMA BuilderUidIs ==
  ASSUME NEW gen, NEW map, HoldsAll(map, gen), FoundFirst(gen), NEW n \in Structures(gen),
         Len(For(map, gen[n]).fields) # 0
  PROVE  For(map, gen[n]).uid = Hash(TypeDescription(gen, BuilderUids(map, gen), n))
<1> DEFINE g == gen[n]
           o == For(map, g)
           u == BuilderUids(map, gen)
<1>1. n \in DOMAIN gen /\ g.kind \in {"Struct", "Message"} /\ g.kind # "Primitive"
  BY DEF Structures
<1>2. AsMembers(o, g) /\ AsStructure(o, g, gen, n, map)
  BY <1>1 DEF HoldsAll, StandsFor
<1>3. DOMAIN g.fields = 1 .. Len(o.fields)
  BY <1>2, SeqIs DEF AsMembers
<1>4. o.uid = TypeHash(g.name, [i \in 1 .. Len(o.fields) |-> o.fields[i].uid])
  BY <1>2 DEF AsMembers, MembersUid
<1>5. ASSUME NEW i \in DOMAIN g.fields PROVE o.fields[i].uid = PartUid(g, u, i)
  <2>1. SameMember(o.fields[i], g.fields[i], gen, n)
    BY <1>2, <1>3 DEF AsStructure
  <2>2. g.fields[i].type.index \in DOMAIN gen
    <3>1. IsSeq(gen) /\ g.fields[i].type.index \in 1 .. (n - 1)
      BY <2>1 DEF SameMember, HoldsAll
    <3>2. DOMAIN gen = 1 .. Len(gen) /\ Len(gen) \in Nat
      BY <3>1, SeqIs
    <3> QED
      BY <1>1, <3>1, <3>2
  <2>3. u[g.fields[i].type.index] = For(map, gen[g.fields[i].type.index]).uid
    BY <2>2 DEF BuilderUids
  <2>4. o.fields[i].uid = FieldHash(g.fields[i].name, ArrayUid(u[g.fields[i].type.index], g.fields[i].lens))
    BY <1>1, <2>3, FieldUidIs
  <2> QED
    BY <1>1, <2>4 DEF PartUid
<1> HIDE DEF g, o, u
<1>6. [i \in 1 .. Len(o.fields) |-> o.fields[i].uid] = [i \in DOMAIN g.fields |-> PartUid(g, u, i)]
  BY <1>3, <1>5
<1>7. o.uid = Hash(Description(g.name, 0, [i \in DOMAIN g.fields |-> PartUid(g, u, i)]))
  BY <1>4, <1>6, HashesOf
<1> QED
  BY <1>7 DEF TypeDescription, g, o, u

\* The UID of a type that contains one without members is another.
LEMMA UidsDiffer ==
  ASSUME NEW gen, NEW map, HoldsAll(map, gen), Apart(AllHashed(map, gen)),
         NEW N \in Nat, DOMAIN gen = 1 .. N
  PROVE  \A n \in 1 .. N : n \in Hollow(gen) => For(map, gen[n]).uid # Uids(gen)[n]
<1> DEFINE uids == Uids(gen)
           u == BuilderUids(map, gen)
           Good(n) == n \in Hollow(gen) => For(map, gen[n]).uid # uids[n]
           K == {n \in Nat : n <= N => \A x \in 1 .. n : Good(x)}
<1>1. FoundFirst(gen)
  BY TypesAreFoundFirst
<1>2. \A n \in 1 .. N : uids[n] = TypeUid(gen[n], uids)
  BY <1>1, UidsAre
<1>3. \A n \in 1 .. N :
        n \in Hollow(gen) <=> Reaches(gen, Empty(gen, {"Enum", "Bitfield", "Struct"}), Hollow(gen), n)
  BY <1>1, ContainingIs DEF Hollow
<1>8. Apart(Hashed(gen, u) \cup Hashed(gen, uids))
  BY DEF AllHashed
<1>9. \A n \in 1 .. N : u[n] = For(map, gen[n]).uid
  BY DEF BuilderUids
<1>10. \A n \in Structures(gen) : Len(For(map, gen[n]).fields) # 0 =>
          For(map, gen[n]).uid = Hash(TypeDescription(gen, u, n))
  BY <1>1, BuilderUidIs
<1> HIDE DEF uids, u
<1>4. 0 \in K
  OBVIOUS
<1>5. ASSUME NEW n \in Nat, n \in K PROVE n + 1 \in K
  <2> HIDE DEF K
  <2>1. SUFFICES ASSUME n + 1 <= N PROVE \A x \in 1 .. (n + 1) : Good(x)
    BY DEF K
  <2>2. \A x \in 1 .. n : Good(x)
    BY <1>5, <2>1 DEF K
  <2> DEFINE at == n + 1
             g == gen[at]
             o == For(map, g)
  <2>3. at \in 1 .. N /\ at - 1 = n /\ at \in DOMAIN gen
    BY <2>1
  <2> HIDE DEF at
  <2>4. Good(at)
    <3> SUFFICES ASSUME at \in Hollow(gen) PROVE o.uid # uids[at]
      OBVIOUS
    <3>1. Reaches(gen, Empty(gen, {"Enum", "Bitfield", "Struct"}), Hollow(gen), at)
      BY <1>3, <2>3
    <3>2. StandsFor(o, gen, at, map)
      BY <2>3 DEF HoldsAll
    <3>3. g.kind # "Primitive"
      BY <2>3, <3>1 DEF Reaches, Empty
    <3>4. AsMembers(o, g)
      BY <3>2, <3>3 DEF StandsFor
    <3>5. DOMAIN g.fields = 1 .. Len(o.fields)
      BY <3>4, SeqIs DEF AsMembers
    <3>6. Len(o.fields) = 0 => o.uid = NoUid
      BY <3>4 DEF AsMembers
    <3>7. uids[at] = Hash(TypeDescription(gen, uids, at))
      <4>1. uids[at] = TypeHash(g.name, [i \in DOMAIN g.fields |-> PartUid(g, uids, i)])
        BY <1>2, <2>3, <3>3, TypeUidIs
      <4> QED
        BY <4>1, HashesOf DEF TypeDescription
    <3>8. TypeDescription(gen, uids, at) \in Hashed(gen, uids)
      BY <2>3, <3>3, TypeIsHashed
    <3>9. CASE Len(o.fields) = 0
      BY <1>8, <3>6, <3>7, <3>8, <3>9 DEF Apart
    <3>10. CASE Len(o.fields) # 0
      <4>1. at \notin Empty(gen, {"Enum", "Bitfield", "Struct"})
        <5> SUFFICES ASSUME g.fields = <<>> PROVE FALSE
          BY DEF Empty
        <5>1. Len(g.fields) = 0
          OBVIOUS
        <5> QED
          BY <3>4, <3>10, <5>1 DEF AsMembers
      <4>2. PICK i \in DOMAIN g.fields : g.fields[i].type.index \in Hollow(gen)
        BY <3>1, <4>1 DEF Reaches
      <4>3. g.kind \in {"Struct", "Message"} /\ at \in Structures(gen) /\ g.fields[i] \in Members(gen)
        BY <2>3, <3>1, <4>1, <4>2 DEF Reaches, Structures, Members, Range
      <4> DEFINE idx == g.fields[i].type.index
                 lens == g.fields[i].lens
      <4>4. idx \in 1 .. n /\ IsSeq(lens)
        <5>1. i \in 1 .. Len(o.fields)
          BY <3>5
        <5>2. SameMember(o.fields[i], g.fields[i], gen, at)
          BY <3>2, <4>3, <5>1 DEF StandsFor, AsStructure
        <5>3. idx \in 1 .. (at - 1) /\ lens \in Seq(Int)
          BY <5>2 DEF SameMember
        <5> QED
          BY <2>3, <5>3, SeqOfSome
      <4>5. u[idx] # uids[idx]
        <5>1. idx \in 1 .. N
          BY <2>3, <4>4
        <5> QED
          BY <1>9, <2>2, <4>2, <4>4, <5>1
      <4>6. ArrayUid(u[idx], lens) # ArrayUid(uids[idx], lens)
        BY <1>8, <4>3, <4>4, <4>5, ArraysDiffer
      <4>7. /\ PartUid(g, u, i) = Hash(FieldDescription(g.fields[i], u))
            /\ PartUid(g, uids, i) = Hash(FieldDescription(g.fields[i], uids))
        BY <4>3, HashesOf DEF PartUid, FieldDescription
      <4>8. FieldDescription(g.fields[i], u) # FieldDescription(g.fields[i], uids)
        <5> SUFFICES ASSUME FieldDescription(g.fields[i], u) = FieldDescription(g.fields[i], uids)
                     PROVE  FALSE
          OBVIOUS
        <5>1. <<ArrayUid(u[idx], lens)>> = <<ArrayUid(uids[idx], lens)>>
          BY DescriptionHas DEF FieldDescription
        <5> QED
          BY <4>6, <5>1
      <4>9. /\ FieldDescription(g.fields[i], u) \in Hashed(gen, u)
            /\ FieldDescription(g.fields[i], uids) \in Hashed(gen, uids)
        BY <4>3, FieldIsHashed
      <4>10. PartUid(g, u, i) # PartUid(g, uids, i)
        BY <1>8, <4>7, <4>8, <4>9 DEF Apart
      <4>11. TypeDescription(gen, u, at) # TypeDescription(gen, uids, at)
        <5> SUFFICES ASSUME TypeDescription(gen, u, at) = TypeDescription(gen, uids, at) PROVE FALSE
          OBVIOUS
        <5>1. [l \in DOMAIN g.fields |-> PartUid(g, u, l)] = [l \in DOMAIN g.fields |-> PartUid(g, uids, l)]
          BY DescriptionHas DEF TypeDescription
        <5> QED
          BY <4>10, <5>1
      <4>12. TypeDescription(gen, u, at) \in Hashed(gen, u)
        BY <2>3, <3>3, TypeIsHashed
      <4>13. o.uid = Hash(TypeDescription(gen, u, at))
        BY <1>10, <3>10, <4>3
      <4> QED
        BY <1>8, <3>7, <3>8, <4>11, <4>12, <4>13 DEF Apart
    <3> QED
      BY <3>9, <3>10
  <2>5. ASSUME NEW x \in 1 .. (n + 1) PROVE Good(x)
    <3> HIDE DEF Good
    <3>1. x \in 1 .. n \/ x = at
      BY DEF at
    <3> QED
      BY <2>2, <2>4, <3>1
  <2> QED
    BY <2>5
<1>6. \A n \in Nat : n \in K
  <2> HIDE DEF K
  <2> QED
    BY <1>4, <1>5, BitFold!Induction
<1>7. \A x \in 1 .. N : Good(x)
  <2> HIDE DEF Good
  <2> QED
    BY <1>6
<1> QED
  BY <1>7 DEF uids

\* Two messages have different UIDs.
LEMMA MessagesDiffer ==
  ASSUME NEW gen, NEW map, HoldsAll(map, gen), Apart(AllHashed(map, gen)), Distinct(gen),
         NEW a \in DOMAIN gen, gen[a].kind = "Message",
         NEW b \in DOMAIN gen, gen[b].kind = "Message",
         For(map, gen[a]).uid = For(map, gen[b]).uid
  PROVE  a = b
<1> DEFINE u == BuilderUids(map, gen)
<1>1. ASSUME NEW n \in DOMAIN gen, gen[n].kind = "Message"
      PROVE  /\ For(map, gen[n]).uid = Hash(TypeDescription(gen, u, n))
             /\ TypeDescription(gen, u, n) \in AllHashed(map, gen)
  <2>1. n \in Structures(gen) /\ gen[n].kind # "Primitive"
    BY <1>1 DEF Structures
  <2>2. AsStructure(For(map, gen[n]), gen[n], gen, n, map)
    BY <1>1 DEF HoldsAll, StandsFor
  <2>3. Len(For(map, gen[n]).fields) # 0
    BY <1>1, <2>2 DEF AsStructure
  <2> QED
    BY <2>1, <2>3, TypesAreFoundFirst, BuilderUidIs, TypeIsHashed DEF AllHashed
<1>2. TypeDescription(gen, u, a) = TypeDescription(gen, u, b)
  BY <1>1 DEF Apart
<1>3. gen[a].name = gen[b].name
  BY <1>2, DescriptionHas DEF TypeDescription
<1> QED
  BY <1>3 DEF Distinct

\* Where the CRC-32 tells apart the descriptions that occur for the specification that
\* was read, the builder has the sizes and UIDs of the generated libraries for just the
\* types it can have them for, and finds just the messages, each by the UID that the
\* generated library sends it with.
THEOREM Agreement == Spec => [](HashesApart => AgreesWithGenerators)
<1>1. DescInv => (HashesApart => AgreesWithGenerators)
  <2> SUFFICES ASSUME DescInv, HashesApart, pc = "built" PROVE AgreesWithGenerators
    BY DEF AgreesWithGenerators
  <2>1. PICK t : Generated = Meaning(spec, t, 1)
    BY GeneratedIs
  <2> DEFINE gen == Generated
             messages == {n \in DOMAIN gen : gen[n].kind = "Message"}
             f == [n \in messages |-> For(types, gen[n]).uid]
  <2>2. HoldsAll(types, gen)
    BY <2>1, Counterparts
  <2>12. Apart(AllHashed(types, gen))
    BY DEF HashesApart
  <2>3. IsSeq(gen)
    BY <2>2 DEF HoldsAll
  <2>4. Len(gen) \in Nat /\ DOMAIN gen = 1 .. Len(gen)
    BY <2>3, SeqIs
  <2>5. Distinct(gen)
    <3>1. spec \in SpecFile
      BY DEF DescInv, SpecInv
    <3>2. Placed(Builtins(1) \o spec, gen, NumBuiltins + Len(spec))
      BY <2>1, <3>1, PlacesAre, SpecFileAssumption
    <3> HIDE DEF gen
    <3> QED
      BY <3>2 DEF Placed, Distinct
  <2>6. /\ \A n \in DOMAIN gen :
             /\ Named(gen[n].name) \in DOMAIN types
             /\ For(types, gen[n]).size = Sizes(gen)[n] <=> n \notin Bitless(gen)
             /\ n \notin Hollow(gen) => For(types, gen[n]).uid = Uids(gen)[n]
             /\ gen[n].kind = "Message" => For(types, gen[n]).uid \in DOMAIN uid_lookup
        /\ \A uid \in DOMAIN uid_lookup : \E n \in DOMAIN gen :
             /\ gen[n].kind = "Message" /\ For(types, gen[n]).uid = uid
             /\ uid_lookup[uid] = Named(gen[n].name)
    BY SameTypes DEF ComesToSameTypes
  <2> HIDE DEF gen
  <2>7. \A n \in DOMAIN gen : n \in Hollow(gen) => For(types, gen[n]).uid # Uids(gen)[n]
    BY <2>2, <2>4, <2>12, UidsDiffer
  <2>8. \A a, b \in messages : For(types, gen[a]).uid = For(types, gen[b]).uid => a = b
    BY <2>2, <2>5, <2>12, MessagesDiffer
  <2>9. Cardinality(DOMAIN uid_lookup) = Cardinality(messages)
    <3>1. f \in [messages -> DOMAIN uid_lookup]
      BY <2>6
    <3>2. \A uid \in DOMAIN uid_lookup : \E n \in messages : f[n] = uid
      BY <2>6
    <3>3. \A a, b \in messages : f[a] = f[b] => a = b
      BY <2>8
    <3>4. IsFiniteSet(messages)
      <4>1. IsFiniteSet(1 .. Len(gen))
        BY <2>4, FS_Interval
      <4>2. messages \in SUBSET (1 .. Len(gen))
        BY <2>4
      <4> QED
        BY <4>1, <4>2, FS_Subset
    <3> HIDE DEF f, messages
    <3>5. f \in Bijection(messages, DOMAIN uid_lookup)
      BY <3>1, <3>2, <3>3 DEF Bijection, Injection, Surjection, IsInjective
    <3>6. ExistsBijection(messages, DOMAIN uid_lookup)
      BY <3>5 DEF ExistsBijection
    <3> QED
      BY <3>4, <3>6, FS_Bijection
  <2>10. ASSUME NEW n \in messages, n \notin Hollow(gen)
         PROVE  Uids(gen)[n] \in DOMAIN uid_lookup /\ uid_lookup[Uids(gen)[n]] = Named(gen[n].name)
    <3>1. For(types, gen[n]).uid = Uids(gen)[n] /\ For(types, gen[n]).uid \in DOMAIN uid_lookup
      BY <2>6, <2>10
    <3>2. PICK m \in DOMAIN gen : /\ gen[m].kind = "Message"
                                  /\ For(types, gen[m]).uid = For(types, gen[n]).uid
                                  /\ uid_lookup[For(types, gen[n]).uid] = Named(gen[m].name)
      BY <2>6, <3>1
    <3>3. m = n
      BY <2>8, <3>2
    <3> QED
      BY <3>1, <3>2, <3>3
  <2>11. ASSUME NEW n \in DOMAIN gen
         PROVE  /\ Named(gen[n].name) \in DOMAIN types
                /\ types[Named(gen[n].name)].uid = Uids(gen)[n] <=> n \notin Hollow(gen)
                /\ types[Named(gen[n].name)].size = Sizes(gen)[n] <=> n \notin Bitless(gen)
    BY <2>6, <2>7 DEF For
  <2> QED
    BY <2>9, <2>10, <2>11 DEF AgreesWithGenerators, Hollow, Bitless, gen
<1> QED
  BY <1>1, DescInvHolds, PTL

=============================================================================
