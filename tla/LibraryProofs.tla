---------------------------- MODULE LibraryProofs ---------------------------
(***************************************************************************)
(* Which specifications have libraries that compile, for any               *)
(* specifications, primitive types, names and hash: a C or a C++ source,   *)
(* with its header, is well-formed exactly when none of the flaws that     *)
(* CRefuses or CcRefuses lists is in the specification.  Identifiers are   *)
(* resolved scope by scope, as a compiler of C does it and as one of C++.  *)
(***************************************************************************)
EXTENDS SpecParserProofs

-----------------------------------------------------------------------------
(* Which specifications have a C library that compiles.                    *)

\* What an identifier is of tells how it is stated.
LEMMA StatesOf ==
  ASSUME NEW types, NEW a, NEW x, NEW p
  PROVE  /\ TypeStates(types, a, x, p) =>
              a.of = "type" \/ (a.of = "library" /\ a.name \in {"SsMsgType", "SsStatus"})
         /\ VariableStates(types, a, x, p) => a.of = "library" /\ a.name \in CVariables
         /\ FunctionStates(types, a, x, p) =>
              a.of \in {"pack", "unpack", "log"} \/ (a.of = "library" /\ a.name \in CFunctions)
         /\ EnumStates(types, a, x, p) => a.of = "enum"
<1>1. ASSUME TypeStates(types, a, x, p)
      PROVE  a.of = "type" \/ (a.of = "library" /\ a.name \in {"SsMsgType", "SsStatus"})
  <2>1. \/ \E n : a = TypeId(types, n)
        \/ a = LibraryId("SsMsgType") \/ a = LibraryId("SsStatus")
    BY <1>1 DEF TypeStates
  <2> QED
    BY <2>1, TypeIdIs, LibraryIdIs
<1>2. ASSUME VariableStates(types, a, x, p) PROVE a.of = "library" /\ a.name \in CVariables
  <2>1. PICK v \in CVariables : a = LibraryId(v)
    BY <1>2 DEF VariableStates
  <2> QED
    BY <2>1, LibraryIdIs
<1>3. ASSUME FunctionStates(types, a, x, p)
      PROVE  a.of \in {"pack", "unpack", "log"} \/ (a.of = "library" /\ a.name \in CFunctions)
  <2>1. CASE \E f \in CFunctions : a = LibraryId(f)
    BY <2>1, LibraryIdIs
  <2>2. CASE \E n : a = PackId(types, n)
    BY <2>2, PackIdIs
  <2>3. CASE \E n : a = UnpackId(types, n)
    BY <2>3, UnpackIdIs
  <2>4. CASE \E n : a = LogId(types, n)
    BY <2>4, LogIdIs
  <2> QED
    BY <1>3, <2>1, <2>2, <2>3, <2>4 DEF FunctionStates
<1>4. ASSUME EnumStates(types, a, x, p) PROVE a.of = "enum"
  <2>1. PICK e, n : a = EnumId(e, n)
    BY <1>4 DEF EnumStates
  <2> QED
    BY <2>1, EnumIdIs
<1> QED
  BY <1>1, <1>2, <1>3, <1>4

\* No type that is declared has the name of an enum of the library.
OwnNames(types) == \A t \in Range(Declared(types)) : t.name \notin {"SsMsgType", "SsStatus"}

LEMMA EnumNamed ==
  ASSUME NEW types, Usable(types), OwnNames(types),
         NEW e \in CEnums(types), NEW f \in CEnums(types), e.name = f.name
  PROVE  e = f
<1> DEFINE D == Declared(types)
<1>1. MessageEnum(types).name = "SsMsgType" /\ LibraryEnum.name = "SsStatus"
  BY DEF MessageEnum, LibraryEnum
<1>2. Distinct(D)
  BY UsableHas, OfKindHas DEF Declared
<1>3. \A g \in CEnums(types) :
        \/ g = MessageEnum(types) \/ g = LibraryEnum
        \/ \E i \in DOMAIN D : D[i].name \notin {"SsMsgType", "SsStatus"} /\ g = EnumOf(D[i])
  BY EnumsAre DEF OwnNames, Range
<1> HIDE DEF D
<1>4. \A t : EnumOf(t).name = t.name
  BY DEF EnumOf
<1> QED
  BY <1>1, <1>2, <1>3, <1>4 DEF Distinct

LEMMA EnumPlaces ==
  ASSUME NEW types, Usable(types), NEW e, NEW f, NEW p, EnumPlace(types, e, p)
  PROVE  /\ EnumPlace(types, f, p) => e = f
         /\ OwnNames(types) => \A q : EnumPlace(types, e, q) => p = q
<1>1. \A t, r : DeclaredAt(types, t, r) => t \in Range(Declared(types)) /\ r # 3 /\ r # 4
  BY DeclaredPlaces
<1>2. \A t, u, r : DeclaredAt(types, t, r) /\ DeclaredAt(types, u, r) => t = u
  BY DeclaredPlaces
<1>3. \A t, r, s : DeclaredAt(types, t, r) /\ DeclaredAt(types, t, s) => r = s
  BY DeclaredPlaces
<1>4. ASSUME EnumPlace(types, f, p) PROVE e = f
  BY <1>1, <1>2, <1>4 DEF EnumPlace
<1>5. ASSUME OwnNames(types), NEW q, EnumPlace(types, e, q) PROVE p = q
  <2>1. /\ MessageEnum(types).name = "SsMsgType" /\ LibraryEnum.name = "SsStatus"
        /\ \A t : EnumOf(t).name = t.name
    BY DEF MessageEnum, LibraryEnum, EnumOf
  <2>2. \A t, u \in Range(Declared(types)) : EnumOf(t) = EnumOf(u) => t = u
    <3> DEFINE D == Declared(types)
    <3>1. Distinct(D)
      BY UsableHas, OfKindHas DEF Declared
    <3> HIDE DEF D
    <3>2. \A t, u \in Range(D) : t.name = u.name => t = u
      BY <3>1 DEF Range, Distinct
    <3>3. \A t, u \in Range(D) : EnumOf(t) = EnumOf(u) => t.name = u.name
      BY <2>1
    <3> QED
      BY <3>2, <3>3 DEF D
  <2>3. \A t, r : e = EnumOf(t) /\ DeclaredAt(types, t, r) => e # MessageEnum(types) /\ e # LibraryEnum
    BY <1>1, <1>5, <2>1 DEF OwnNames
  <2>4. MessageEnum(types) # LibraryEnum
    BY <2>1
  <2>5. CASE e = MessageEnum(types) \/ e = LibraryEnum
    BY <1>5, <2>3, <2>4, <2>5 DEF EnumPlace
  <2>6. CASE e # MessageEnum(types) /\ e # LibraryEnum
    <3>1. PICK t : e = EnumOf(t) /\ DeclaredAt(types, t, p)
      BY <2>6 DEF EnumPlace
    <3>2. PICK u : e = EnumOf(u) /\ DeclaredAt(types, u, q)
      BY <1>5, <2>6 DEF EnumPlace
    <3> QED
      BY <1>1, <1>3, <2>2, <3>1, <3>2
  <2> QED
    BY <2>5, <2>6
<1> QED
  BY <1>4, <1>5

\* An identifier is stated by one fact, and at one place unless it is a function.
LEMMA CUnique ==
  ASSUME NEW types, Usable(types), OwnNames(types), NEW a, NEW x, NEW p, CStates(types, a, x, p),
         NEW y, NEW q, CStates(types, a, y, q)
  PROVE  x = y /\ p = q
<1>1. \A t, r, s : DeclaredAt(types, t, r) /\ DeclaredAt(types, t, s) => r = s
  BY DeclaredPlaces
<1>2. CASE TypeStates(types, a, x, p) /\ TypeStates(types, a, y, q)
  <2>1. CASE a.of = "type"
    <3>1. PICK m \in DOMAIN types :
            a = TypeId(types, m) /\ x = Type(CTypeName(types[m].name)) /\ TypePlace(types, m, p)
      BY <1>2, <2>1, LibraryIdIs DEF TypeStates
    <3>2. PICK n \in DOMAIN types :
            a = TypeId(types, n) /\ y = Type(CTypeName(types[n].name)) /\ TypePlace(types, n, q)
      BY <1>2, <2>1, LibraryIdIs DEF TypeStates
    <3>3. a.n = m
      BY <3>1, TypeIdIs
    <3>4. a.n = n
      BY <3>2, TypeIdIs
    <3> QED
      BY <1>1, <3>1, <3>2, <3>3, <3>4 DEF TypePlace
  <2>2. CASE a.of # "type"
    <3>1. \/ a = LibraryId("SsMsgType") /\ x = Type("SsMsgType") /\ p = 3
          \/ a = LibraryId("SsStatus") /\ x = Type("SsStatus") /\ p = 4
      BY <1>2, <2>2, TypeIdIs DEF TypeStates
    <3>2. \/ a = LibraryId("SsMsgType") /\ y = Type("SsMsgType") /\ q = 3
          \/ a = LibraryId("SsStatus") /\ y = Type("SsStatus") /\ q = 4
      BY <1>2, <2>2, TypeIdIs DEF TypeStates
    <3>3. LibraryId("SsMsgType").name # LibraryId("SsStatus").name
      BY LibraryIdIs
    <3> QED
      BY <3>1, <3>2, <3>3
  <2> QED
    BY <2>1, <2>2
<1>3. CASE VariableStates(types, a, x, p) /\ VariableStates(types, a, y, q)
  <2>1. PICK v \in CVariables : a = LibraryId(v) /\ x = Variable(v) /\ p = VariablePlace(types, v)
    BY <1>3 DEF VariableStates
  <2>2. PICK w \in CVariables : a = LibraryId(w) /\ y = Variable(w) /\ q = VariablePlace(types, w)
    BY <1>3 DEF VariableStates
  <2>3. a.name = v
    BY <2>1, LibraryIdIs
  <2>4. a.name = w
    BY <2>2, LibraryIdIs
  <2> QED
    BY <2>1, <2>2, <2>3, <2>4
<1>4. CASE FunctionStates(types, a, x, p) /\ FunctionStates(types, a, y, q)
  <2>1. CASE a.of = "library"
    <3>1. PICK f \in CFunctions : a = LibraryId(f) /\ x = Function(f, FunctionType(f))
      BY <1>4, <2>1, PackIdIs, UnpackIdIs, LogIdIs DEF FunctionStates
    <3>2. PICK g \in CFunctions : a = LibraryId(g) /\ y = Function(g, FunctionType(g))
      BY <1>4, <2>1, PackIdIs, UnpackIdIs, LogIdIs DEF FunctionStates
    <3>3. a.name = f
      BY <3>1, LibraryIdIs
    <3>4. a.name = g
      BY <3>2, LibraryIdIs
    <3> QED
      BY <1>4, <3>1, <3>2, <3>3, <3>4 DEF FunctionStates
  <2>2. CASE a.of = "pack"
    <3>1. PICK m \in DOMAIN types : a = PackId(types, m) /\ x = PackFact(types[m])
      BY <1>4, <2>2, LibraryIdIs, UnpackIdIs, LogIdIs DEF FunctionStates
    <3>2. PICK n \in DOMAIN types : a = PackId(types, n) /\ y = PackFact(types[n])
      BY <1>4, <2>2, LibraryIdIs, UnpackIdIs, LogIdIs DEF FunctionStates
    <3>3. a.n = m
      BY <3>1, PackIdIs
    <3>4. a.n = n
      BY <3>2, PackIdIs
    <3> QED
      BY <1>4, <3>1, <3>2, <3>3, <3>4 DEF FunctionStates
  <2>3. CASE a.of = "unpack"
    <3>1. PICK m \in DOMAIN types : a = UnpackId(types, m) /\ x = UnpackFact(types[m])
      BY <1>4, <2>3, LibraryIdIs, PackIdIs, LogIdIs DEF FunctionStates
    <3>2. PICK n \in DOMAIN types : a = UnpackId(types, n) /\ y = UnpackFact(types[n])
      BY <1>4, <2>3, LibraryIdIs, PackIdIs, LogIdIs DEF FunctionStates
    <3>3. a.n = m
      BY <3>1, UnpackIdIs
    <3>4. a.n = n
      BY <3>2, UnpackIdIs
    <3> QED
      BY <1>4, <3>1, <3>2, <3>3, <3>4 DEF FunctionStates
  <2>4. CASE a.of = "log"
    <3>1. PICK m \in DOMAIN types : a = LogId(types, m) /\ x = LogFact(types[m])
      BY <1>4, <2>4, LibraryIdIs, PackIdIs, UnpackIdIs DEF FunctionStates
    <3>2. PICK n \in DOMAIN types : a = LogId(types, n) /\ y = LogFact(types[n])
      BY <1>4, <2>4, LibraryIdIs, PackIdIs, UnpackIdIs DEF FunctionStates
    <3>3. a.n = m
      BY <3>1, LogIdIs
    <3>4. a.n = n
      BY <3>2, LogIdIs
    <3> QED
      BY <1>4, <3>1, <3>2, <3>3, <3>4 DEF FunctionStates
  <2> QED
    BY <1>4, <2>1, <2>2, <2>3, <2>4, StatesOf
<1>5. CASE EnumStates(types, a, x, p) /\ EnumStates(types, a, y, q)
  <2>1. PICK e \in CEnums(types) : \E m \in DOMAIN Spelled(e) :
          a = EnumId(e, m) /\ x = EnumFact(e, m) /\ EnumPlace(types, e, p)
    BY <1>5 DEF EnumStates
  <2>2. PICK m : a = EnumId(e, m) /\ x = EnumFact(e, m) /\ EnumPlace(types, e, p)
    BY <2>1
  <2>3. PICK f \in CEnums(types) : \E n \in DOMAIN Spelled(f) :
          a = EnumId(f, n) /\ y = EnumFact(f, n) /\ EnumPlace(types, f, q)
    BY <1>5 DEF EnumStates
  <2>4. PICK n : a = EnumId(f, n) /\ y = EnumFact(f, n) /\ EnumPlace(types, f, q)
    BY <2>3
  <2>5. a.enum = e.name /\ a.n = m
    BY <2>2, EnumIdIs
  <2>6. a.enum = f.name /\ a.n = n
    BY <2>4, EnumIdIs
  <2>7. e = f
    BY <2>5, <2>6, EnumNamed
  <2>8. p = q
    BY <2>2, <2>4, <2>7, EnumPlaces
  <2> QED
    BY <2>2, <2>4, <2>5, <2>6, <2>7, <2>8
<1>6. {"SsMsgType", "SsStatus"} \cap CVariables = {} /\ {"SsMsgType", "SsStatus"} \cap CFunctions = {}
      /\ CVariables \cap CFunctions = {}
  BY DEF CVariables, CFunctions
<1> DEFINE T(z, r) == TypeStates(types, a, z, r)
           V(z, r) == VariableStates(types, a, z, r)
           F(z, r) == FunctionStates(types, a, z, r)
           E(z, r) == EnumStates(types, a, z, r)
<1>7. (T(x, p) \/ V(x, p) \/ F(x, p) \/ E(x, p)) /\ (T(y, q) \/ V(y, q) \/ F(y, q) \/ E(y, q))
  BY DEF CStates
<1>8. \A z, r :
        /\ T(z, r) => a.of = "type" \/ (a.of = "library" /\ a.name \in {"SsMsgType", "SsStatus"})
        /\ V(z, r) => a.of = "library" /\ a.name \in CVariables
        /\ F(z, r) => a.of \in {"pack", "unpack", "log"} \/ (a.of = "library" /\ a.name \in CFunctions)
        /\ E(z, r) => a.of = "enum"
  BY StatesOf
<1> HIDE DEF T, V, F, E
<1>9. (T(x, p) /\ T(y, q)) \/ (V(x, p) /\ V(y, q)) \/ (F(x, p) /\ F(y, q)) \/ (E(x, p) /\ E(y, q))
  BY <1>6, <1>7, <1>8
<1> QED
  BY <1>2, <1>3, <1>4, <1>5, <1>9 DEF T, V, F, E

-----------------------------------------------------------------------------
\* One fact at one place states one identifier.
LEMMA PrimitiveNames ==
  ASSUME NEW a \in Range(Primitive), NEW b \in Range(Primitive), CTypeName(a) = CTypeName(b)
  PROVE  a = b
<1>1. \A c \in DOMAIN CIntegers : CTypeName(c) \in Range(CIntegers)
  BY DEF CTypeName, Range
<1>2. \A c : c \notin DOMAIN CIntegers => CTypeName(c) = c
  BY DEF CTypeName
<1>3. \A c, d \in DOMAIN CIntegers : CIntegers[c] = CIntegers[d] => c = d
  BY DEF CIntegers
<1>4. \A c \in DOMAIN CIntegers : CTypeName(c) = CIntegers[c]
  BY DEF CTypeName
<1>5. Range(CIntegers) \cap Range(Primitive) = {}
  BY IntegerAssumption DEF IntegerAssumption
<1> QED
  BY <1>1, <1>2, <1>3, <1>4, <1>5

LEMMA TypeOnce ==
  ASSUME NEW types, Usable(types), NEW a, NEW b, NEW x, NEW p,
         TypeStates(types, a, x, p), TypeStates(types, b, x, p)
  PROVE  a = b
<1>1. /\ \A t, r : DeclaredAt(types, t, r) => r # 1 /\ r # 3 /\ r # 4
      /\ \A t, u, r : DeclaredAt(types, t, r) /\ DeclaredAt(types, u, r) => t = u
  <2>1. \A t, r : DeclaredAt(types, t, r) => r \in 5 .. (Len(Declared(types)) + 4) /\ Len(Declared(types)) \in Nat
    BY DeclaredPlaces
  <2>2. \A t, u, r : DeclaredAt(types, t, r) /\ DeclaredAt(types, u, r) => t = u
    BY DeclaredPlaces
  <2> QED
    BY <2>1, <2>2
<1>2. CASE \E n \in DOMAIN types : a = TypeId(types, n) /\ x = Type(CTypeName(types[n].name)) /\ TypePlace(types, n, p)
  <2>1. PICK m \in DOMAIN types : a = TypeId(types, m) /\ x = Type(CTypeName(types[m].name)) /\ TypePlace(types, m, p)
    BY <1>2
  <2>2. p # 3 /\ p # 4
    BY <1>1, <2>1 DEF TypePlace
  <2>3. PICK n \in DOMAIN types : b = TypeId(types, n) /\ x = Type(CTypeName(types[n].name)) /\ TypePlace(types, n, p)
    BY <2>2 DEF TypeStates
  <2>4. types[m].name = types[n].name
    <3>1. CASE m < NumBuiltins
      <4>1. n < NumBuiltins
        BY <1>1, <2>1, <2>3, <3>1 DEF TypePlace
      <4>2. x.name = <<CTypeName(types[m].name)>>
        BY <2>1, TypeIs
      <4>3. x.name = <<CTypeName(types[n].name)>>
        BY <2>3, TypeIs
      <4>4. types[m].name \in Range(Primitive)
        BY <3>1, TypeFacts
      <4>5. types[n].name \in Range(Primitive)
        BY <4>1, TypeFacts
      <4>6. CTypeName(types[m].name) = CTypeName(types[n].name)
        <5> DEFINE c == CTypeName(types[m].name)  d == CTypeName(types[n].name)
        <5> HIDE DEF c, d
        <5>1. <<c>>[1] = <<d>>[1]
          BY <4>2, <4>3 DEF c, d
        <5>2. c = d
          BY <5>1
        <5> QED
          BY <5>2 DEF c, d
      <4> QED
        BY <4>4, <4>5, <4>6, PrimitiveNames
    <3>2. CASE ~(m < NumBuiltins)
      <4>1. DeclaredAt(types, types[m], p) /\ p # 1
        BY <1>1, <2>1, <3>2 DEF TypePlace
      <4>2. DeclaredAt(types, types[n], p)
        BY <2>3, <4>1 DEF TypePlace
      <4> QED
        BY <1>1, <4>1, <4>2
    <3> QED
      BY <3>1, <3>2
  <2>5. m = n
    BY <2>4, UsableHas DEF Distinct
  <2> QED
    BY <2>1, <2>3, <2>5
<1>3. CASE ~\E n \in DOMAIN types : a = TypeId(types, n) /\ x = Type(CTypeName(types[n].name)) /\ TypePlace(types, n, p)
  <2>1. (a = LibraryId("SsMsgType") /\ p = 3) \/ (a = LibraryId("SsStatus") /\ p = 4)
    BY <1>3 DEF TypeStates
  <2>2. (b = LibraryId("SsMsgType") /\ p = 3) \/ (b = LibraryId("SsStatus") /\ p = 4)
    BY <1>1, <2>1 DEF TypeStates, TypePlace
  <2> QED
    BY <2>1, <2>2
<1> QED
  BY <1>2, <1>3

LEMMA VariableOnce ==
  ASSUME NEW types, NEW a, NEW b, NEW x, NEW p,
         VariableStates(types, a, x, p), VariableStates(types, b, x, p)
  PROVE  a = b
<1>1. PICK v \in CVariables : a = LibraryId(v) /\ x = Variable(v)
  BY DEF VariableStates
<1>2. PICK w \in CVariables : b = LibraryId(w) /\ x = Variable(w)
  BY DEF VariableStates
<1>3. x.name = <<v>>
  BY <1>1, VariableIs
<1>4. x.name = <<w>>
  BY <1>2, VariableIs
<1>5. <<v>>[1] = <<w>>[1]
  BY <1>3, <1>4
<1> QED
  BY <1>1, <1>2, <1>5

LEMMA EnumOnce ==
  ASSUME NEW types, Usable(types), NEW a, NEW b, NEW x, NEW p,
         EnumStates(types, a, x, p), EnumStates(types, b, x, p)
  PROVE  a = b
<1>1. PICK e \in CEnums(types) : \E m \in DOMAIN Spelled(e) :
        a = EnumId(e, m) /\ x = EnumFact(e, m) /\ EnumPlace(types, e, p)
  BY DEF EnumStates
<1>2. PICK m \in DOMAIN Spelled(e) : a = EnumId(e, m) /\ x = EnumFact(e, m) /\ EnumPlace(types, e, p)
  BY <1>1
<1>3. PICK f \in CEnums(types) : \E n \in DOMAIN Spelled(f) :
        b = EnumId(f, n) /\ x = EnumFact(f, n) /\ EnumPlace(types, f, p)
  BY DEF EnumStates
<1>4. PICK n \in DOMAIN Spelled(f) : b = EnumId(f, n) /\ x = EnumFact(f, n) /\ EnumPlace(types, f, p)
  BY <1>3
<1>5. e = f
  BY <1>2, <1>4, EnumPlaces
<1>6. IsSeq(e.values)
  BY EnumsAre
<1>7. EnumFact(e, m).ns = EnumFact(e, n).ns
  BY <1>2, <1>4, <1>5
<1>8. n \in DOMAIN Spelled(e)
  BY <1>5
<1>9. m = n
  BY <1>6, <1>7, <1>8, ValuesDiffer
<1> QED
  BY <1>2, <1>4, <1>5, <1>9

\* The types have different names in C.
OwnCNames(types) ==
  \A m, n \in DOMAIN types : CTypeName(types[m].name) = CTypeName(types[n].name) => m = n

\* What a function does, and of what type, tells which it is.
LEMMA Spellings ==
  /\ \A m, n \in DOMAIN Camel :
       /\ "SsPack" \o Camel[m] \notin CFunctions /\ "SsPack" \o Camel[m] # "SsUnpack" \o Camel[n]
       /\ "SsPack" \o Camel[m] # "SsLog" \o n
       /\ "SsUnpack" \o Camel[m] \notin CFunctions /\ "SsUnpack" \o Camel[m] # "SsLog" \o n
       /\ "SsLog" \o m \notin CFunctions
  /\ \A b \in DOMAIN Width : \E name \in Range(Primitive) : "SsPack" \o Camel[name] = "SsPackInt" \o Width[b]
  /\ "SsUnpack" \o Camel["SsHeader"] = "SsUnpackSsHeader"
<1> DEFINE library == {"SsWriteFile", "SsReadFile", "SsInspectHeader", "SsWriteLogHeader",
                       "SsFindLogDelimiter", "GetSsMsgTypeFromUid"}
<1>1. library = CFunctions
  BY DEF CFunctions
<1>2. \A m, n \in DOMAIN Camel :
        /\ "SsPack" \o Camel[m] \notin library \cup {"SsUnpack" \o Camel[n], "SsLog" \o n}
        /\ "SsUnpack" \o Camel[m] \notin library \cup {"SsLog" \o n}
        /\ "SsLog" \o m \notin library
  BY Zenon, SpellingAssumption DEF SpellingAssumption
<1>3. /\ \A b \in DOMAIN Width : \E name \in Range(Primitive) : "SsPack" \o Camel[name] = "SsPackInt" \o Width[b]
      /\ "SsUnpack" \o Camel["SsHeader"] = "SsUnpackSsHeader"
  BY Zenon, SpellingAssumption DEF SpellingAssumption
<1> HIDE DEF library
<1> QED
  BY <1>1, <1>2, <1>3

LEMMA FunctionOnce ==
  ASSUME NEW types, Usable(types), OwnCNames(types), NEW a, NEW b, NEW x, NEW p,
         FunctionStates(types, a, x, p), FunctionStates(types, b, x, p)
  PROVE  a = b
<1> DEFINE Fixed(c, f) == c = LibraryId(f) /\ x = Function(f, FunctionType(f))
           Pack(c, n) == c = PackId(types, n) /\ x = PackFact(types[n])
           Unpack(c, n) == c = UnpackId(types, n) /\ x = UnpackFact(types[n])
           Log(c, n) == c = LogId(types, n) /\ x = LogFact(types[n])
           name == x.name[1]
           pack(s) == "SsPack" \o Camel[s]
           unpack(s) == "SsUnpack" \o Camel[s]
           log(s) == "SsLog" \o s
<1>0. \A m, n \in DOMAIN Camel :
        /\ pack(m) \notin CFunctions /\ pack(m) # unpack(n) /\ pack(m) # log(n)
        /\ unpack(m) \notin CFunctions /\ unpack(m) # log(n) /\ log(m) \notin CFunctions
  BY Zenon, Spellings
<1>1. \A c : FunctionStates(types, c, x, p) =>
        \/ \E f \in CFunctions : Fixed(c, f)
        \/ \E n \in DOMAIN types : Pack(c, n) \/ Unpack(c, n) \/ Log(c, n)
  BY DEF FunctionStates
<1>2. \A c, f : Fixed(c, f) => name = f
  BY FunctionIs
<1>3. \A c, n : Pack(c, n) => name = pack(types[n].name) /\ x.is = CTypeName(types[n].name)
  <2> SUFFICES ASSUME NEW c, NEW n, Pack(c, n)
               PROVE  name = pack(types[n].name) /\ x.is = CTypeName(types[n].name)
    OBVIOUS
  <2>1. x.name = <<"SsPack" \o Camel[types[n].name]>> /\ x.is = CTypeName(types[n].name)
    BY FunctionFacts
  <2> QED
    BY <2>1
<1>4. \A c, n : Unpack(c, n) => name = unpack(types[n].name) /\ x.is = CTypeName(types[n].name)
  <2> SUFFICES ASSUME NEW c, NEW n, Unpack(c, n)
               PROVE  name = unpack(types[n].name) /\ x.is = CTypeName(types[n].name)
    OBVIOUS
  <2>1. x.name = <<"SsUnpack" \o Camel[types[n].name]>> /\ x.is = CTypeName(types[n].name)
    BY FunctionFacts
  <2> QED
    BY <2>1
<1>5. \A c, n : Log(c, n) => name = log(types[n].name) /\ x.is = types[n].name
  <2> SUFFICES ASSUME NEW c, NEW n, Log(c, n)
               PROVE  name = log(types[n].name) /\ x.is = types[n].name
    OBVIOUS
  <2>1. x.name = <<"SsLog" \o types[n].name>> /\ x.is = types[n].name
    BY FunctionFacts
  <2> QED
    BY <2>1
<1>6. \A n \in DOMAIN types : types[n].name \in DOMAIN Camel
  BY TypeFacts
<1>7. \A c, n : /\ Pack(c, n) => c = PackId(types, n)
                /\ Unpack(c, n) => c = UnpackId(types, n)
                /\ Log(c, n) => c = LogId(types, n)
  OBVIOUS
<1>8. \A c, f : Fixed(c, f) => c = LibraryId(f)
  OBVIOUS
<1>9. \A m, n \in DOMAIN types : types[m].name = types[n].name => m = n
  BY UsableHas DEF Distinct
<1> HIDE DEF Fixed, Pack, Unpack, Log, name, pack, unpack, log
<1>10. CASE \E f \in CFunctions : Fixed(a, f)
  <2>1. PICK f \in CFunctions : Fixed(a, f)
    BY <1>10
  <2>2. name \in CFunctions
    BY <1>2, <2>1
  <2>3. \A n \in DOMAIN types : ~Pack(b, n) /\ ~Unpack(b, n) /\ ~Log(b, n)
    BY <1>3, <1>4, <1>5, <1>6, <2>2, <1>0
  <2>4. PICK g \in CFunctions : Fixed(b, g)
    BY <1>1, <2>3
  <2> QED
    BY <1>2, <1>8, <2>1, <2>4
<1>11. ASSUME NEW m \in DOMAIN types, Pack(a, m) PROVE a = b
  <2>1. name = pack(types[m].name)
    BY <1>3, <1>11
  <2>2. \A f \in CFunctions : ~Fixed(b, f)
    BY <1>2, <1>6, <2>1, <1>0
  <2>3. \A n \in DOMAIN types : ~Unpack(b, n) /\ ~Log(b, n)
    BY <1>4, <1>5, <1>6, <2>1, <1>0
  <2>4. PICK n \in DOMAIN types : Pack(b, n)
    BY <1>1, <2>2, <2>3
  <2>5. m = n
    BY <1>3, <1>11, <2>4 DEF OwnCNames
  <2> QED
    BY <1>7, <1>11, <2>4, <2>5
<1>12. ASSUME NEW m \in DOMAIN types, Unpack(a, m) PROVE a = b
  <2>1. name = unpack(types[m].name)
    BY <1>4, <1>12
  <2>2. \A f \in CFunctions : ~Fixed(b, f)
    BY <1>2, <1>6, <2>1, <1>0
  <2>3. \A n \in DOMAIN types : ~Pack(b, n) /\ ~Log(b, n)
    BY <1>3, <1>5, <1>6, <2>1, <1>0
  <2>4. PICK n \in DOMAIN types : Unpack(b, n)
    BY <1>1, <2>2, <2>3
  <2>5. m = n
    BY <1>4, <1>12, <2>4 DEF OwnCNames
  <2> QED
    BY <1>7, <1>12, <2>4, <2>5
<1>13. ASSUME NEW m \in DOMAIN types, Log(a, m) PROVE a = b
  <2>1. name = log(types[m].name)
    BY <1>5, <1>13
  <2>2. \A f \in CFunctions : ~Fixed(b, f)
    BY <1>2, <1>6, <2>1, <1>0
  <2>3. \A n \in DOMAIN types : ~Pack(b, n) /\ ~Unpack(b, n)
    BY <1>3, <1>4, <1>6, <2>1, <1>0
  <2>4. PICK n \in DOMAIN types : Log(b, n)
    BY <1>1, <2>2, <2>3
  <2>5. m = n
    BY <1>5, <1>9, <1>13, <2>4
  <2> QED
    BY <1>7, <1>13, <2>4, <2>5
<1> QED
  BY <1>1, <1>10, <1>11, <1>12, <1>13

-----------------------------------------------------------------------------
\* An identifier means one thing in the library, and is declared once, exactly when no two
\* identifiers have one name.
Named(lib) ==
  /\ OneMeaning(Facts(lib))
  /\ \A m, n \in DOMAIN lib : m < n => Once(lib[m].facts) \cap Once(lib[n].facts) = {}
CClash(types) ==
  \/ \E a, b \in CIdentifiers(types) : a # b /\ a.name = b.name
  \/ \E f \in CMacros(types) : \E a \in CIdentifiers(types) : f.name = <<a.name>>
  \/ \E f, g \in CMacros(types) : f # g /\ f.name = g.name

LEMMA MacrosAre ==
  ASSUME NEW types, NEW f \in CMacros(types)
  PROVE  f.kind = "macro" /\ \E s : f.name = <<s>>
<1>1. \A m : PackedSizeMacro(types, m).kind = "macro" /\ \E s : PackedSizeMacro(types, m).name = <<s>>
  BY Zenon DEF PackedSizeMacro, Fact
<1>2. HeaderSizeMacro.kind = "macro" /\ \E s : HeaderSizeMacro.name = <<s>>
  BY Zenon DEF HeaderSizeMacro, Fact
<1> QED
  BY <1>1, <1>2 DEF CMacros

LEMMA CStatesIs ==
  ASSUME NEW types, NEW a, NEW x, NEW p, CStates(types, a, x, p)
  PROVE  x.name = <<a.name>> /\ x.kind \in {"type", "constant", "function"}
<1>1. CASE TypeStates(types, a, x, p)
  BY <1>1, StatesName
<1>2. CASE VariableStates(types, a, x, p)
  BY <1>2, StatesName
<1>3. CASE FunctionStates(types, a, x, p)
  BY <1>3, StatesName
<1>4. CASE EnumStates(types, a, x, p)
  BY <1>4, StatesName
<1> QED
  BY <1>1, <1>2, <1>3, <1>4 DEF CStates

LEMMA CStatedOnce ==
  ASSUME NEW types, Usable(types), NEW a, NEW b, NEW x, NEW p, NEW q,
         CStates(types, a, x, p), CStates(types, b, x, q),
         x.kind # "function" => p = q, x.kind = "function" => OwnCNames(types)
  PROVE  a = b
<1>1. CASE x.kind = "type"
  <2>1. p = q /\ TypeStates(types, a, x, p) /\ TypeStates(types, b, x, q)
    BY <1>1, StatesName DEF CStates
  <2> QED
    BY <2>1, TypeOnce
<1>2. CASE x.kind = "function"
  <2>1. FunctionStates(types, a, x, p) /\ FunctionStates(types, b, x, q)
    BY <1>2, StatesName DEF CStates
  <2>2. p = q
    BY <2>1 DEF FunctionStates
  <2> QED
    BY <1>2, <2>1, <2>2, FunctionOnce
<1>3. CASE x.kind = "constant" /\ x.ns = <<>>
  <2>1. p = q /\ VariableStates(types, a, x, p) /\ VariableStates(types, b, x, q)
    BY <1>3, StatesName DEF CStates
  <2> QED
    BY <2>1, VariableOnce
<1>4. CASE x.kind = "constant" /\ x.ns # <<>>
  <2>1. p = q /\ EnumStates(types, a, x, p) /\ EnumStates(types, b, x, q)
    BY <1>4, StatesName DEF CStates
  <2> QED
    BY <2>1, EnumOnce
<1> QED
  BY <1>1, <1>2, <1>3, <1>4, CStatesIs

LEMMA OnceIs ==
  ASSUME NEW facts, NEW x
  PROVE  x \in Once(facts) <=> x \in facts /\ x.kind \notin {"macro", "function"}
BY DEF Once

LEMMA CNamedApart ==
  ASSUME NEW types, Usable(types), NEW lib, NEW L, NEW N, CFactsAre(lib, types, L, N), Named(lib)
  PROVE  ~CClash(types)
<1>1. /\ \A f, g \in Facts(lib) : f.name = g.name => f = g
      /\ \A m, n \in DOMAIN lib : m < n => Once(lib[m].facts) \cap Once(lib[n].facts) = {}
  BY DEF Named, OneMeaning
<1>2. DOMAIN lib \subseteq Nat
  BY DEF CFactsAre
<1>3. ASSUME NEW a, NEW x, NEW p, CStates(types, a, x, p),
             NEW b, NEW y, NEW q, CStates(types, b, y, q), a.name = b.name
      PROVE  x = y /\ (x.kind # "function" => p = q)
  <2>1. x.name = <<a.name>> /\ x.kind \in {"type", "constant", "function"}
    BY <1>3, CStatesIs
  <2>2. y.name = <<b.name>>
    BY <1>3, CStatesIs
  <2>3. x \in Facts(lib) /\ (x.kind # "function" => p \in DOMAIN lib /\ x \in lib[p].facts)
    BY <1>3, CStated
  <2>4. y \in Facts(lib) /\ (y.kind # "function" => q \in DOMAIN lib /\ y \in lib[q].facts)
    BY <1>3, CStated
  <2>5. x = y
    BY <1>1, <1>3, <2>1, <2>2, <2>3, <2>4
  <2>6. ASSUME x.kind # "function" PROVE p = q
    <3>1. x \in Once(lib[p].facts)
      BY <2>1, <2>3, <2>6, OnceIs
    <3>2. x \in Once(lib[q].facts)
      BY <2>1, <2>4, <2>5, <2>6, OnceIs
    <3>3. p \in Nat /\ q \in Nat
      BY <1>2, <2>3, <2>4, <2>5, <2>6
    <3>4. ~(p < q) /\ ~(q < p)
      BY <1>1, <2>3, <2>4, <2>5, <2>6, <3>1, <3>2
    <3> QED
      BY <3>3, <3>4
  <2> QED
    BY <2>5, <2>6
<1>4. ASSUME NEW m \in DOMAIN types, NEW n \in DOMAIN types,
             CTypeName(types[m].name) = CTypeName(types[n].name)
      PROVE  m = n
  <2> DEFINE a == TypeId(types, m)
             b == TypeId(types, n)
  <2>1. a.of = "type" /\ a.n = m /\ a.name = CTypeName(types[m].name)
    BY TypeIdIs
  <2>2. b.of = "type" /\ b.n = n /\ b.name = CTypeName(types[n].name)
    BY TypeIdIs
  <2>3. a \in CIdentifiers(types)
    BY IdentifiersAre
  <2>4. b \in CIdentifiers(types)
    BY IdentifiersAre
  <2> HIDE DEF a, b
  <2>5. PICK x, p : CStates(types, a, x, p)
    BY <2>3, IdentifiersStated
  <2>6. PICK y, q : CStates(types, b, y, q)
    BY <2>4, IdentifiersStated
  <2>7. x = y /\ (x.kind # "function" => p = q)
    BY <1>3, <1>4, <2>1, <2>2, <2>5, <2>6
  <2>8. TypeStates(types, a, x, p)
    BY <2>1, <2>5, StatesOf DEF CStates
  <2>9. x.kind = "type"
    BY <2>8, StatesName
  <2>10. a = b
    BY <2>5, <2>6, <2>7, <2>9, CStatedOnce
  <2> QED
    BY <2>1, <2>2, <2>10
<1>5. OwnCNames(types)
  BY <1>4 DEF OwnCNames
<1>6. ASSUME NEW a \in CIdentifiers(types), NEW b \in CIdentifiers(types), a.name = b.name
      PROVE  a = b
  <2>1. PICK x, p : CStates(types, a, x, p)
    BY IdentifiersStated
  <2>2. PICK y, q : CStates(types, b, y, q)
    BY IdentifiersStated
  <2>3. x = y /\ (x.kind # "function" => p = q)
    BY <1>3, <1>6, <2>1, <2>2
  <2> QED
    BY <1>5, <2>1, <2>2, <2>3, CStatedOnce
<1>7. \A f \in CMacros(types) : f \in Facts(lib)
  <2>1. L + 5 \in DOMAIN lib /\ lib[L + 5].facts = CMacros(types)
    BY DEF CFactsAre
  <2> QED
    BY <2>1, Stated
<1>8. ASSUME NEW f \in CMacros(types), NEW a \in CIdentifiers(types), f.name = <<a.name>>
      PROVE  FALSE
  <2>1. PICK x, p : CStates(types, a, x, p)
    BY IdentifiersStated
  <2>2. x \in Facts(lib)
    BY <2>1, CStated
  <2>3. x.name = <<a.name>> /\ x.kind # "macro"
    BY <2>1, CStatesIs
  <2> QED
    BY <1>1, <1>7, <1>8, <2>2, <2>3, MacrosAre
<1>9. ASSUME NEW f \in CMacros(types), NEW g \in CMacros(types), f.name = g.name
      PROVE  f = g
  BY <1>1, <1>7, <1>9
<1> QED
  BY <1>6, <1>8, <1>9 DEF CClash

LEMMA CApartNamed ==
  ASSUME NEW types, Usable(types), NEW lib, NEW L, NEW N, CFactsAre(lib, types, L, N), ~CClash(types)
  PROVE  Named(lib)
<1>1. /\ \A a, b \in CIdentifiers(types) : a.name = b.name => a = b
      /\ \A f \in CMacros(types) : \A a \in CIdentifiers(types) : f.name # <<a.name>>
      /\ \A f, g \in CMacros(types) : f.name = g.name => f = g
  BY DEF CClash
<1>2. OwnNames(types)
  <2> SUFFICES ASSUME NEW t \in Range(Declared(types)), NEW name \in {"SsMsgType", "SsStatus"}, t.name = name
               PROVE  FALSE
    BY DEF OwnNames
  <2>1. IsSeq(types)
    BY UsableHas
  <2>2. PICK n \in DOMAIN types : t = types[n]
    BY <2>1, DeclaredAre DEF Range
  <2>3. CTypeName(name) = name
    BY DEF CTypeName, CIntegers
  <2>4. name \in CFixed
    BY DEF CFixed
  <2>5. LibraryId(name) \in CIdentifiers(types)
    BY <2>4, IdentifiersAre
  <2>6. TypeId(types, n) \in CIdentifiers(types)
    BY IdentifiersAre
  <2>7. LibraryId(name).of = "library" /\ LibraryId(name).name = name
    BY LibraryIdIs
  <2>8. TypeId(types, n).of = "type" /\ TypeId(types, n).name = CTypeName(types[n].name)
    BY TypeIdIs
  <2> QED
    BY <1>1, <2>2, <2>3, <2>5, <2>6, <2>7, <2>8
<1>3. Distinct(types) /\ IsSeq(types) /\ \A t \in Range(types) : Distinct(t.fields)
  BY UsableHas
<1>4. ASSUME NEW x, NEW p, MemberAt(types, x, p), NEW y, NEW q, MemberAt(types, y, q), x.name = y.name
      PROVE  x = y /\ p = q
  <2>1. PICK t \in Range(Declared(types)) : \E f \in Range(t.fields) :
          x = MemberFact(types, t, f) /\ DeclaredAt(types, t, p)
    BY <1>4 DEF MemberAt
  <2>2. PICK f \in Range(t.fields) : x = MemberFact(types, t, f) /\ DeclaredAt(types, t, p)
    BY <2>1
  <2>3. PICK u \in Range(Declared(types)) : \E g \in Range(u.fields) :
          y = MemberFact(types, u, g) /\ DeclaredAt(types, u, q)
    BY <1>4 DEF MemberAt
  <2>4. PICK g \in Range(u.fields) : y = MemberFact(types, u, g) /\ DeclaredAt(types, u, q)
    BY <2>3
  <2>5. x.name = Scoped(t.name, f.name)
    BY <2>2, MemberIs
  <2>6. y.name = Scoped(u.name, g.name)
    BY <2>4, MemberIs
  <2>7. t.name = u.name /\ f.name = g.name
    <3> DEFINE c == t.name  d == f.name  e == u.name  h == g.name
    <3> HIDE DEF c, d, e, h
    <3>1. Scoped(c, d) = Scoped(e, h)
      BY <1>4, <2>5, <2>6 DEF c, d, e, h
    <3>2. c = e /\ d = h
      BY <3>1 DEF Scoped
    <3> QED
      BY <3>2 DEF c, d, e, h
  <2>8. t \in Range(types) /\ u \in Range(types)
    BY <1>3, DeclaredAre
  <2>9. t = u
    BY <1>3, <2>7, <2>8 DEF Distinct, Range
  <2>10. Distinct(t.fields)
    BY <1>3, <2>8
  <2>11. f = g
    BY <2>7, <2>9, <2>10 DEF Distinct, Range
  <2>12. p = q
    BY <2>2, <2>4, <2>9, DeclaredPlaces
  <2> QED
    BY <2>2, <2>4, <2>9, <2>11, <2>12
<1>5. \A x, p : MemberAt(types, x, p) => x.kind = "member" /\ \A s : x.name # <<s>>
  <2> SUFFICES ASSUME NEW x, NEW p, MemberAt(types, x, p) PROVE x.kind = "member" /\ \A s : x.name # <<s>>
    OBVIOUS
  <2>1. PICK t, f : x = MemberFact(types, t, f)
    BY DEF MemberAt
  <2>2. x.kind = "member" /\ x.name = Scoped(t.name, f.name)
    BY <2>1, MemberIs
  <2> QED
    BY <2>2, ScopedNot
<1> DEFINE Named1(x, p) == \E a, q : CStates(types, a, x, q) /\ (x.kind # "function" => q = p)
<1>6. ASSUME NEW p \in DOMAIN lib, NEW x \in lib[p].facts
      PROVE  Named1(x, p) \/ x \in CMacros(types) \/ MemberAt(types, x, p)
  BY CClassified
<1>7. ASSUME NEW x, NEW p, Named1(x, p), NEW y, NEW q, Named1(y, q), x.name = y.name
      PROVE  x = y /\ (x.kind # "function" => p = q)
  <2>1. PICK a, r : CStates(types, a, x, r) /\ (x.kind # "function" => r = p)
    BY <1>7
  <2>2. PICK b, s : CStates(types, b, y, s) /\ (y.kind # "function" => s = q)
    BY <1>7
  <2>3. x.name = <<a.name>>
    BY <2>1, CStatesIs
  <2>4. y.name = <<b.name>>
    BY <2>2, CStatesIs
  <2>5. a.name = b.name
    <3> DEFINE c == a.name  d == b.name
    <3> HIDE DEF c, d
    <3>1. <<c>>[1] = <<d>>[1]
      BY <1>7, <2>3, <2>4 DEF c, d
    <3>2. c = d
      BY <3>1
    <3> QED
      BY <3>2 DEF c, d
  <2>6. a \in CIdentifiers(types)
    BY <2>1, IdentifiersStated
  <2>7. b \in CIdentifiers(types)
    BY <2>2, IdentifiersStated
  <2>8. a = b
    BY <1>1, <2>5, <2>6, <2>7
  <2>9. x = y /\ r = s
    BY <1>2, <2>1, <2>2, <2>8, CUnique
  <2> QED
    BY <2>1, <2>2, <2>9
<1>8. \A x, p : Named1(x, p) =>
        \E a \in CIdentifiers(types) : x.name = <<a.name>> /\ x.kind \in {"type", "constant", "function"}
  <2> SUFFICES ASSUME NEW x, NEW p, Named1(x, p)
               PROVE  \E a \in CIdentifiers(types) :
                        x.name = <<a.name>> /\ x.kind \in {"type", "constant", "function"}
    OBVIOUS
  <2>1. PICK a, r : CStates(types, a, x, r)
    OBVIOUS
  <2>2. x.name = <<a.name>> /\ x.kind \in {"type", "constant", "function"}
    BY <2>1, CStatesIs
  <2>3. a \in CIdentifiers(types)
    BY <2>1, IdentifiersStated
  <2> QED
    BY <2>2, <2>3
<1> HIDE DEF Named1
<1>9. \A f \in CMacros(types) : f.kind = "macro" /\ \E s : f.name = <<s>>
  BY MacrosAre
<1>10. ASSUME NEW p \in DOMAIN lib, NEW x \in lib[p].facts, NEW q \in DOMAIN lib, NEW y \in lib[q].facts,
              x.name = y.name
       PROVE  x = y /\ (x.kind \notin {"macro", "function"} => p = q)
  <2>1. Named1(x, p) \/ x \in CMacros(types) \/ MemberAt(types, x, p)
    BY <1>6
  <2>2. Named1(y, q) \/ y \in CMacros(types) \/ MemberAt(types, y, q)
    BY <1>6
  <2>3. CASE Named1(x, p)
    BY <1>1, <1>5, <1>7, <1>8, <1>10, <2>2, <2>3
  <2>4. CASE x \in CMacros(types)
    BY <1>1, <1>5, <1>8, <1>9, <1>10, <2>2, <2>4
  <2>5. CASE MemberAt(types, x, p)
    BY <1>4, <1>5, <1>8, <1>9, <1>10, <2>2, <2>5
  <2> QED
    BY <2>1, <2>3, <2>4, <2>5
<1>11. OneMeaning(Facts(lib))
  <2> SUFFICES ASSUME NEW x \in Facts(lib), NEW y \in Facts(lib), x.name = y.name PROVE x = y
    BY DEF OneMeaning
  <2>1. (\E p \in DOMAIN lib : x \in lib[p].facts) /\ \E q \in DOMAIN lib : y \in lib[q].facts
    BY DEF Facts
  <2> QED
    BY <1>10, <2>1
<1>12. ASSUME NEW m \in DOMAIN lib, NEW n \in DOMAIN lib, m < n,
              NEW x \in Once(lib[m].facts) \cap Once(lib[n].facts)
       PROVE  FALSE
  <2>1. x \in lib[m].facts /\ x \in lib[n].facts /\ x.kind \notin {"macro", "function"}
    BY OnceIs
  <2>2. m = n
    BY <1>10, <2>1
  <2>3. m \in Nat /\ n \in Nat
    BY DEF CFactsAre
  <2> QED
    BY <1>12, <2>2, <2>3
<1> QED
  BY <1>11, <1>12 DEF Named

-----------------------------------------------------------------------------
\* The items of a library that the compiler does not object to alone.
Fine(lib) == \A n \in DOMAIN lib : lib[n].ok
CFlaw(types, quoted) ==
  \/ Messages(types) = <<>> \/ MessageTooLong(types) \/ quoted
  \/ \E f \in Fields(types, {"Struct"}) : ~f.alias /\ Root(types, f).kind = "Message"
  \/ \E b \in Range(OfKind(types, {"Bitfield"})) : b.fields = <<>>
  \/ \E e \in Range(OfKind(types, {"Enum"})) : TypeSize(e, <<>>) >= 4

COksAre(lib, types, quoted, L, N) ==
  /\ L \in Nat /\ N \in Nat /\ DOMAIN types = 1 .. N /\ DOMAIN lib = 1 .. (L + N + 10)
  /\ lib[1].ok /\ lib[2].ok /\ lib[4].ok
  /\ (lib[3].ok <=> Range(Messages(types)) # {})
  /\ \A n \in 1 .. L : lib[4 + n].ok
  /\ lib[L + 5].ok /\ lib[L + 6].ok /\ (lib[L + 7].ok <=> StaticAsserts(types).ok)
  /\ \A n \in 1 .. N : (lib[L + 7 + n].ok <=> CPacking(types, types[n]).ok)
  /\ lib[L + N + 8].ok /\ (lib[L + N + 9].ok <=> ~quoted) /\ lib[L + N + 10].ok

LEMMA PlacesInC ==
  ASSUME NEW L \in Nat, NEW N \in Nat, NEW p \in 1 .. (L + N + 10)
  PROVE  \/ p \in {1, 2, 3, 4} \/ \E n \in 1 .. L : p = 4 + n
         \/ p \in {L + 5, L + 6, L + 7} \/ \E n \in 1 .. N : p = L + 7 + n
         \/ p \in {L + N + 8, L + N + 9, L + N + 10}
<1>1. CASE p <= L + 7
  <2>1. p \in {1, 2, 3, 4, L + 5, L + 6, L + 7} \/ (p - 4 \in 1 .. L /\ p = 4 + (p - 4))
    BY <1>1
  <2> QED
    BY <2>1
<1>2. CASE ~(p <= L + 7)
  <2>1. p \in {L + N + 8, L + N + 9, L + N + 10} \/ (p - (L + 7) \in 1 .. N /\ p = L + 7 + (p - (L + 7)))
    BY <1>2
  <2> QED
    BY <2>1
<1> QED
  BY <1>1, <1>2

LEMMA ItemIsFine ==
  ASSUME NEW x, NEW facts, NEW uses, NEW ok, x = Item(facts, uses, ok)
  PROVE  x.ok <=> ok
<1>1. Item(facts, uses, ok).ok <=> ok
  BY Zenon DEF Item
<1> QED
  BY Zenon, <1>1

LEMMA DeclarationIsFine ==
  ASSUME NEW types, NEW t
  PROVE  CDeclaration(types, t).ok
<1>1. CASE t.kind = "Enum"
  BY Zenon, <1>1 DEF CDeclaration, Item
<1>2. CASE t.kind = "Bitfield"
  BY Zenon, <1>2 DEF CDeclaration, Item
<1>3. CASE t.kind # "Enum" /\ t.kind # "Bitfield"
  BY Zenon, <1>3 DEF CDeclaration, Item
<1> QED
  BY <1>1, <1>2, <1>3

LEMMA COksAt ==
  ASSUME NEW types, IsSeq(types), NEW quoted, NEW lib, CItems(lib, types, quoted)
  PROVE  COksAre(lib, types, quoted, Len(Declared(types)), Len(types))
<1> DEFINE D == Declared(types)
           L == Len(D)
           N == Len(types)
<1>1. IsSeq(D)
  BY OfKindHas DEF Declared
<1>2. L \in Nat /\ N \in Nat /\ DOMAIN types = 1 .. N
  BY <1>1, SeqIs
<1>3. /\ DOMAIN lib = 1 .. (L + N + 10)
      /\ lib[1] = Item({Type(CTypeName(p)) : p \in Range(Primitive)}, {}, TRUE)
      /\ lib[2] = Item(Port, {}, TRUE)
      /\ lib[3] = Item(MessageTypeEnum(types), {}, Range(Messages(types)) # {})
      /\ lib[4] = Item(StatusEnum, {}, TRUE)
  BY Zenon DEF CItems
<1>8. /\ lib[1].ok /\ lib[2].ok /\ lib[4].ok
      /\ (lib[3].ok <=> Range(Messages(types)) # {})
  BY Zenon, <1>3, ItemIsFine
<1>4. \A n \in 1 .. L : lib[4 + n].ok
  <2> SUFFICES ASSUME NEW n \in 1 .. L PROVE lib[4 + n].ok
    OBVIOUS
  <2>1. lib[4 + n] = CDeclaration(types, D[n])
    BY DEF CItems
  <2>2. CDeclaration(types, D[n]).ok
    BY DeclarationIsFine
  <2> QED
    BY <2>1, <2>2
<1>5. lib[L + 5].ok /\ lib[L + 6].ok
  <2>1. /\ \E a : lib[L + 5] = Item(a, {}, TRUE)
        /\ \E a : lib[L + 6] = Item(a, {}, TRUE)
    BY Zenon DEF CItems
  <2> QED
    BY Zenon, <2>1, ItemIsFine
<1>6. /\ (lib[L + 7].ok <=> StaticAsserts(types).ok)
      /\ \A n \in 1 .. N : (lib[L + 7 + n].ok <=> CPacking(types, types[n]).ok)
  BY Zenon DEF CItems
<1>7. lib[L + N + 8].ok /\ (lib[L + N + 9].ok <=> ~quoted) /\ lib[L + N + 10].ok
  <2>1. /\ \E a, b : lib[L + N + 8] = Item(a, b, TRUE)
        /\ \E a, b : lib[L + N + 9] = Item(a, b, ~quoted)
        /\ \E a, b : lib[L + N + 10] = Item(a, b, TRUE)
    BY Zenon DEF CItems
  <2> QED
    BY Zenon, <2>1, ItemIsFine
<1> QED
  BY <1>2, <1>3, <1>4, <1>5, <1>6, <1>7, <1>8 DEF COksAre

\* The fields of the types of a kind.
LEMMA FieldsAre1 ==
  ASSUME NEW types, IsSeq(types), NEW f
  PROVE  /\ f \in Fields(types, {"Struct"}) <=>
              \E n \in DOMAIN types : types[n].kind = "Struct" /\ f \in Range(types[n].fields)
         /\ f \in Fields(types, {"Message"}) <=>
              \E n \in DOMAIN types : types[n].kind = "Message" /\ f \in Range(types[n].fields)
         /\ f \in Fields(types, {"Struct", "Message"}) <=>
              \E n \in DOMAIN types : types[n].kind \in {"Struct", "Message"} /\ f \in Range(types[n].fields)
<1>1. \A kinds : \A t : t \in Range(OfKind(types, kinds)) <=>
        \E n \in DOMAIN types : types[n] = t /\ t.kind \in kinds
  BY OfKindHas DEF Range
<1>2. \A kinds : f \in Fields(types, kinds) <=>
        \E n \in DOMAIN types : types[n].kind \in kinds /\ f \in Range(types[n].fields)
  BY <1>1 DEF Fields
<1> QED
  BY <1>2

LEMMA NoMessages ==
  ASSUME NEW types, IsSeq(types)
  PROVE  /\ Messages(types) = <<>> <=> Range(Messages(types)) = {}
         /\ Messages(types) = <<>> <=> ~\E n \in DOMAIN types : types[n].kind = "Message"
<1>1. IsSeq(Messages(types))
  BY OfKindHas DEF Messages
<1>2. Messages(types) = <<>> <=> Range(Messages(types)) = {}
  <2> DEFINE M == Messages(types)
  <2>1. DOMAIN M = 1 .. Len(M) /\ Len(M) \in Nat /\ IsSeq(M)
    BY <1>1, SeqIs
  <2> HIDE DEF M
  <2>2. M = <<>> <=> Len(M) = 0
    BY <2>1, EmptyHasNone
  <2>3. Range(M) = {} <=> Len(M) = 0
    <3>1. Range(M) = {} <=> DOMAIN M = {}
      BY DEF Range
    <3> QED
      BY <2>1, <3>1
  <2> QED
    BY <2>2, <2>3 DEF M
<1>3. Range(Messages(types)) = {t \in Range(Declared(types)) : t.kind = "Message"}
  BY DeclaredAre
<1>4. Range(Declared(types)) = {t \in Range(types) : t.kind \in Kinds}
  BY DeclaredAre
<1>5. "Message" \in Kinds
  BY DEF Kinds
<1>6. Range(Messages(types)) = {} <=> ~\E n \in DOMAIN types : types[n].kind = "Message"
  BY <1>3, <1>4, <1>5 DEF Range
<1> QED
  BY <1>2, <1>6

LEMMA PackingIsFine ==
  ASSUME NEW types, Usable(types), NEW n \in DOMAIN types
  PROVE  CPacking(types, types[n]).ok <=>
           /\ types[n].kind = "Struct" =>
                \A f \in Range(types[n].fields) : Root(types, f).kind = "Message" => f.alias
           /\ types[n].kind = "Message" => PackedSize(types, types[n]) < 2^16
<1>1. CPacking(types, types[n]).ok <=>
        CASE types[n].kind = "Struct" -> \A f \in Range(types[n].fields) : Root(types, f).kind = "Message" => f.alias
          [] types[n].kind = "Message" -> PackedSize(types, types[n]) < 2^16
          [] OTHER -> TRUE
  BY Zenon DEF CPacking, Item
<1>2. CASE types[n].kind = "Struct"
  BY <1>1, <1>2
<1>3. CASE types[n].kind = "Message"
  BY <1>1, <1>3
<1>4. CASE types[n].kind \notin {"Struct", "Message"}
  BY <1>1, <1>4
<1> QED
  BY <1>2, <1>3, <1>4

\* A message is too long when its size does not fit.
LEMMA TooLong ==
  ASSUME NEW types, Usable(types)
  PROVE  MessageTooLong(types) <=>
           \E n \in DOMAIN types : types[n].kind = "Message" /\ ~(PackedSize(types, types[n]) < 2^16)
<1>1. IsSeq(types) /\ Distinct(types)
  BY UsableHas
<1>2. \A m : m \in Range(Messages(types)) <=> \E n \in DOMAIN types : m = types[n] /\ types[n].kind = "Message"
  <2>1. "Message" \in Kinds
    BY DEF Kinds
  <2> QED
    BY <1>1, <2>1, DeclaredAre DEF Range
<1>3. \A n \in DOMAIN types : PackedSize(types, types[n]) \in Int
  <2> SUFFICES ASSUME NEW n \in DOMAIN types PROVE PackedSize(types, types[n]) \in Int
    OBVIOUS
  <2>1. IndexOf(types, types[n].name) = n
    BY <1>1, IndexIs
  <2> QED
    BY <2>1, SizesAreInts DEF PackedSize
<1>4. 2^16 \in Int
  OBVIOUS
<1>5. \A n \in DOMAIN types : PackedSize(types, types[n]) >= 2^16 <=> ~(PackedSize(types, types[n]) < 2^16)
  BY <1>3, <1>4
<1> QED
  BY <1>2, <1>5 DEF MessageTooLong

LEMMA CFine ==
  ASSUME NEW types, Usable(types), NEW quoted, NEW lib, NEW L, NEW N,
         COksAre(lib, types, quoted, L, N)
  PROVE  Fine(lib) <=> ~CFlaw(types, quoted)
<1>1. /\ L \in Nat /\ N \in Nat /\ DOMAIN types = 1 .. N /\ DOMAIN lib = 1 .. (L + N + 10)
      /\ lib[1].ok /\ lib[2].ok /\ lib[4].ok
      /\ (lib[3].ok <=> Range(Messages(types)) # {})
      /\ \A n \in 1 .. L : lib[4 + n].ok
      /\ lib[L + 5].ok /\ lib[L + 6].ok /\ (lib[L + 7].ok <=> StaticAsserts(types).ok)
      /\ \A n \in 1 .. N : (lib[L + 7 + n].ok <=> CPacking(types, types[n]).ok)
      /\ lib[L + N + 8].ok /\ (lib[L + N + 9].ok <=> ~quoted) /\ lib[L + N + 10].ok
  BY DEF COksAre
<1>2. IsSeq(types)
  BY UsableHas
<1> DEFINE packed == \A n \in 1 .. N : CPacking(types, types[n]).ok
<1>3. Fine(lib) <=> /\ Range(Messages(types)) # {} /\ StaticAsserts(types).ok /\ packed /\ ~quoted
  <2>1. /\ 3 \in DOMAIN lib /\ L + 7 \in DOMAIN lib /\ L + N + 9 \in DOMAIN lib
        /\ \A n \in 1 .. N : L + 7 + n \in DOMAIN lib
    BY <1>1
  <2>2. ASSUME Range(Messages(types)) # {}, StaticAsserts(types).ok, packed, ~quoted, NEW p \in DOMAIN lib
        PROVE  lib[p].ok
    <3>1. \/ p \in {1, 2, 3, 4} \/ \E n \in 1 .. L : p = 4 + n
          \/ p \in {L + 5, L + 6, L + 7} \/ \E n \in 1 .. N : p = L + 7 + n
          \/ p \in {L + N + 8, L + N + 9, L + N + 10}
      BY <1>1, PlacesInC
    <3> QED
      BY <1>1, <2>2, <3>1
  <2> HIDE DEF packed
  <2>3. Fine(lib) => Range(Messages(types)) # {} /\ StaticAsserts(types).ok /\ ~quoted
    BY <1>1, <2>1 DEF Fine
  <2>4. Fine(lib) => packed
    BY <1>1, <2>1 DEF Fine, packed
  <2> QED
    BY <2>2, <2>3, <2>4 DEF Fine
<1>4. packed <=> /\ ~\E f \in Fields(types, {"Struct"}) : ~f.alias /\ Root(types, f).kind = "Message"
                 /\ ~MessageTooLong(types)
  <2>1. \A n \in 1 .. N : CPacking(types, types[n]).ok <=>
           /\ types[n].kind = "Struct" =>
                \A f \in Range(types[n].fields) : Root(types, f).kind = "Message" => f.alias
           /\ types[n].kind = "Message" => PackedSize(types, types[n]) < 2^16
    BY <1>1, PackingIsFine
  <2>2. \A f : f \in Fields(types, {"Struct"}) <=>
           \E n \in 1 .. N : types[n].kind = "Struct" /\ f \in Range(types[n].fields)
    BY <1>1, <1>2, FieldsAre1
  <2>3. MessageTooLong(types) <=>
          \E n \in 1 .. N : types[n].kind = "Message" /\ ~(PackedSize(types, types[n]) < 2^16)
    BY <1>1, TooLong
  <2> QED
    BY <2>1, <2>2, <2>3
<1>5. StaticAsserts(types).ok <=>
        /\ ~\E b \in Range(OfKind(types, {"Bitfield"})) : b.fields = <<>>
        /\ ~\E e \in Range(OfKind(types, {"Enum"})) : TypeSize(e, <<>>) >= 4
  <2>1. StaticAsserts(types).ok <=>
          \A t \in Range(types) :
            /\ t.kind = "Bitfield" => t.fields # <<>>
            /\ t.kind = "Enum" => TypeSize(t, <<>>) < 4
    BY Zenon DEF StaticAsserts, Item
  <2>2. \A b : b \in Range(OfKind(types, {"Bitfield"})) <=> b \in Range(types) /\ b.kind = "Bitfield"
    <3>1. "Bitfield" \in Kinds
      BY DEF Kinds
    <3> QED
      BY <1>2, <3>1, DeclaredAre
  <2>3. \A e : e \in Range(OfKind(types, {"Enum"})) <=> e \in Range(types) /\ e.kind = "Enum"
    <3>1. "Enum" \in Kinds
      BY DEF Kinds
    <3> QED
      BY <1>2, <3>1, DeclaredAre
  <2>4. \A e \in Range(types) : e.kind = "Enum" => (TypeSize(e, <<>>) >= 4 <=> ~(TypeSize(e, <<>>) < 4))
    <3> SUFFICES ASSUME NEW n \in DOMAIN types, types[n].kind = "Enum"
                 PROVE  TypeSize(types[n], <<>>) >= 4 <=> ~(TypeSize(types[n], <<>>) < 4)
      BY DEF Range
    <3>1. ReadyType(types[n], n)
      BY <1>1, SeqIs DEF Usable, AllReady
    <3>2. TypeSize(types[n], <<>>) \in {1, 2, 4, 8}
      BY <3>1 DEF ReadyType
    <3> QED
      BY <3>2
  <2> QED
    BY <2>1, <2>2, <2>3, <2>4
<1> HIDE DEF packed
<1>6. Messages(types) = <<>> <=> Range(Messages(types)) = {}
  BY <1>2, NoMessages
<1> QED
  BY <1>3, <1>4, <1>5, <1>6 DEF CFlaw

-----------------------------------------------------------------------------
\* What an item uses is known when the item or one before it declares it.
Known(lib, n, use) == \E m \in 1 .. n : Declares(lib[m], use)
UsesKnown(lib) == \A n \in DOMAIN lib : \A use \in lib[n].uses : Known(lib, n, use)

LEMMA CompilesIs ==
  ASSUME NEW lib
  PROVE  Compiles(lib) <=> Fine(lib) /\ UsesKnown(lib) /\ Named(lib)
BY DEF Compiles, Fine, UsesKnown, Known, Named, OneMeaning

LEMMA KnownBy ==
  ASSUME NEW lib, NEW n, NEW m \in 1 .. n, NEW x \in lib[m].facts, NEW use, use = <<x.kind, x.name>>
  PROVE  Known(lib, n, use)
BY DEF Known, Declares

\* What each item of a C library uses.
CUsesAre(lib, types, L, N) ==
  /\ L \in Nat /\ N \in Nat /\ L = Len(Declared(types)) /\ N = Len(types)
  /\ DOMAIN Declared(types) = 1 .. L /\ DOMAIN types = 1 .. N
  /\ DOMAIN lib = 1 .. (L + N + 10)
  /\ lib[1].uses = {} /\ lib[2].uses = {} /\ lib[3].uses = {} /\ lib[4].uses = {}
  /\ \A n \in 1 .. L : lib[4 + n].uses = CDeclaration(types, Declared(types)[n]).uses
  /\ lib[L + 5].uses = {} /\ lib[L + 6].uses = {} /\ lib[L + 7].uses = {}
  /\ \A n \in 1 .. N : lib[L + 7 + n].uses = CPacking(types, types[n]).uses
  /\ lib[L + N + 8].uses = {FunctionUse("SsUnpackSsHeader")}
  /\ lib[L + N + 9].uses = {<<"constant", LogDelimiter.name>>}
  /\ lib[L + N + 10].uses = {}

LEMMA ItemUses ==
  ASSUME NEW x, NEW facts, NEW uses, NEW ok, x = Item(facts, uses, ok)
  PROVE  x.uses = uses
<1>1. Item(facts, uses, ok).uses = uses
  BY Zenon DEF Item
<1> QED
  BY Zenon, <1>1

LEMMA CUsesAt ==
  ASSUME NEW types, IsSeq(types), NEW quoted, NEW lib, CItems(lib, types, quoted)
  PROVE  CUsesAre(lib, types, Len(Declared(types)), Len(types))
<1> DEFINE D == Declared(types)
           L == Len(D)
           N == Len(types)
<1>1. IsSeq(D)
  BY OfKindHas DEF Declared
<1>2. L \in Nat /\ N \in Nat /\ DOMAIN types = 1 .. N /\ DOMAIN D = 1 .. L
  BY <1>1, SeqIs
<1>3. /\ DOMAIN lib = 1 .. (L + N + 10)
      /\ \E a, b : lib[1] = Item(a, {}, b)
      /\ \E a, b : lib[2] = Item(a, {}, b)
      /\ \E a, b : lib[3] = Item(a, {}, b)
      /\ \E a, b : lib[4] = Item(a, {}, b)
  BY Zenon DEF CItems
<1>4. lib[1].uses = {} /\ lib[2].uses = {} /\ lib[3].uses = {} /\ lib[4].uses = {}
  BY <1>3, ItemUses
<1>5. /\ \E a, b : lib[L + 5] = Item(a, {}, b)
      /\ \E a, b : lib[L + 6] = Item(a, {}, b)
      /\ \E a, b : lib[L + 7] = Item(a, {}, b)
  BY Zenon DEF CItems, StaticAsserts
<1>6. lib[L + 5].uses = {} /\ lib[L + 6].uses = {} /\ lib[L + 7].uses = {}
  BY <1>5, ItemUses
<1>7. /\ \E a, b : lib[L + N + 8] = Item(a, {FunctionUse("SsUnpackSsHeader")}, b)
      /\ \E a, b : lib[L + N + 9] = Item(a, {<<"constant", LogDelimiter.name>>}, b)
      /\ \E a, b : lib[L + N + 10] = Item(a, {}, b)
  BY Zenon DEF CItems
<1>8. /\ lib[L + N + 8].uses = {FunctionUse("SsUnpackSsHeader")}
      /\ lib[L + N + 9].uses = {<<"constant", LogDelimiter.name>>}
      /\ lib[L + N + 10].uses = {}
  BY <1>7, ItemUses
<1>9. /\ \A n \in 1 .. L : lib[4 + n].uses = CDeclaration(types, D[n]).uses
      /\ \A n \in 1 .. N : lib[L + 7 + n].uses = CPacking(types, types[n]).uses
  BY Zenon DEF CItems
<1> QED
  BY <1>2, <1>3, <1>4, <1>6, <1>8, <1>9 DEF CUsesAre

\* Where a type and the functions that pack it are known.
LEMMA TypeKnown ==
  ASSUME NEW types, Usable(types), NEW lib, NEW L, NEW N, CFactsAre(lib, types, L, N),
         NEW n \in DOMAIN types, NEW p, TypePlace(types, n, p), NEW q \in Nat, p <= q
  PROVE  Known(lib, q, TypeUse(CTypeName(types[n].name)))
<1> DEFINE x == Type(CTypeName(types[n].name))
<1>1. TypeStates(types, TypeId(types, n), x, p)
  BY DEF TypeStates
<1>2. CStates(types, TypeId(types, n), x, p)
  BY <1>1 DEF CStates
<1>3. x.kind = "type" /\ x.name = <<CTypeName(types[n].name)>>
  BY TypeIs
<1> HIDE DEF x
<1>4. p \in DOMAIN lib /\ x \in lib[p].facts
  BY <1>2, <1>3, CStated
<1>5. p \in 1 .. q
  BY <1>4 DEF CFactsAre
<1>6. TypeUse(CTypeName(types[n].name)) = <<x.kind, x.name>>
  BY <1>3 DEF TypeUse
<1> QED
  BY <1>4, <1>5, <1>6, KnownBy

LEMMA PackKnown ==
  ASSUME NEW types, NEW lib, NEW L, NEW N, CFactsAre(lib, types, L, N),
         NEW n \in 1 .. N, NEW f \in PackNames(types[n]), NEW q \in Nat, L + 7 + n <= q
  PROVE  Known(lib, q, FunctionUse(f))
<1> DEFINE x == Function(f, CTypeName(types[n].name))
           p == L + 7 + n
<1>1. x.kind = "function" /\ x.name = <<f>>
  BY FunctionIs
<1>2. x \in PackFacts(types[n])
  BY Zenon DEF PackFacts
<1> HIDE DEF x
<1>3. L \in Nat /\ N \in Nat /\ lib[p].facts = PackFacts(types[n])
  BY DEF CFactsAre
<1>4. p \in 1 .. q
  BY <1>3
<1>5. FunctionUse(f) = <<x.kind, x.name>>
  BY <1>1 DEF FunctionUse
<1> HIDE DEF p
<1>6. x \in lib[p].facts
  BY <1>2, <1>3
<1> QED
  BY <1>4, <1>5, <1>6, KnownBy

\* The type of a member is declared before the type that has it.
LEMMA RootBefore ==
  ASSUME NEW types, Usable(types), NEW n \in DOMAIN types, types[n].kind \in {"Struct", "Message"},
         NEW f \in Range(types[n].fields), NEW p, DeclaredAt(types, types[n], p)
  PROVE  /\ f.type.index \in DOMAIN types /\ f.type.index < n /\ n \in Nat /\ f.type.index \in Nat
         /\ Root(types, f) = types[f.type.index]
         /\ \E q \in Nat : q <= p /\ TypePlace(types, f.type.index, q)
<1> DEFINE r == f.type.index
<1>1. r \in 1 .. (n - 1)
  BY MemberUsable
<1>2. IsSeq(types) /\ DOMAIN types = 1 .. Len(types) /\ Len(types) \in Nat
  BY UsableHas, SeqIs
<1> HIDE DEF r
<1>3. r \in DOMAIN types /\ r < n /\ n \in Nat /\ r \in Nat
  BY <1>1, <1>2
<1>4. p \in 5 .. (Len(Declared(types)) + 4) /\ Len(Declared(types)) \in Nat
  BY DeclaredPlaces
<1>5. CASE r < NumBuiltins
  <2>1. TypePlace(types, r, 1)
    BY <1>5 DEF TypePlace
  <2> QED
    BY <1>3, <1>4, <2>1 DEF Root, r
<1>6. CASE ~(r < NumBuiltins)
  <2>1. types[r] \in Range(Declared(types))
    BY <1>3, <1>6, TypeFacts
  <2>2. PICK q : DeclaredAt(types, types[r], q)
    BY <2>1, DeclaredPlaces
  <2>3. TypePlace(types, r, q)
    BY <1>6, <2>2 DEF TypePlace
  <2>4. q < p
    BY <1>3, <2>2, DeclaredOrder
  <2>5. q \in 5 .. (Len(Declared(types)) + 4)
    BY <2>2, DeclaredPlaces
  <2> QED
    BY <1>3, <1>4, <2>3, <2>4, <2>5 DEF Root, r
<1> QED
  BY <1>5, <1>6

-----------------------------------------------------------------------------
\* A type that is known is one of C, the library or the specification, by its name in C.
LEMMA KnownTypes ==
  ASSUME NEW types, Usable(types), NEW lib, NEW L, NEW N, CFactsAre(lib, types, L, N),
         NEW q \in DOMAIN lib, NEW name, Known(lib, q, TypeUse(name))
  PROVE  \/ \E n \in DOMAIN types : name = CTypeName(types[n].name)
         \/ name = "SsMsgType" \/ name = "SsStatus"
<1>1. PICK m \in 1 .. q : Declares(lib[m], TypeUse(name))
  BY DEF Known
<1>2. PICK x \in lib[m].facts : TypeUse(name) = <<x.kind, x.name>>
  BY <1>1 DEF Declares
<1>3. x.kind = "type" /\ x.name = <<name>>
  BY <1>2 DEF TypeUse
<1>4. m \in DOMAIN lib
  BY DEF CFactsAre
<1>5. x \notin CMacros(types)
  BY <1>3, MacrosAre
<1>6. ~MemberAt(types, x, m)
  BY <1>3, MemberIs DEF MemberAt
<1>7. PICK a, p : CStates(types, a, x, p)
  BY <1>4, <1>5, <1>6, CClassified
<1>8. TypeStates(types, a, x, p)
  BY <1>3, <1>7, StatesName DEF CStates
<1>9. PICK v : x = Type(v) /\ (\/ \E n \in DOMAIN types : v = CTypeName(types[n].name)
                               \/ v = "SsMsgType" \/ v = "SsStatus")
  BY <1>8 DEF TypeStates
<1>10. x.name = <<v>>
  BY <1>9, TypeIs
<1>11. <<name>>[1] = <<v>>[1]
  BY <1>3, <1>10
<1>12. name = v
  BY <1>11
<1> QED
  BY <1>9, <1>12

\* No type has the name in C that a specification has for an integer of C.
LEMMA NotInteger ==
  ASSUME NEW types, Usable(types), NEW n \in DOMAIN types
  PROVE  CTypeName(types[n].name) \notin DOMAIN CIntegers
<1> DEFINE own == types[n].name
<1>2. CASE own \in DOMAIN CIntegers
  <2>1. CTypeName(own) \in Range(CIntegers)
    BY <1>2 DEF CTypeName, Range
  <2> QED
    BY <2>1, IntegerAssumption DEF own, IntegerAssumption
<1>3. CASE own \notin DOMAIN CIntegers
  BY <1>3 DEF CTypeName
<1> QED
  BY <1>2, <1>3

LEMMA IntegersUnknown ==
  ASSUME NEW types, Usable(types), NEW lib, NEW L, NEW N, CFactsAre(lib, types, L, N),
         NEW q \in DOMAIN lib, NEW name \in DOMAIN CIntegers
  PROVE  ~Known(lib, q, TypeUse(name))
<1>1. "SsMsgType" \notin DOMAIN CIntegers /\ "SsStatus" \notin DOMAIN CIntegers
  BY DEF CIntegers
<1> QED
  BY <1>1, KnownTypes, NotInteger

\* What the body of a function that packs a structure uses.
LEMMA BodyUsesAre ==
  ASSUME NEW types, NEW t, NEW u
  PROVE  u \in BodyUses(types, t) <=>
           \E f \in Range(t.fields) :
             \/ \E p \in PackNames(Root(types, f)) : u = FunctionUse(p)
             \/ f.alias /\ u = TypeUse(Root(types, f).name)
BY DEF BodyUses, AliasedRoots

LEMMA FieldUsesAre ==
  ASSUME NEW types, NEW t, NEW u
  PROVE  u \in FieldUses(types, t) <=>
           \E f \in Range(t.fields) : ~f.alias /\ u = TypeUse(CTypeName(Root(types, f).name))
BY Zenon DEF FieldUses, FieldTypes

LEMMA CItemUses ==
  ASSUME NEW types, NEW t
  PROVE  /\ t.kind \in {"Enum", "Bitfield"} => CDeclaration(types, t).uses = {}
         /\ t.kind \notin {"Enum", "Bitfield"} => CDeclaration(types, t).uses = FieldUses(types, t)
         /\ t.kind = "Enum" =>
              CPacking(types, t).uses = {FunctionUse("SsPackInt" \o Width[TypeSize(t, <<>>)])}
         /\ t.kind \in {"Struct", "Message"} => CPacking(types, t).uses = BodyUses(types, t)
         /\ t.kind \notin {"Enum", "Struct", "Message"} => CPacking(types, t).uses = {}
<1>1. t.kind = "Enum" => \E a, b : CDeclaration(types, t) = Item(a, {}, b)
  BY Zenon DEF CDeclaration
<1>2. t.kind = "Bitfield" => t.kind # "Enum"
  OBVIOUS
<1>3. t.kind = "Bitfield" => \E a, b : CDeclaration(types, t) = Item(a, {}, b)
  BY Zenon, <1>2 DEF CDeclaration
<1>4. t.kind \notin {"Enum", "Bitfield"} =>
        \E a, b : CDeclaration(types, t) = Item(a, FieldUses(types, t), b)
  BY Zenon DEF CDeclaration
<1> DEFINE needs == CASE t.kind = "Enum" -> {FunctionUse("SsPackInt" \o Width[TypeSize(t, <<>>)])}
                      [] t.kind \in {"Struct", "Message"} -> BodyUses(types, t)
                      [] OTHER -> {}
<1>5. \E a, b : CPacking(types, t) = Item(a, needs, b)
  BY Zenon DEF CPacking
<1> DEFINE one == {FunctionUse("SsPackInt" \o Width[TypeSize(t, <<>>)])}
<1>6. /\ t.kind = "Enum" => needs = one
      /\ t.kind \in {"Struct", "Message"} => needs = BodyUses(types, t)
      /\ t.kind \notin {"Enum", "Struct", "Message"} => needs = {}
  <2> HIDE DEF one
  <2>1. t.kind = "Enum" => needs = one
    BY DEF one
  <2>2. t.kind \in {"Struct", "Message"} => t.kind # "Enum"
    OBVIOUS
  <2>3. t.kind \in {"Struct", "Message"} => needs = BodyUses(types, t)
    BY Zenon, <2>2
  <2>4. t.kind \notin {"Enum", "Struct", "Message"} => needs = {}
    BY Zenon
  <2> QED
    BY <2>1, <2>3, <2>4
<1> HIDE DEF needs
<1>7. CPacking(types, t).uses = needs
  BY <1>5, ItemUses
<1>8. /\ t.kind \in {"Enum", "Bitfield"} => CDeclaration(types, t).uses = {}
      /\ t.kind \notin {"Enum", "Bitfield"} => CDeclaration(types, t).uses = FieldUses(types, t)
  BY <1>1, <1>3, <1>4, ItemUses
<1> HIDE DEF one
<1>9. /\ t.kind = "Enum" => CPacking(types, t).uses = one
      /\ t.kind \in {"Struct", "Message"} => CPacking(types, t).uses = BodyUses(types, t)
      /\ t.kind \notin {"Enum", "Struct", "Message"} => CPacking(types, t).uses = {}
  BY <1>6, <1>7
<1> QED
  BY Zenon, <1>8, <1>9 DEF one

-----------------------------------------------------------------------------
\* The declarations of a C library use what is known.
LEMMA DeclarationKnows ==
  ASSUME NEW types, Usable(types), NEW lib, NEW L, NEW N, CFactsAre(lib, types, L, N),
         NEW n \in 1 .. L, NEW use \in CDeclaration(types, Declared(types)[n]).uses
  PROVE  Known(lib, 4 + n, use)
<1> DEFINE t == Declared(types)[n]
<1>1. L \in Nat /\ DOMAIN Declared(types) = 1 .. L
  BY DEF CFactsAre
<1>2. DeclaredAt(types, t, 4 + n)
  BY <1>1 DEF DeclaredAt
<1>3. PICK i \in DOMAIN types : types[i] = t /\ t.kind \in Kinds
  BY <1>1, UsableHas, OfKindHas DEF Declared, Range
<1>4. t.kind \notin {"Enum", "Bitfield"} /\ use \in FieldUses(types, t)
  BY CItemUses
<1>5. PICK f \in Range(t.fields) : use = TypeUse(CTypeName(Root(types, f).name))
  BY <1>4, FieldUsesAre
<1> HIDE DEF t
<1>6. t.kind \in {"Struct", "Message"}
  BY <1>3, <1>4 DEF Kinds
<1>7. DeclaredAt(types, types[i], 4 + n) /\ types[i].kind \in {"Struct", "Message"} /\ f \in Range(types[i].fields)
  BY <1>2, <1>3, <1>6
<1> DEFINE r == f.type.index
<1>8. r \in DOMAIN types /\ Root(types, f) = types[r] /\ \E q \in Nat : q <= 4 + n /\ TypePlace(types, r, q)
  BY <1>7, RootBefore
<1> HIDE DEF r
<1>9. PICK q \in Nat : q <= 4 + n /\ TypePlace(types, r, q)
  BY <1>8
<1>10. 4 + n \in Nat
  BY <1>1
<1>11. Known(lib, 4 + n, TypeUse(CTypeName(types[r].name)))
  BY <1>8, <1>9, <1>10, TypeKnown
<1> QED
  BY <1>5, <1>8, <1>11

\* So do the functions that pack an enum, with that of its integer.
LEMMA EnumKnows ==
  ASSUME NEW types, Usable(types), NEW lib, NEW L, NEW N, CFactsAre(lib, types, L, N),
         NEW n \in DOMAIN types, types[n].kind = "Enum"
  PROVE  Known(lib, L + 7 + n, FunctionUse("SsPackInt" \o Width[TypeSize(types[n], <<>>)]))
<1> DEFINE b == TypeSize(types[n], <<>>)
           called == "SsPackInt" \o Width[b]
<1>1. L \in Nat /\ N \in Nat /\ N = Len(types) /\ DOMAIN types = 1 .. N
  BY DEF CFactsAre
<1>2. ReadyType(types[n], n)
  BY <1>1 DEF Usable, AllReady
<1>3. b \in {1, 2, 4, 8}
  BY <1>2 DEF ReadyType
<1> HIDE DEF b
<1>4. b \in DOMAIN Width
  BY <1>3 DEF Width
<1>5. \A c \in DOMAIN Width : \E name \in Range(Primitive) : "SsPack" \o Camel[name] = "SsPackInt" \o Width[c]
  BY Spellings
<1>6. PICK name \in Range(Primitive) : "SsPack" \o Camel[name] = called
  BY Zenon, <1>4, <1>5
<1> HIDE DEF called
<1>7. PICK m \in DOMAIN types : m < NumBuiltins /\ types[m].name = name
  BY PrimitiveFound
<1>8. ~(n < NumBuiltins) /\ n \in Nat /\ NumBuiltins \in Nat /\ m \in Nat
  BY TypeFacts
<1>9. called \in PackNames(types[m])
  BY Zenon, <1>6, <1>7 DEF PackNames
<1>10. L + 7 + n \in Nat /\ L + 7 + m <= L + 7 + n /\ m \in 1 .. N
  BY <1>1, <1>7, <1>8
<1>11. Known(lib, L + 7 + n, FunctionUse(called))
  BY <1>9, <1>10, PackKnown
<1> QED
  BY <1>11 DEF called, b

\* So do those that pack a structure, unless an alias has an integer of C as its root.
LEMMA BodyKnows ==
  ASSUME NEW types, Usable(types), NEW lib, NEW L, NEW N, CFactsAre(lib, types, L, N),
         NEW n \in DOMAIN types, types[n].kind \in {"Struct", "Message"},
         ~IntegerAlias(types), NEW use \in BodyUses(types, types[n])
  PROVE  Known(lib, L + 7 + n, use)
<1>1. L \in Nat /\ N \in Nat /\ N = Len(types) /\ DOMAIN types = 1 .. N /\ L = Len(Declared(types)) /\ IsSeq(types)
  BY DEF CFactsAre
<1>2. PICK f \in Range(types[n].fields) :
        \/ \E name \in PackNames(Root(types, f)) : use = FunctionUse(name)
        \/ f.alias /\ use = TypeUse(Root(types, f).name)
  BY BodyUsesAre
<1>3. types[n] \in Range(Declared(types))
  <2>1. ~(n < NumBuiltins)
    BY TypeFacts
  <2> QED
    BY <2>1, TypeFacts
<1>4. PICK p : DeclaredAt(types, types[n], p)
  BY <1>3, DeclaredPlaces
<1>5. p \in 5 .. (L + 4)
  BY <1>1, <1>4, DeclaredPlaces
<1> DEFINE r == f.type.index
<1>6. /\ r \in DOMAIN types /\ r < n /\ n \in Nat /\ r \in Nat /\ Root(types, f) = types[r]
      /\ \E q \in Nat : q <= p /\ TypePlace(types, r, q)
  BY <1>4, RootBefore
<1> HIDE DEF r
<1>7. PICK q \in Nat : q <= p /\ TypePlace(types, r, q)
  BY <1>6
<1>8. L + 7 + n \in Nat /\ q <= L + 7 + n /\ L + 7 + r <= L + 7 + n /\ r \in 1 .. N
  BY <1>1, <1>5, <1>6, <1>7
<1>9. CASE \E name \in PackNames(Root(types, f)) : use = FunctionUse(name)
  <2>1. PICK name \in PackNames(types[r]) : use = FunctionUse(name)
    BY <1>6, <1>9
  <2>2. Known(lib, L + 7 + n, FunctionUse(name))
    BY <1>8, PackKnown
  <2> QED
    BY <2>1, <2>2
<1>10. CASE f.alias /\ use = TypeUse(Root(types, f).name)
  <2>1. f \in Fields(types, {"Struct", "Message"})
    BY <1>1, FieldsAre1
  <2>2. types[r].name \notin DOMAIN CIntegers
    BY <1>6, <1>10, <2>1 DEF IntegerAlias
  <2>3. CTypeName(types[r].name) = types[r].name
    BY <2>2 DEF CTypeName
  <2>4. Known(lib, L + 7 + n, TypeUse(CTypeName(types[r].name)))
    BY <1>6, <1>7, <1>8, TypeKnown
  <2> QED
    BY <1>6, <1>10, <2>3, <2>4
<1> QED
  BY <1>2, <1>9, <1>10

LEMMA PackingKnows ==
  ASSUME NEW types, Usable(types), NEW lib, NEW L, NEW N, CFactsAre(lib, types, L, N),
         NEW n \in DOMAIN types, ~IntegerAlias(types), NEW use \in CPacking(types, types[n]).uses
  PROVE  Known(lib, L + 7 + n, use)
<1>1. CASE types[n].kind = "Enum"
  <2>1. use \in {FunctionUse("SsPackInt" \o Width[TypeSize(types[n], <<>>)])}
    BY <1>1, CItemUses
  <2>2. Known(lib, L + 7 + n, FunctionUse("SsPackInt" \o Width[TypeSize(types[n], <<>>)]))
    BY <1>1, EnumKnows
  <2> QED
    BY Zenon, <2>1, <2>2
<1>2. CASE types[n].kind \in {"Struct", "Message"}
  <2>1. use \in BodyUses(types, types[n])
    BY <1>2, CItemUses
  <2> QED
    BY <1>2, <2>1, BodyKnows
<1>3. CASE types[n].kind \notin {"Enum", "Struct", "Message"}
  BY <1>3, CItemUses
<1> QED
  BY <1>1, <1>2, <1>3

-----------------------------------------------------------------------------
\* The functions of the library use that of the header, and the delimiter of logs.
LEMMA LibraryKnows ==
  ASSUME NEW types, Usable(types), NEW lib, NEW L, NEW N, CFactsAre(lib, types, L, N)
  PROVE  /\ Known(lib, L + N + 8, FunctionUse("SsUnpackSsHeader"))
         /\ Known(lib, L + N + 9, <<"constant", LogDelimiter.name>>)
<1>1. L \in Nat /\ N \in Nat /\ N = Len(types) /\ DOMAIN types = 1 .. N
  BY DEF CFactsAre
<1>2. NumBuiltins \in 1 .. N
  <2>1. Len(Primitive) \in Nat
    BY PrimitiveAssumption DEF PrimitiveAssumption
  <2> QED
    BY <1>1, <2>1 DEF Usable, NumBuiltins
<1>3. types[NumBuiltins].name = "SsHeader"
  BY <1>1, <1>2 DEF Usable, TypeUsable
<1>4. "SsUnpackSsHeader" \in PackNames(types[NumBuiltins])
  BY Zenon, <1>3, Spellings DEF PackNames
<1>5. L + N + 8 \in Nat /\ L + 7 + NumBuiltins <= L + N + 8
  BY <1>1, <1>2
<1>6. Known(lib, L + N + 8, FunctionUse("SsUnpackSsHeader"))
  BY <1>2, <1>4, <1>5, PackKnown
<1>7. L + 6 \in 1 .. (L + N + 9) /\ LogDelimiter \in lib[L + 6].facts
  BY <1>1 DEF CFactsAre
<1>8. LogDelimiter.kind = "constant"
  BY VariableIs DEF LogDelimiter
<1>9. <<"constant", LogDelimiter.name>> = <<LogDelimiter.kind, LogDelimiter.name>>
  BY <1>8
<1>10. Known(lib, L + N + 9, <<"constant", LogDelimiter.name>>)
  BY <1>7, <1>9, KnownBy
<1> QED
  BY <1>6, <1>10

\* Everything is declared before it is used exactly when no alias has an integer of C
\* as its root.
LEMMA CKnows ==
  ASSUME NEW types, Usable(types), NEW lib, NEW L, NEW N, CFactsAre(lib, types, L, N),
         CUsesAre(lib, types, L, N)
  PROVE  UsesKnown(lib) <=> ~IntegerAlias(types)
<1>1. L \in Nat /\ N \in Nat /\ N = Len(types) /\ DOMAIN types = 1 .. N /\ DOMAIN lib = 1 .. (L + N + 10)
      /\ IsSeq(types)
  BY DEF CFactsAre
<1>2. ASSUME ~IntegerAlias(types), NEW p \in DOMAIN lib, NEW use \in lib[p].uses PROVE Known(lib, p, use)
  <2>1. \/ p \in {1, 2, 3, 4} \/ \E n \in 1 .. L : p = 4 + n
        \/ p \in {L + 5, L + 6, L + 7} \/ \E n \in 1 .. N : p = L + 7 + n
        \/ p \in {L + N + 8, L + N + 9, L + N + 10}
    BY <1>1, PlacesInC
  <2>2. p \notin {1, 2, 3, 4} /\ p \notin {L + 5, L + 6, L + 7} /\ p # L + N + 10
    BY <1>2 DEF CUsesAre
  <2>3. CASE \E n \in 1 .. L : p = 4 + n
    <3>1. PICK n \in 1 .. L : p = 4 + n
      BY <2>3
    <3>2. use \in CDeclaration(types, Declared(types)[n]).uses
      BY <1>2, <3>1 DEF CUsesAre
    <3> QED
      BY <3>1, <3>2, DeclarationKnows
  <2>4. CASE \E n \in 1 .. N : p = L + 7 + n
    <3>1. PICK n \in 1 .. N : p = L + 7 + n
      BY <2>4
    <3>2. use \in CPacking(types, types[n]).uses /\ n \in DOMAIN types
      BY <1>1, <1>2, <3>1 DEF CUsesAre
    <3> QED
      BY <1>2, <3>1, <3>2, PackingKnows
  <2>5. CASE p = L + N + 8
    <3>1. use = FunctionUse("SsUnpackSsHeader")
      BY <1>2, <2>5 DEF CUsesAre
    <3> QED
      BY <2>5, <3>1, LibraryKnows
  <2>6. CASE p = L + N + 9
    <3>1. use = <<"constant", LogDelimiter.name>>
      BY <1>2, <2>6 DEF CUsesAre
    <3> QED
      BY <2>6, <3>1, LibraryKnows
  <2> QED
    BY <2>1, <2>2, <2>3, <2>4, <2>5, <2>6
<1>3. ASSUME IntegerAlias(types), UsesKnown(lib) PROVE FALSE
  <2>1. PICK f \in Fields(types, {"Struct", "Message"}) :
          f.alias /\ Root(types, f).name \in DOMAIN CIntegers
    BY <1>3 DEF IntegerAlias
  <2>2. PICK n \in DOMAIN types : types[n].kind \in {"Struct", "Message"} /\ f \in Range(types[n].fields)
    BY <1>1, <2>1, FieldsAre1
  <2> DEFINE use == TypeUse(Root(types, f).name)
  <2>3. use \in BodyUses(types, types[n])
    BY <2>1, <2>2, BodyUsesAre
  <2>4. use \in CPacking(types, types[n]).uses
    BY <2>2, <2>3, CItemUses
  <2> HIDE DEF use
  <2>5. L + 7 + n \in DOMAIN lib /\ use \in lib[L + 7 + n].uses
    BY <1>1, <2>4 DEF CUsesAre
  <2>6. Known(lib, L + 7 + n, use)
    BY <1>3, <2>5 DEF UsesKnown
  <2>7. ~Known(lib, L + 7 + n, TypeUse(Root(types, f).name))
    BY <2>1, <2>5, IntegersUnknown
  <2> QED
    BY <2>6, <2>7 DEF use
<1> QED
  BY <1>2, <1>3 DEF UsesKnown

\* Which specifications have a C library that compiles.
LEMMA CBuilds ==
  ASSUME NEW types, Usable(types), NEW quoted
  PROVE  Compiles(CSource(types, quoted)) <=> ~CRefuses(types, quoted)
<1> DEFINE L == Len(Declared(types))
           N == Len(types)
<1>1. IsSeq(types)
  BY UsableHas
<1>2. PICK lib : lib = CSource(types, quoted)
  OBVIOUS
<1>3. CItems(lib, types, quoted)
  BY <1>1, <1>2, CSourceIs
<1>4. CFactsAre(lib, types, L, N) /\ CUsesAre(lib, types, L, N) /\ COksAre(lib, types, quoted, L, N)
  BY <1>1, <1>3, CFactsAt, CUsesAt, COksAt
<1> HIDE DEF L, N
<1>5. UsesKnown(lib) <=> ~IntegerAlias(types)
  BY <1>4, CKnows
<1>6. Fine(lib) <=> ~CFlaw(types, quoted)
  BY <1>4, CFine
<1>7. Named(lib) <=> ~CClash(types)
  BY <1>4, CNamedApart, CApartNamed
<1>8. Compiles(lib) <=> ~(CFlaw(types, quoted) \/ IntegerAlias(types) \/ CClash(types))
  BY <1>5, <1>6, <1>7, CompilesIs
<1>9. CRefuses(types, quoted) <=> CFlaw(types, quoted) \/ IntegerAlias(types) \/ CClash(types)
  BY Zenon DEF CRefuses, CFlaw, CClash
<1> QED
  BY <1>2, <1>8, <1>9

-----------------------------------------------------------------------------
(* Which specifications have a C++ library that compiles.                  *)

CcFirst(types) == CcStatus \cup Numbers(types) \cup Unpackers
CcLast(types) == AnyMessage(types) \cup Dispatcher \cup Callbacks(types)
OverloadFacts(t) == {Fact("function", Overload(p, t.name), "", <<>>) : p \in PackNames(t)}
CcBodyUses(types, t) ==
  (UNION {{<<"function", Overload(p, Root(types, f).name)>> : p \in PackNames(Root(types, f))}
          : f \in Range(t.fields)})
    \cup {TypeUse(name) : name \in AliasedRoots(types, t)}
CcPackingFine(types, t) ==
  /\ t.kind = "Message" => PackedSize(types, t) < 2^16
  /\ ({t.name} \cup AliasedRoots(types, t)) \cap Packing(types, IndexOf(types, t.name)) = {}
CcHides(types) == ~NamesKept(types)

LEMMA ItemFacts ==
  ASSUME NEW x, NEW facts, NEW uses, NEW ok, x = Item(facts, uses, ok)
  PROVE  x.facts = facts
<1>1. Item(facts, uses, ok).facts = facts
  BY Zenon DEF Item
<1> QED
  BY Zenon, <1>1

LEMMA CcPackingIs ==
  ASSUME NEW types, NEW t
  PROVE  /\ CcPacking(types, t).facts = OverloadFacts(t)
         /\ t.kind \in {"Struct", "Message"} => CcPacking(types, t).uses = CcBodyUses(types, t)
         /\ t.kind \notin {"Struct", "Message"} => CcPacking(types, t).uses = {}
         /\ CcPacking(types, t).ok <=> CcPackingFine(types, t)
<1> DEFINE needs == IF t.kind \in {"Struct", "Message"} THEN CcBodyUses(types, t) ELSE {}
<1>1. CcPacking(types, t) = Item(OverloadFacts(t), needs, CcPackingFine(types, t))
  BY Zenon DEF CcPacking, OverloadFacts, CcBodyUses, CcPackingFine
<1>2. /\ t.kind \in {"Struct", "Message"} => needs = CcBodyUses(types, t)
      /\ t.kind \notin {"Struct", "Message"} => needs = {}
  OBVIOUS
<1> HIDE DEF needs
<1>3. CcPacking(types, t).facts = OverloadFacts(t) /\ CcPacking(types, t).uses = needs
  <2>1. \E c : CcPacking(types, t) = Item(OverloadFacts(t), needs, c)
    BY Zenon, <1>1
  <2> QED
    BY <2>1, ItemFacts, ItemUses
<1>4. CcPacking(types, t).ok <=> CcPackingFine(types, t)
  <2>1. CcPacking(types, t).ok <=>
          /\ t.kind = "Message" => PackedSize(types, t) < 2^16
          /\ ({t.name} \cup AliasedRoots(types, t)) \cap Packing(types, IndexOf(types, t.name)) = {}
    BY Zenon DEF CcPacking, Item
  <2> QED
    BY Zenon, <2>1 DEF CcPackingFine
<1> QED
  BY Zenon, <1>2, <1>3, <1>4

LEMMA CcDeclarationIs ==
  ASSUME NEW types, NEW t
  PROVE  /\ t.kind = "Enum" => CcDeclaration(types, t).facts = CcEnum(t.name, NameSeq(t.fields))
         /\ t.kind = "Bitfield" => CcDeclaration(types, t).facts = BitfieldFacts(t)
         /\ t.kind = "Struct" => CcDeclaration(types, t).facts = StructFacts(types, t)
         /\ t.kind = "Message" => CcDeclaration(types, t).facts = MessageFacts(types, t)
         /\ t.kind \in {"Enum", "Bitfield"} => CcDeclaration(types, t).uses = {}
         /\ t.kind \notin {"Enum", "Bitfield"} => CcDeclaration(types, t).uses = FieldUses(types, t)
         /\ CcDeclaration(types, t).ok <=> ~ChangesMeaning(types, t)
<1> DEFINE fine == ~ChangesMeaning(types, t)
           it == CcDeclaration(types, t)
<1>1. t.kind = "Enum" => it = Item(CcEnum(t.name, NameSeq(t.fields)), {}, fine)
  BY Zenon DEF CcDeclaration
<1>2. t.kind = "Bitfield" => it = Item(BitfieldFacts(t), {}, fine)
  <2>1. t.kind = "Bitfield" => t.kind # "Enum"
    OBVIOUS
  <2> QED
    BY Zenon, <2>1 DEF CcDeclaration
<1>3. t.kind = "Struct" => it = Item(StructFacts(types, t), FieldUses(types, t), fine)
  <2>1. t.kind = "Struct" => t.kind # "Enum" /\ t.kind # "Bitfield"
    OBVIOUS
  <2> QED
    BY Zenon, <2>1 DEF CcDeclaration
<1>4. t.kind \notin {"Enum", "Bitfield", "Struct"} =>
        it = Item(MessageFacts(types, t), FieldUses(types, t), fine)
  BY Zenon DEF CcDeclaration
<1> HIDE DEF fine, it
<1>5. \A a, b, c : it = Item(a, b, c) => it.facts = a /\ it.uses = b
  BY ItemFacts, ItemUses
<1>6. it.ok <=> fine
  <2>1. CASE t.kind = "Enum"
    BY Zenon, <2>1, <1>1, ItemIsFine DEF fine
  <2>2. CASE t.kind = "Bitfield"
    BY Zenon, <2>2, <1>2, ItemIsFine DEF fine
  <2>3. CASE t.kind = "Struct"
    BY Zenon, <2>3, <1>3, ItemIsFine DEF fine
  <2>4. CASE t.kind \notin {"Enum", "Bitfield", "Struct"}
    BY Zenon, <2>4, <1>4, ItemIsFine DEF fine
  <2> QED
    BY <2>1, <2>2, <2>3, <2>4
<1>7. /\ t.kind = "Enum" => it.facts = CcEnum(t.name, NameSeq(t.fields)) /\ it.uses = {}
      /\ t.kind = "Bitfield" => it.facts = BitfieldFacts(t) /\ it.uses = {}
      /\ t.kind = "Struct" => it.facts = StructFacts(types, t) /\ it.uses = FieldUses(types, t)
      /\ t.kind \notin {"Enum", "Bitfield", "Struct"} =>
           it.facts = MessageFacts(types, t) /\ it.uses = FieldUses(types, t)
  BY <1>1, <1>2, <1>3, <1>4, <1>5
<1> QED
  BY <1>6, <1>7 DEF fine, it

\* What each item of a C++ library states and uses, and when the compiler accepts it.
CcItemsAre(lib, types, L, N) ==
  /\ IsSeq(types) /\ L \in Nat /\ N \in Nat /\ L = Len(Declared(types)) /\ N = Len(types)
  /\ DOMAIN Declared(types) = 1 .. L /\ DOMAIN types = 1 .. N
  /\ DOMAIN lib = 1 .. (L + N + 5)
  /\ lib[1].facts = {Type(CTypeName(name)) : name \in Range(Primitive)}
  /\ lib[2].facts = CcFirst(types) /\ lib[3].facts = CcMsgType(types)
  /\ lib[1].uses = {} /\ lib[2].uses = {} /\ lib[3].uses = {}
  /\ lib[1].ok /\ lib[2].ok /\ (lib[3].ok <=> Messages(types) # <<>>)
  /\ \A n \in 1 .. L : lib[3 + n] = CcDeclaration(types, Declared(types)[n])
  /\ lib[L + 4].facts = CcLast(types) /\ lib[L + 4].uses = {} /\ lib[L + 4].ok
  /\ \A n \in 1 .. N : lib[L + 4 + n] = CcPacking(types, types[n])
  /\ lib[L + N + 5].facts = Unpackers
  /\ lib[L + N + 5].uses = {<<"function", Overload("SsUnpackSsHeader", "SsHeader")>>}
  /\ (lib[L + N + 5].ok <=> ~CcHides(types))

LEMMA CcItemsAt ==
  ASSUME NEW types, IsSeq(types), NEW lib, CcItems(lib, types)
  PROVE  CcItemsAre(lib, types, Len(Declared(types)), Len(types))
<1> DEFINE D == Declared(types)
           L == Len(D)
           N == Len(types)
           i1 == {Type(CTypeName(p)) : p \in Range(Primitive)}
           named == {<<"function", Overload("SsUnpackSsHeader", "SsHeader")>>}
           any == Messages(types) # <<>>
           seen == NamesKept(types)
<1>1. IsSeq(D)
  BY OfKindHas DEF Declared
<1>2. L \in Nat /\ N \in Nat /\ DOMAIN types = 1 .. N /\ DOMAIN D = 1 .. L
  BY <1>1, SeqIs
<1>3. /\ DOMAIN lib = 1 .. (L + N + 5)
      /\ lib[1] = Item(i1, {}, TRUE) /\ lib[2] = Item(CcFirst(types), {}, TRUE)
      /\ lib[3] = Item(CcMsgType(types), {}, any)
      /\ \A n \in 1 .. L : lib[3 + n] = CcDeclaration(types, D[n])
      /\ lib[L + 4] = Item(CcLast(types), {}, TRUE)
      /\ \A n \in 1 .. N : lib[L + 4 + n] = CcPacking(types, types[n])
  BY Zenon DEF CcItems, CcFirst, CcLast
<1>4. lib[L + N + 5] = Item(Unpackers, named, seen)
  BY DEF CcItems
<1> HIDE DEF i1, named, any, seen
<1>8. /\ \E b, c : lib[1] = Item(i1, b, c)
      /\ \E b, c : lib[2] = Item(CcFirst(types), b, c)
      /\ \E b, c : lib[3] = Item(CcMsgType(types), b, c)
      /\ \E b, c : lib[L + 4] = Item(CcLast(types), b, c)
      /\ \E b, c : lib[L + N + 5] = Item(Unpackers, b, c)
  BY Zenon, <1>3, <1>4
<1>5. /\ lib[1].facts = i1 /\ lib[2].facts = CcFirst(types) /\ lib[3].facts = CcMsgType(types)
      /\ lib[L + 4].facts = CcLast(types) /\ lib[L + N + 5].facts = Unpackers
  BY <1>8, ItemFacts
<1>9. /\ \E a, c : lib[1] = Item(a, {}, c)
      /\ \E a, c : lib[2] = Item(a, {}, c)
      /\ \E a, c : lib[3] = Item(a, {}, c)
      /\ \E a, c : lib[L + 4] = Item(a, {}, c)
      /\ \E a, c : lib[L + N + 5] = Item(a, named, c)
  BY Zenon, <1>3, <1>4
<1>6. /\ lib[1].uses = {} /\ lib[2].uses = {} /\ lib[3].uses = {} /\ lib[L + 4].uses = {}
      /\ lib[L + N + 5].uses = named
  BY <1>9, ItemUses
<1>10. /\ \E a, b : lib[1] = Item(a, b, TRUE)
       /\ \E a, b : lib[2] = Item(a, b, TRUE)
       /\ \E a, b : lib[3] = Item(a, b, any)
       /\ \E a, b : lib[L + 4] = Item(a, b, TRUE)
       /\ \E a, b : lib[L + N + 5] = Item(a, b, seen)
  BY Zenon, <1>3, <1>4
<1>7. lib[1].ok /\ lib[2].ok /\ lib[L + 4].ok
  BY Zenon, <1>10, ItemIsFine
<1>13. lib[3].ok <=> any
  <2>1. PICK a, b : lib[3] = Item(a, b, any)
    BY <1>10
  <2> QED
    BY Zenon, <2>1, ItemIsFine DEF any
<1>14. lib[L + N + 5].ok <=> seen
  <2>1. PICK a, b : lib[L + N + 5] = Item(a, b, seen)
    BY <1>10
  <2> QED
    BY Zenon, <2>1, ItemIsFine DEF seen, NamesKept
<1>11. seen <=> ~CcHides(types)
  BY Zenon DEF seen, CcHides
<1>12. lib[L + N + 5].ok <=> ~CcHides(types)
  BY Zenon, <1>14, <1>11
<1> HIDE DEF D, L, N
<1> QED
  BY <1>2, <1>3, <1>5, <1>6, <1>7, <1>12, <1>13 DEF CcItemsAre, i1, named, any, D, L, N

-----------------------------------------------------------------------------
LEMMA PlacesInCc ==
  ASSUME NEW L \in Nat, NEW N \in Nat, NEW p \in 1 .. (L + N + 5)
  PROVE  \/ p \in {1, 2, 3} \/ \E n \in 1 .. L : p = 3 + n
         \/ p = L + 4 \/ p = L + N + 5 \/ \E n \in 1 .. N : p = L + 4 + n
<1>1. CASE p <= L + 3
  <2>1. p \in {1, 2, 3} \/ (p - 3 \in 1 .. L /\ p = 3 + (p - 3))
    BY <1>1
  <2> QED
    BY <2>1
<1>2. CASE p > L + 3
  <2>1. p = L + 4 \/ p = L + N + 5 \/ (p - (L + 4) \in 1 .. N /\ p = L + 4 + (p - (L + 4)))
    BY <1>2
  <2> QED
    BY <2>1
<1> QED
  BY <1>1, <1>2

\* Where a type is looked at by the C++ compiler.
Hides(types, n) == ({types[n].name} \cup AliasedRoots(types, types[n])) \cap Packing(types, n) # {}
CcFlaw(types) ==
  \/ Messages(types) = <<>> \/ MessageTooLong(types)
  \/ \E t \in Range(types) : ChangesMeaning(types, t)
  \/ \E n \in DOMAIN types : Hides(types, n)
  \/ CcHides(types)

LEMMA MeaningKept ==
  ASSUME NEW types, IsSeq(types)
  PROVE  (\E t \in Range(types) : ChangesMeaning(types, t)) <=>
           \E t \in Range(Declared(types)) : ChangesMeaning(types, t)
<1>1. Range(Declared(types)) = {t \in Range(types) : t.kind \in Kinds}
  BY DeclaredAre
<1>2. ASSUME NEW t, t.kind \notin Kinds PROVE ~ChangesMeaning(types, t)
  <2>1. t.kind \notin {"Bitfield", "Struct", "Message"}
    BY <1>2 DEF Kinds
  <2> QED
    BY <2>1 DEF ChangesMeaning
<1> QED
  BY <1>1, <1>2

LEMMA CcFine ==
  ASSUME NEW types, Usable(types), NEW lib, NEW L, NEW N, CcItemsAre(lib, types, L, N)
  PROVE  Fine(lib) <=> ~CcFlaw(types)
<1>1. /\ L \in Nat /\ N \in Nat /\ DOMAIN types = 1 .. N /\ DOMAIN lib = 1 .. (L + N + 5)
      /\ DOMAIN Declared(types) = 1 .. L
      /\ lib[1].ok /\ lib[2].ok /\ (lib[3].ok <=> Messages(types) # <<>>)
      /\ \A n \in 1 .. L : lib[3 + n] = CcDeclaration(types, Declared(types)[n])
      /\ lib[L + 4].ok
      /\ \A n \in 1 .. N : lib[L + 4 + n] = CcPacking(types, types[n])
      /\ (lib[L + N + 5].ok <=> ~CcHides(types))
  BY DEF CcItemsAre
<1>2. IsSeq(types) /\ Distinct(types)
  BY UsableHas
<1> DEFINE declared == \A n \in 1 .. L : ~ChangesMeaning(types, Declared(types)[n])
           packed == \A n \in 1 .. N : CcPackingFine(types, types[n])
<1>3. /\ \A n \in 1 .. L : (lib[3 + n].ok <=> ~ChangesMeaning(types, Declared(types)[n]))
      /\ \A n \in 1 .. N : (lib[L + 4 + n].ok <=> CcPackingFine(types, types[n]))
  BY <1>1, CcDeclarationIs, CcPackingIs
<1>4. Fine(lib) <=> /\ Messages(types) # <<>> /\ declared /\ packed /\ ~CcHides(types)
  <2>1. /\ 3 \in DOMAIN lib /\ L + N + 5 \in DOMAIN lib
        /\ \A n \in 1 .. L : 3 + n \in DOMAIN lib
        /\ \A n \in 1 .. N : L + 4 + n \in DOMAIN lib
    BY <1>1
  <2>2. ASSUME Messages(types) # <<>>, declared, packed, ~CcHides(types), NEW p \in DOMAIN lib
        PROVE  lib[p].ok
    <3>2. L \in Nat /\ N \in Nat /\ p \in 1 .. (L + N + 5)
      BY <1>1
    <3>1. \/ p \in {1, 2, 3} \/ \E n \in 1 .. L : p = 3 + n
          \/ p = L + 4 \/ p = L + N + 5 \/ \E n \in 1 .. N : p = L + 4 + n
      BY ONLY <3>2, PlacesInCc
    <3> QED
      BY <1>1, <1>3, <2>2, <3>1
  <2> HIDE DEF packed, declared
  <2>3. Fine(lib) => Messages(types) # <<>> /\ ~CcHides(types)
    BY <1>1, <2>1 DEF Fine
  <2>4. Fine(lib) => packed
    BY <1>3, <2>1 DEF Fine, packed
  <2>5. Fine(lib) => declared
    BY <1>3, <2>1 DEF Fine, declared
  <2> QED
    BY <2>2, <2>3, <2>4, <2>5 DEF Fine
<1>5. declared <=> ~\E t \in Range(types) : ChangesMeaning(types, t)
  <2>1. declared <=> ~\E t \in Range(Declared(types)) : ChangesMeaning(types, t)
    BY <1>1 DEF Range
  <2> QED
    BY <1>2, <2>1, MeaningKept
<1>6. packed <=> ~MessageTooLong(types) /\ ~\E n \in DOMAIN types : Hides(types, n)
  <2>1. MessageTooLong(types) <=>
          \E n \in 1 .. N : types[n].kind = "Message" /\ ~(PackedSize(types, types[n]) < 2^16)
    BY <1>1, TooLong
  <2>2. \A n \in 1 .. N : IndexOf(types, types[n].name) = n
    BY <1>1, <1>2, IndexIs
  <2>3. \A n \in 1 .. N : CcPackingFine(types, types[n]) <=>
          /\ types[n].kind = "Message" => PackedSize(types, types[n]) < 2^16
          /\ ~Hides(types, n)
    BY <2>2 DEF CcPackingFine, Hides
  <2> QED
    BY <1>1, <2>1, <2>3
<1> HIDE DEF packed, declared
<1> QED
  BY <1>4, <1>5, <1>6 DEF CcFlaw

-----------------------------------------------------------------------------
\* The names of a C++ library have their scopes in front.
Headed(x, v) ==
  \/ x.name = <<v>> \/ \E a : x.name = Scoped(v, a)
  \/ \E a : x.name = <<v, "callbacks", a>>

LEMMA HeadedIs ==
  ASSUME NEW x, NEW v, Headed(x, v)
  PROVE  x.name[1] = v
BY DEF Headed, Scoped

LEMMA HeadedOne ==
  ASSUME NEW x, NEW v, Headed(x, v), NEW w, x.name = <<w>>
  PROVE  v = w
<1>1. x.name[1] = v
  BY HeadedIs
<1>2. x.name[1] = w
  OBVIOUS
<1> QED
  BY <1>1, <1>2

\* The place of what has a name of one part.
CcTypePlace(types, n, p) ==
  IF n < NumBuiltins THEN p = 1
  ELSE \E i \in DOMAIN Declared(types) : Declared(types)[i] = types[n] /\ p = 3 + i
OwnPlace(types, v) ==
  CASE v \in {"Status", "kNumMsgTypes", "kHeaderPackedSize", "InspectHeader", "UnpackMessage"} -> 2
    [] v = "MsgType" -> 3
    [] OTHER -> Len(Declared(types)) + 4
CcHead(types, v, p) ==
  \/ \E n \in DOMAIN types : v = CTypeName(types[n].name) /\ CcTypePlace(types, n, p)
  \/ v \in CcTaken /\ p = OwnPlace(types, v)

\* A number in a scope.
NumberFact(scope, names, n) == Fact("constant", Scoped(scope, names[n]), scope, <<n - 1>>)
LEMMA NumberIs ==
  ASSUME NEW scope, NEW names, NEW n
  PROVE  /\ NumberFact(scope, names, n).kind = "constant"
         /\ NumberFact(scope, names, n).name = Scoped(scope, names[n])
         /\ NumberFact(scope, names, n).ns = <<n - 1>>
BY Zenon DEF NumberFact, Fact

LEMMA NumberedIs ==
  ASSUME NEW scope, NEW names, NEW x
  PROVE  x \in Numbered(scope, names) <=> \E n \in DOMAIN names : x = NumberFact(scope, names, n)
BY DEF Numbered, NumberFact

\* What a C++ library has of its own.
OwnConstant(types, v) ==
  Fact("constant", <<v>>, "size_t", IF v = "kNumMsgTypes" THEN <<Len(Messages(types))>> ELSE <<6>>)
OwnFunction(v) == Function(v, "")
OwnMethod(v) == Fact("method", Scoped("MessageDispatcher", v), "", <<>>)
CallFact(m) == Fact("member", <<"MessageDispatcher", "callbacks", Snake[m.name]>>, m.name, <<>>)
LEMMA OwnIs ==
  ASSUME NEW types, NEW v
  PROVE  /\ OwnConstant(types, v).kind = "constant" /\ OwnConstant(types, v).name = <<v>>
         /\ OwnMethod(v).kind = "method" /\ OwnMethod(v).name = Scoped("MessageDispatcher", v)
         /\ CallFact(v).kind = "member"
         /\ CallFact(v).name = <<"MessageDispatcher", "callbacks", Snake[v.name]>>
         /\ CallFact(v).is = v.name
BY Zenon DEF OwnConstant, OwnMethod, CallFact, Fact

LEMMA OwnFunctionIs ==
  ASSUME NEW v
  PROVE  OwnFunction(v).kind = "function" /\ OwnFunction(v).name = <<v>>
BY Zenon DEF OwnFunction, Function, Fact

LEMMA UnpackersAre ==
  ASSUME NEW x
  PROVE  x \in Unpackers <=> \E v \in {"InspectHeader", "UnpackMessage"} : x = OwnFunction(v)
BY Zenon DEF Unpackers, OwnFunction

LEMMA CcFirstIs ==
  ASSUME NEW types, NEW x
  PROVE  x \in CcFirst(types) <=>
           \/ x = Type("Status") \/ \E n \in DOMAIN StatusNames : x = NumberFact("Status", StatusNames, n)
           \/ \E v \in {"kNumMsgTypes", "kHeaderPackedSize"} : x = OwnConstant(types, v)
           \/ \E v \in {"InspectHeader", "UnpackMessage"} : x = OwnFunction(v)
<1>1. x \in CcStatus <=>
        x = Type("Status") \/ \E n \in DOMAIN StatusNames : x = NumberFact("Status", StatusNames, n)
  <2>1. CcStatus = {Type("Status")} \cup Numbered("Status", StatusNames)
    BY Zenon DEF CcStatus, CcEnum, StatusNames
  <2> QED
    BY <2>1, NumberedIs
<1>2. x \in Numbers(types) <=> \E v \in {"kNumMsgTypes", "kHeaderPackedSize"} : x = OwnConstant(types, v)
  <2> DEFINE a == Fact("constant", <<"kNumMsgTypes">>, "size_t", <<Len(Messages(types))>>)
             b == Fact("constant", <<"kHeaderPackedSize">>, "size_t", <<6>>)
  <2>1. OwnConstant(types, "kNumMsgTypes") = a
    BY DEF OwnConstant
  <2>2. OwnConstant(types, "kHeaderPackedSize") = b
    BY DEF OwnConstant
  <2>3. Numbers(types) = {a, b}
    BY Zenon DEF Numbers
  <2> HIDE DEF a, b
  <2> QED
    BY <2>1, <2>2, <2>3
<1> QED
  BY <1>1, <1>2, UnpackersAre DEF CcFirst

LEMMA CcLastIs ==
  ASSUME NEW types, IsSeq(types), NEW x
  PROVE  x \in CcLast(types) <=>
           \/ x = Type("AnyMessage")
           \/ \E n \in DOMAIN Messages(types) : x = NumberFact("AnyMessage", NameSeq(Messages(types)), n)
           \/ x = Type("MessageDispatcher")
           \/ \E v \in {"Unpack", "AddCallback"} : x = OwnMethod(v)
           \/ \E n \in DOMAIN Messages(types) : x = CallFact(Messages(types)[n])
<1>1. x \in AnyMessage(types) <=>
        \/ x = Type("AnyMessage")
        \/ \E n \in DOMAIN Messages(types) : x = NumberFact("AnyMessage", NameSeq(Messages(types)), n)
  <2>1. DOMAIN NameSeq(Messages(types)) = DOMAIN Messages(types)
    BY DEF NameSeq
  <2> QED
    BY <2>1, NumberedIs DEF AnyMessage
<1>2. x \in Dispatcher <=> x = Type("MessageDispatcher") \/ \E v \in {"Unpack", "AddCallback"} : x = OwnMethod(v)
  BY Zenon DEF Dispatcher, OwnMethod
<1>3. x \in Callbacks(types) <=> \E n \in DOMAIN Messages(types) : x = CallFact(Messages(types)[n])
  <2>1. x \in Callbacks(types) <=> \E m \in Range(Messages(types)) : x = CallFact(m)
    BY Zenon DEF Callbacks, CallFact
  <2> QED
    BY <2>1 DEF Range
<1> QED
  BY <1>1, <1>2, <1>3 DEF CcLast

-----------------------------------------------------------------------------
\* What a class has of its own.
ClassFact(types, t, v) ==
  CASE v = "kType" -> Fact("constant", Scoped(t.name, v), "MsgType::k" \o t.name, <<>>)
    [] v = "kUid" -> Fact("constant", Scoped(t.name, v), "uint32_t",
                          <<Uids(types)[IndexOf(types, t.name)]>>)
    [] v = "kPackedSize" -> Fact("constant", Scoped(t.name, v), "size_t", <<PackedSize(types, t)>>)
    [] OTHER -> Fact("method", Scoped(t.name, v), "", <<>>)

LEMMA ClassFactIs ==
  ASSUME NEW types, NEW t, NEW v \in OwnMembers
  PROVE  /\ ClassFact(types, t, v).kind \in {"constant", "method"}
         /\ ClassFact(types, t, v).name = Scoped(t.name, v)
<1> DEFINE x == ClassFact(types, t, v)
<1>1. CASE v = "kType"
  <2>1. x = Fact("constant", Scoped(t.name, v), "MsgType::k" \o t.name, <<>>)
    BY Zenon, <1>1 DEF ClassFact
  <2> HIDE DEF x
  <2>2. x.kind = "constant" /\ x.name = Scoped(t.name, v)
    BY <2>1, FactIs
  <2> QED
    BY <2>2 DEF x
<1>2. CASE v = "kUid"
  <2>1. v # "kType"
    BY <1>2
  <2>2. x = Fact("constant", Scoped(t.name, v), "uint32_t", <<Uids(types)[IndexOf(types, t.name)]>>)
    BY Zenon, <1>2, <2>1 DEF ClassFact
  <2> HIDE DEF x
  <2>3. x.kind = "constant" /\ x.name = Scoped(t.name, v)
    BY <2>2, FactIs
  <2> QED
    BY <2>3 DEF x
<1>3. CASE v = "kPackedSize"
  <2>1. v # "kType" /\ v # "kUid"
    BY <1>3
  <2>2. x = Fact("constant", Scoped(t.name, v), "size_t", <<PackedSize(types, t)>>)
    BY Zenon, <1>3, <2>1 DEF ClassFact
  <2> HIDE DEF x
  <2>3. x.kind = "constant" /\ x.name = Scoped(t.name, v)
    BY <2>2, FactIs
  <2> QED
    BY <2>3 DEF x
<1>4. CASE v \notin {"kType", "kUid", "kPackedSize"}
  <2>1. \E e : x = Fact("method", Scoped(t.name, v), e, <<>>)
    <3>1. x = Fact("method", Scoped(t.name, v), "", <<>>)
      BY Zenon, <1>4 DEF ClassFact
    <3> QED
      BY Zenon, <3>1
  <2> HIDE DEF x
  <2>2. x.kind = "method" /\ x.name = Scoped(t.name, v)
    BY <2>1, FactIs
  <2> QED
    BY <2>2 DEF x
<1> QED
  BY <1>1, <1>2, <1>3, <1>4

ClassFacts(types, t) == Methods(t) \cup Constants(types, t)
LEMMA ClassFactsAre ==
  ASSUME NEW types, NEW t, NEW x
  PROVE  x \in ClassFacts(types, t) <=> \E v \in OwnMembers : x = ClassFact(types, t, v)
<1> DEFINE F(v) == ClassFact(types, t, v)
           method(v) == Fact("method", Scoped(t.name, v), "", <<>>)
           a == Fact("constant", Scoped(t.name, "kType"), "MsgType::k" \o t.name, <<>>)
           b == Fact("constant", Scoped(t.name, "kUid"), "uint32_t", <<Uids(types)[IndexOf(types, t.name)]>>)
           c == Fact("constant", Scoped(t.name, "kPackedSize"), "size_t", <<PackedSize(types, t)>>)
<1>1. F("kType") = a
  BY Zenon DEF ClassFact
<1>2. F("kUid") = b
  <2>1. "kUid" # "kType"
    OBVIOUS
  <2> QED
    BY Zenon, <2>1 DEF ClassFact
<1>3. F("kPackedSize") = c
  <2>1. "kPackedSize" # "kType" /\ "kPackedSize" # "kUid"
    OBVIOUS
  <2> QED
    BY Zenon, <2>1 DEF ClassFact
<1>4. \A v \in {"UnpackNew", "Pack", "Unpack"} : F(v) = method(v)
  <2> SUFFICES ASSUME NEW v \in {"UnpackNew", "Pack", "Unpack"} PROVE F(v) = method(v)
    BY Zenon
  <2>1. v # "kType" /\ v # "kUid" /\ v # "kPackedSize"
    OBVIOUS
  <2> QED
    BY Zenon, <2>1 DEF ClassFact
<1>5. Methods(t) = {method(v) : v \in {"UnpackNew", "Pack", "Unpack"}}
  BY Zenon DEF Methods
<1>6. Constants(types, t) = {a, b, c}
  BY Zenon DEF Constants
<1>7. OwnMembers = {"kType", "kUid", "kPackedSize", "UnpackNew", "Pack", "Unpack"}
  BY Zenon DEF OwnMembers
<1> HIDE DEF F, method, a, b, c
<1>8. x \in Methods(t) <=> \E v \in {"UnpackNew", "Pack", "Unpack"} : x = F(v)
  BY <1>4, <1>5
<1>9. x \in Constants(types, t) <=> \E v \in {"kType", "kUid", "kPackedSize"} : x = F(v)
  BY <1>1, <1>2, <1>3, <1>6
<1>10. x \in ClassFacts(types, t) <=> \E v \in OwnMembers : x = F(v)
  BY <1>7, <1>8, <1>9 DEF ClassFacts
<1> QED
  BY <1>10 DEF F

\* What a declaration has, but for the type.
CcMember(types, t, x) ==
  \/ t.kind = "Enum" /\ \E n \in DOMAIN t.fields : x = NumberFact(t.name, NameSeq(t.fields), n)
  \/ t.kind # "Enum" /\ \E f \in Range(t.fields) : x = MemberFact(types, t, f)
  \/ t.kind = "Message" /\ \E v \in OwnMembers : x = ClassFact(types, t, v)

LEMMA CcDeclares ==
  ASSUME NEW types, NEW t, t.kind \in Kinds, NEW x
  PROVE  x \in CcDeclaration(types, t).facts <=> x = Type(t.name) \/ CcMember(types, t, x)
<1> DEFINE facts == CcDeclaration(types, t).facts
<1>1. CASE t.kind = "Enum"
  <2>1. facts = CcEnum(t.name, NameSeq(t.fields))
    BY <1>1, CcDeclarationIs
  <2>2. CcEnum(t.name, NameSeq(t.fields)) = {Type(t.name)} \cup Numbered(t.name, NameSeq(t.fields))
    BY Zenon DEF CcEnum
  <2>3. DOMAIN NameSeq(t.fields) = DOMAIN t.fields
    BY DEF NameSeq
  <2> HIDE DEF facts
  <2>4. x \in facts <=> x = Type(t.name) \/ \E n \in DOMAIN t.fields : x = NumberFact(t.name, NameSeq(t.fields), n)
    BY <2>1, <2>2, <2>3, NumberedIs
  <2> QED
    BY <1>1, <2>4 DEF CcMember, facts
<1>2. CASE t.kind = "Bitfield"
  <2>1. facts = BitfieldFacts(t)
    BY <1>2, CcDeclarationIs
  <2>2. x \in BitfieldFacts(t) <=> x = Type(t.name) \/ \E f \in Range(t.fields) :
          x = Fact("member", Scoped(t.name, f.name), BitfieldType(t), <<f.bits>>)
    BY Zenon DEF BitfieldFacts
  <2>3. \A f : MemberFact(types, t, f) = Fact("member", Scoped(t.name, f.name), BitfieldType(t), <<f.bits>>)
    BY Zenon, <1>2 DEF MemberFact
  <2> QED
    BY <1>2, <2>1, <2>2, <2>3 DEF CcMember
<1>3. CASE t.kind \in {"Struct", "Message"}
  <2>1. x \in StructFacts(types, t) <=> x = Type(t.name) \/ \E f \in Range(t.fields) : x = MemberFact(types, t, f)
    <3>1. x \in StructFacts(types, t) <=> x = Type(t.name) \/ \E f \in Range(t.fields) : x = FieldFact(types, t, f)
      BY Zenon DEF StructFacts
    <3>2. \A f : MemberFact(types, t, f) = FieldFact(types, t, f)
      <4>1. t.kind # "Bitfield"
        BY <1>3
      <4> QED
        BY Zenon, <4>1 DEF MemberFact
    <3> QED
      BY <3>1, <3>2
  <2>2. CASE t.kind = "Struct"
    <3>1. facts = StructFacts(types, t)
      BY <2>2, CcDeclarationIs
    <3> QED
      BY <2>1, <2>2, <3>1 DEF CcMember
  <2>3. CASE t.kind = "Message"
    <3>1. facts = MessageFacts(types, t)
      BY <2>3, CcDeclarationIs
    <3>2. x \in MessageFacts(types, t) <=> x \in StructFacts(types, t) \/ x \in ClassFacts(types, t)
      BY DEF MessageFacts, ClassFacts
    <3>3. x \in ClassFacts(types, t) <=> \E v \in OwnMembers : x = ClassFact(types, t, v)
      BY ClassFactsAre
    <3>4. x \in MessageFacts(types, t) <=>
            \/ x = Type(t.name) \/ \E f \in Range(t.fields) : x = MemberFact(types, t, f)
            \/ \E v \in OwnMembers : x = ClassFact(types, t, v)
      BY <2>1, <3>2, <3>3
    <3> QED
      BY <2>3, <3>1, <3>4 DEF CcMember
  <2> QED
    BY <1>3, <2>2, <2>3
<1> QED
  BY <1>1, <1>2, <1>3 DEF Kinds

\* Members are in the scope of their type.
LEMMA CcMemberIs ==
  ASSUME NEW types, NEW t, NEW x, CcMember(types, t, x)
  PROVE  \E a : x.name = Scoped(t.name, a)
BY NumberIs, MemberIs, ClassFactIs DEF CcMember

-----------------------------------------------------------------------------
\* A declared type is one of the types, and where it is declared.
LEMMA DeclaredIs ==
  ASSUME NEW types, Usable(types), NEW i \in DOMAIN Declared(types)
  PROVE  /\ Declared(types)[i].kind \in Kinds /\ Declared(types)[i] \in Range(Declared(types))
         /\ \E n \in DOMAIN types : /\ types[n] = Declared(types)[i] /\ CcTypePlace(types, n, 3 + i)
                                    /\ CTypeName(types[n].name) = Declared(types)[i].name
<1> DEFINE t == Declared(types)[i]
<1>1. IsSeq(types) /\ t \in Range(Declared(types))
  BY UsableHas DEF Range
<1>2. t.kind \in Kinds /\ \E n \in DOMAIN types : types[n] = t
  BY <1>1, DeclaredAre DEF Range
<1>3. PICK n \in DOMAIN types : types[n] = t
  BY <1>2
<1>4. ~(n < NumBuiltins)
  <2>1. "Primitive" \notin Kinds
    BY DEF Kinds
  <2> QED
    BY <1>2, <1>3, <2>1, TypeFacts
<1>5. CcTypePlace(types, n, 3 + i) /\ CTypeName(types[n].name) = t.name
  BY <1>3, <1>4, TypeFacts DEF CcTypePlace
<1> QED
  BY <1>1, <1>2, <1>3, <1>5

LEMMA AllHeaded ==
  /\ \A v : Headed(Type(v), v)
  /\ \A v, names, n : Headed(NumberFact(v, names, n), v)
  /\ \A types, v : Headed(OwnConstant(types, v), v)
  /\ \A v : Headed(OwnFunction(v), v)
  /\ \A v : Headed(OwnMethod(v), "MessageDispatcher")
  /\ \A m : Headed(CallFact(m), "MessageDispatcher")
<1>1. \A v : Headed(Type(v), v)
  BY TypeIs DEF Headed
<1>2. \A v, names, n : Headed(NumberFact(v, names, n), v)
  BY NumberIs DEF Headed
<1>3. ASSUME NEW types, NEW v PROVE Headed(OwnConstant(types, v), v)
  BY OwnIs DEF Headed
<1>4. ASSUME NEW v PROVE Headed(OwnFunction(v), v)
  <2>1. OwnFunction(v).name = <<v>>
    BY OwnFunctionIs
  <2> QED
    BY <2>1 DEF Headed
<1>5. ASSUME NEW v PROVE Headed(OwnMethod(v), "MessageDispatcher")
  <2>1. OwnMethod(v).name = Scoped("MessageDispatcher", v)
    BY OwnIs
  <2> QED
    BY <2>1 DEF Headed
<1>6. ASSUME NEW v PROVE Headed(CallFact(v), "MessageDispatcher")
  <2>1. CallFact(v).name = <<"MessageDispatcher", "callbacks", Snake[v.name]>>
    BY OwnIs
  <2> QED
    BY <2>1 DEF Headed
<1> QED
  BY <1>1, <1>2, <1>3, <1>4, <1>5, <1>6

\* What a name is in the scope of, at the place where the scope is.
LEMMA CcHeads ==
  ASSUME NEW types, Usable(types), NEW lib, NEW L, NEW N, CcItemsAre(lib, types, L, N),
         NEW p \in 1 .. (L + 4), NEW x \in lib[p].facts
  PROVE  \E v : CcHead(types, v, p) /\ Headed(x, v)
<1>1. /\ IsSeq(types) /\ L \in Nat /\ N \in Nat /\ L = Len(Declared(types)) /\ DOMAIN Declared(types) = 1 .. L
      /\ lib[1].facts = {Type(CTypeName(name)) : name \in Range(Primitive)}
      /\ lib[2].facts = CcFirst(types) /\ lib[3].facts = CcMsgType(types)
      /\ \A n \in 1 .. L : lib[3 + n] = CcDeclaration(types, Declared(types)[n])
      /\ lib[L + 4].facts = CcLast(types)
  BY DEF CcItemsAre
<1>2. \/ p \in {1, 2, 3} \/ p = L + 4 \/ \E n \in 1 .. L : p = 3 + n
  <2>1. p \in {1, 2, 3} \/ p = L + 4 \/ (p - 3 \in 1 .. L /\ p = 3 + (p - 3))
    BY <1>1
  <2> QED
    BY <2>1
<1>3. \A v : Headed(Type(v), v)
  BY AllHeaded
<1>4. CASE p = 1
  <2>1. PICK name \in Range(Primitive) : x = Type(CTypeName(name))
    BY <1>1, <1>4
  <2>2. PICK n \in DOMAIN types : n < NumBuiltins /\ types[n].name = name
    BY PrimitiveFound
  <2>3. CcHead(types, CTypeName(name), p)
    BY <1>4, <2>2 DEF CcHead, CcTypePlace
  <2> QED
    BY <1>3, <2>1, <2>3
<1>5. CASE p = 2
  <2>1. \A v \in {"Status", "kNumMsgTypes", "kHeaderPackedSize", "InspectHeader", "UnpackMessage"} :
          CcHead(types, v, p)
    BY <1>5 DEF CcHead, CcTaken, OwnPlace
  <2>2. \E v \in {"Status", "kNumMsgTypes", "kHeaderPackedSize", "InspectHeader", "UnpackMessage"} : Headed(x, v)
    <3>1. x \in CcFirst(types)
      BY <1>1, <1>5
    <3>2. \/ x = Type("Status") \/ \E n \in DOMAIN StatusNames : x = NumberFact("Status", StatusNames, n)
          \/ \E v \in {"kNumMsgTypes", "kHeaderPackedSize"} : x = OwnConstant(types, v)
          \/ \E v \in {"InspectHeader", "UnpackMessage"} : x = OwnFunction(v)
      BY ONLY <3>1, CcFirstIs
    <3> QED
      BY <3>2, AllHeaded
  <2> QED
    BY <2>1, <2>2
<1>6. CASE p = 3
  <2>1. CcHead(types, "MsgType", p)
    BY <1>6 DEF CcHead, CcTaken, OwnPlace
  <2> DEFINE names == Append(NameSeq(Messages(types)), "Unknown")
  <2>2. CcMsgType(types) = {Type("MsgType")} \cup Numbered("MsgType", names)
    BY Zenon DEF CcMsgType, CcEnum
  <2> HIDE DEF names
  <2>3. x = Type("MsgType") \/ \E n \in DOMAIN names : x = NumberFact("MsgType", names, n)
    BY <1>1, <1>6, <2>2, NumberedIs
  <2>4. Headed(x, "MsgType")
    BY <1>3, <2>3, NumberIs DEF Headed
  <2> QED
    BY <2>1, <2>4
<1>7. CASE p = L + 4
  <2>1. \A v \in {"AnyMessage", "MessageDispatcher"} : CcHead(types, v, p)
    BY <1>1, <1>7 DEF CcHead, CcTaken, OwnPlace
  <2>2. \E v \in {"AnyMessage", "MessageDispatcher"} : Headed(x, v)
    <3>1. x \in CcLast(types)
      BY <1>1, <1>7
    <3>2. \/ x = Type("AnyMessage")
          \/ \E n \in DOMAIN Messages(types) : x = NumberFact("AnyMessage", NameSeq(Messages(types)), n)
          \/ x = Type("MessageDispatcher")
          \/ \E v \in {"Unpack", "AddCallback"} : x = OwnMethod(v)
          \/ \E n \in DOMAIN Messages(types) : x = CallFact(Messages(types)[n])
      BY ONLY <1>1, <3>1, CcLastIs
    <3> QED
      BY <3>2, AllHeaded
  <2> QED
    BY <2>1, <2>2
<1>8. CASE \E n \in 1 .. L : p = 3 + n
  <2>1. PICK i \in 1 .. L : p = 3 + i
    BY <1>8
  <2> DEFINE t == Declared(types)[i]
  <2>2. t.kind \in Kinds /\ \E n \in DOMAIN types : CcTypePlace(types, n, 3 + i) /\ CTypeName(types[n].name) = t.name
    BY <1>1, DeclaredIs
  <2>3. CcHead(types, t.name, p)
    BY <2>1, <2>2 DEF CcHead
  <2>4. x \in CcDeclaration(types, t).facts
    BY <1>1, <2>1
  <2> HIDE DEF t
  <2>5. Headed(x, t.name)
    BY <1>3, <2>2, <2>4, CcDeclares, CcMemberIs DEF Headed
  <2> QED
    BY <2>3, <2>5
<1> QED
  BY <1>2, <1>4, <1>5, <1>6, <1>7, <1>8

-----------------------------------------------------------------------------
\* What is stated of a type, and of the functions that pack it.
OverloadFact(f, t) == Fact("function", Overload(f, t.name), "", <<>>)
LEMMA OverloadIs ==
  ASSUME NEW f, NEW t
  PROVE  OverloadFact(f, t).kind = "function" /\ OverloadFact(f, t).name = Overload(f, t.name)
BY Zenon DEF OverloadFact, Fact

LEMMA OverloadsAre ==
  ASSUME NEW t, NEW x
  PROVE  x \in OverloadFacts(t) <=> \E f \in PackNames(t) : x = OverloadFact(f, t)
BY Zenon DEF OverloadFacts, OverloadFact

LEMMA CcTypeKnown ==
  ASSUME NEW types, Usable(types), NEW lib, NEW L, NEW N, CcItemsAre(lib, types, L, N),
         NEW n \in DOMAIN types, NEW q \in Nat, TypePlace(types, n, q), NEW s \in Nat, q <= s + 1, 1 <= s
  PROVE  Known(lib, s, TypeUse(CTypeName(types[n].name)))
<1> DEFINE x == Type(CTypeName(types[n].name))
<1>1. TypeUse(CTypeName(types[n].name)) = <<x.kind, x.name>>
  BY TypeIs DEF TypeUse
<1>2. /\ L \in Nat /\ L = Len(Declared(types)) /\ DOMAIN Declared(types) = 1 .. L
      /\ lib[1].facts = {Type(CTypeName(name)) : name \in Range(Primitive)}
      /\ \A i \in 1 .. L : lib[3 + i] = CcDeclaration(types, Declared(types)[i])
  BY DEF CcItemsAre
<1>3. CASE n < NumBuiltins
  <2>1. types[n].name \in Range(Primitive)
    BY <1>3, TypeFacts
  <2>2. x \in lib[1].facts /\ 1 \in 1 .. s
    BY <1>2, <2>1
  <2> HIDE DEF x
  <2> QED
    BY <1>1, <2>2, KnownBy
<1>4. CASE ~(n < NumBuiltins)
  <2>1. CTypeName(types[n].name) = types[n].name
    BY <1>4, TypeFacts
  <2>2. PICK i \in 1 .. L : Declared(types)[i] = types[n] /\ q = 4 + i
    BY <1>2, <1>4 DEF TypePlace, DeclaredAt
  <2>3. types[n].kind \in Kinds
    BY <1>4, TypeFacts
  <2>4. x \in CcDeclaration(types, types[n]).facts
    BY <2>1, <2>3, CcDeclares
  <2>5. x \in lib[3 + i].facts /\ 3 + i \in 1 .. s
    BY <1>2, <2>2, <2>4
  <2> HIDE DEF x
  <2> QED
    BY <1>1, <2>5, KnownBy
<1> QED
  BY <1>3, <1>4

LEMMA OverloadKnown ==
  ASSUME NEW types, NEW lib, NEW L, NEW N, CcItemsAre(lib, types, L, N),
         NEW n \in 1 .. N, NEW f \in PackNames(types[n]), NEW q \in Nat, L + 4 + n <= q
  PROVE  Known(lib, q, <<"function", Overload(f, types[n].name)>>)
<1> DEFINE x == OverloadFact(f, types[n])
<1>1. /\ x \in OverloadFacts(types[n])
      /\ x.kind = "function" /\ x.name = Overload(f, types[n].name)
  BY OverloadsAre, OverloadIs
<1> HIDE DEF x
<1>2. L \in Nat /\ N \in Nat /\ lib[L + 4 + n] = CcPacking(types, types[n])
  BY DEF CcItemsAre
<1>3. L + 4 + n \in 1 .. q
  BY <1>2
<1>4. x \in lib[L + 4 + n].facts
  BY <1>1, <1>2, CcPackingIs
<1>5. <<"function", Overload(f, types[n].name)>> = <<x.kind, x.name>>
  BY <1>1
<1> QED
  BY <1>3, <1>4, <1>5, KnownBy

LEMMA KnownIsHead ==
  ASSUME NEW types, Usable(types), NEW lib, NEW L, NEW N, CcItemsAre(lib, types, L, N),
         NEW q \in DOMAIN lib, NEW name, Known(lib, q, TypeUse(name))
  PROVE  \E p : CcHead(types, name, p)
<1>1. PICK m \in 1 .. q : Declares(lib[m], TypeUse(name))
  BY DEF Known
<1>2. PICK x \in lib[m].facts : TypeUse(name) = <<x.kind, x.name>>
  BY <1>1 DEF Declares
<1>3. x.kind = "type" /\ x.name = <<name>>
  BY <1>2 DEF TypeUse
<1>4. /\ L \in Nat /\ N \in Nat /\ DOMAIN lib = 1 .. (L + N + 5)
      /\ \A n \in 1 .. N : lib[L + 4 + n] = CcPacking(types, types[n])
      /\ lib[L + N + 5].facts = Unpackers
  BY DEF CcItemsAre
<1>5. m \in 1 .. (L + N + 5)
  BY <1>4
<1>6. \/ m \in {1, 2, 3} \/ \E n \in 1 .. L : m = 3 + n
      \/ m = L + 4 \/ m = L + N + 5 \/ \E n \in 1 .. N : m = L + 4 + n
  BY ONLY <1>4, <1>5, PlacesInCc
<1>7. m # L + N + 5
  BY <1>3, <1>4, UnpackersAre, OwnFunctionIs
<1>8. ~\E n \in 1 .. N : m = L + 4 + n
  <2> SUFFICES ASSUME NEW n \in 1 .. N, m = L + 4 + n PROVE FALSE
    OBVIOUS
  <2>1. x \in OverloadFacts(types[n])
    BY <1>4, CcPackingIs
  <2> QED
    BY <1>3, <2>1, OverloadsAre, OverloadIs
<1>9. m \in 1 .. (L + 4)
  <2>1. L \in Nat /\ N \in Nat
    BY <1>4
  <2>2. CASE m \in {1, 2, 3} \/ m = L + 4
    BY ONLY <2>1, <2>2
  <2>3. CASE \E n \in 1 .. L : m = 3 + n
    BY ONLY <2>1, <2>3
  <2> QED
    BY <1>6, <1>7, <1>8, <2>2, <2>3
<1> QED
  BY <1>3, <1>9, CcHeads, HeadedOne

LEMMA CcIntegersUnknown ==
  ASSUME NEW types, Usable(types), NEW lib, NEW L, NEW N, CcItemsAre(lib, types, L, N),
         NEW q \in DOMAIN lib, NEW name \in DOMAIN CIntegers
  PROVE  ~Known(lib, q, TypeUse(name))
<1>1. name \notin CcTaken
  BY DEF CIntegers, CcTaken
<1> QED
  BY <1>1, KnownIsHead, NotInteger DEF CcHead

-----------------------------------------------------------------------------
LEMMA CcBodyUsesAre ==
  ASSUME NEW types, NEW t, NEW u
  PROVE  u \in CcBodyUses(types, t) <=>
           \E f \in Range(t.fields) :
             \/ \E p \in PackNames(Root(types, f)) : u = <<"function", Overload(p, Root(types, f).name)>>
             \/ f.alias /\ u = TypeUse(Root(types, f).name)
BY DEF CcBodyUses, AliasedRoots

\* The declarations of a C++ library use what is known.
LEMMA CcDeclarationKnows ==
  ASSUME NEW types, Usable(types), NEW lib, NEW L, NEW N, CcItemsAre(lib, types, L, N),
         NEW n \in 1 .. L, NEW use \in CcDeclaration(types, Declared(types)[n]).uses
  PROVE  Known(lib, 3 + n, use)
<1> DEFINE t == Declared(types)[n]
<1>1. L \in Nat /\ DOMAIN Declared(types) = 1 .. L
  BY DEF CcItemsAre
<1>2. DeclaredAt(types, t, 4 + n)
  BY <1>1 DEF DeclaredAt
<1>3. PICK i \in DOMAIN types : types[i] = t /\ t.kind \in Kinds
  BY <1>1, UsableHas, OfKindHas DEF Declared, Range
<1>4. t.kind \notin {"Enum", "Bitfield"} /\ use \in FieldUses(types, t)
  BY CcDeclarationIs
<1>5. PICK f \in Range(t.fields) : use = TypeUse(CTypeName(Root(types, f).name))
  BY <1>4, FieldUsesAre
<1> HIDE DEF t
<1>6. t.kind \in {"Struct", "Message"}
  BY <1>3, <1>4 DEF Kinds
<1>7. DeclaredAt(types, types[i], 4 + n) /\ types[i].kind \in {"Struct", "Message"} /\ f \in Range(types[i].fields)
  BY <1>2, <1>3, <1>6
<1> DEFINE r == f.type.index
<1>8. r \in DOMAIN types /\ Root(types, f) = types[r] /\ \E q \in Nat : q <= 4 + n /\ TypePlace(types, r, q)
  BY <1>7, RootBefore
<1> HIDE DEF r
<1>9. PICK q \in Nat : q <= 4 + n /\ TypePlace(types, r, q)
  BY <1>8
<1>10. 3 + n \in Nat /\ q <= (3 + n) + 1 /\ 1 <= 3 + n
  BY <1>1, <1>9
<1>11. Known(lib, 3 + n, TypeUse(CTypeName(types[r].name)))
  BY <1>8, <1>9, <1>10, CcTypeKnown
<1> QED
  BY <1>5, <1>8, <1>11

\* So do the functions that pack a structure, unless an alias has an integer of C as its root.
LEMMA CcBodyKnows ==
  ASSUME NEW types, Usable(types), NEW lib, NEW L, NEW N, CcItemsAre(lib, types, L, N),
         NEW n \in DOMAIN types, types[n].kind \in {"Struct", "Message"},
         ~IntegerAlias(types), NEW use \in CcBodyUses(types, types[n])
  PROVE  Known(lib, L + 4 + n, use)
<1>1. L \in Nat /\ N \in Nat /\ N = Len(types) /\ DOMAIN types = 1 .. N /\ L = Len(Declared(types)) /\ IsSeq(types)
  BY DEF CcItemsAre
<1>2. PICK f \in Range(types[n].fields) :
        \/ \E name \in PackNames(Root(types, f)) : use = <<"function", Overload(name, Root(types, f).name)>>
        \/ f.alias /\ use = TypeUse(Root(types, f).name)
  BY CcBodyUsesAre
<1>3. types[n] \in Range(Declared(types))
  <2>1. ~(n < NumBuiltins)
    BY TypeFacts
  <2> QED
    BY <2>1, TypeFacts
<1>4. PICK p : DeclaredAt(types, types[n], p)
  BY <1>3, DeclaredPlaces
<1>5. p \in 5 .. (L + 4)
  BY <1>1, <1>4, DeclaredPlaces
<1> DEFINE r == f.type.index
<1>6. /\ r \in DOMAIN types /\ r < n /\ n \in Nat /\ r \in Nat /\ Root(types, f) = types[r]
      /\ \E q \in Nat : q <= p /\ TypePlace(types, r, q)
  BY <1>4, RootBefore
<1> HIDE DEF r
<1>7. PICK q \in Nat : q <= p /\ TypePlace(types, r, q)
  BY <1>6
<1>8. /\ L + 4 + n \in Nat /\ q <= (L + 4 + n) + 1 /\ 1 <= L + 4 + n
      /\ L + 4 + r <= L + 4 + n /\ r \in 1 .. N
  <2>1. L \in Nat /\ N \in Nat /\ n \in 1 .. N /\ r \in 1 .. N /\ p \in Int /\ p <= L + 4 /\ q \in Nat /\ q <= p /\ r < n
    BY <1>1, <1>5, <1>6, <1>7
  <2> QED
    BY ONLY <2>1
<1>9. CASE \E name \in PackNames(Root(types, f)) : use = <<"function", Overload(name, Root(types, f).name)>>
  <2>1. PICK name \in PackNames(types[r]) : use = <<"function", Overload(name, types[r].name)>>
    BY <1>6, <1>9
  <2>2. Known(lib, L + 4 + n, <<"function", Overload(name, types[r].name)>>)
    BY <1>8, OverloadKnown
  <2> QED
    BY <2>1, <2>2
<1>10. CASE f.alias /\ use = TypeUse(Root(types, f).name)
  <2>1. f \in Fields(types, {"Struct", "Message"})
    BY <1>1, FieldsAre1
  <2>2. types[r].name \notin DOMAIN CIntegers
    BY <1>6, <1>10, <2>1 DEF IntegerAlias
  <2>3. CTypeName(types[r].name) = types[r].name
    BY <2>2 DEF CTypeName
  <2>4. Known(lib, L + 4 + n, TypeUse(CTypeName(types[r].name)))
    BY <1>6, <1>7, <1>8, CcTypeKnown
  <2> QED
    BY <1>6, <1>10, <2>3, <2>4
<1> QED
  BY <1>2, <1>9, <1>10

LEMMA CcLibraryKnows ==
  ASSUME NEW types, Usable(types), NEW lib, NEW L, NEW N, CcItemsAre(lib, types, L, N)
  PROVE  Known(lib, L + N + 5, <<"function", Overload("SsUnpackSsHeader", "SsHeader")>>)
<1>1. L \in Nat /\ N \in Nat /\ N = Len(types) /\ DOMAIN types = 1 .. N
  BY DEF CcItemsAre
<1>2. NumBuiltins \in 1 .. N
  <2>1. Len(Primitive) \in Nat
    BY PrimitiveAssumption DEF PrimitiveAssumption
  <2> QED
    BY <1>1, <2>1 DEF Usable, NumBuiltins
<1>3. types[NumBuiltins].name = "SsHeader"
  BY <1>1, <1>2 DEF Usable, TypeUsable
<1>4. "SsUnpackSsHeader" \in PackNames(types[NumBuiltins])
  BY Zenon, <1>3, Spellings DEF PackNames
<1>5. L + N + 5 \in Nat /\ L + 4 + NumBuiltins <= L + N + 5
  BY <1>1, <1>2
<1>6. Known(lib, L + N + 5, <<"function", Overload("SsUnpackSsHeader", types[NumBuiltins].name)>>)
  BY <1>2, <1>4, <1>5, OverloadKnown
<1> QED
  BY <1>3, <1>6

\* Everything is declared before it is used exactly when no alias has an integer of C
\* as its root.
LEMMA CcKnows ==
  ASSUME NEW types, Usable(types), NEW lib, NEW L, NEW N, CcItemsAre(lib, types, L, N)
  PROVE  UsesKnown(lib) <=> ~IntegerAlias(types)
<1>1. L \in Nat /\ N \in Nat /\ DOMAIN types = 1 .. N /\ DOMAIN lib = 1 .. (L + N + 5) /\ IsSeq(types)
  BY DEF CcItemsAre
<1>2. /\ lib[1].uses = {} /\ lib[2].uses = {} /\ lib[3].uses = {} /\ lib[L + 4].uses = {}
      /\ \A n \in 1 .. L : lib[3 + n] = CcDeclaration(types, Declared(types)[n])
      /\ \A n \in 1 .. N : lib[L + 4 + n] = CcPacking(types, types[n])
      /\ lib[L + N + 5].uses = {<<"function", Overload("SsUnpackSsHeader", "SsHeader")>>}
  BY DEF CcItemsAre
<1>3. ASSUME ~IntegerAlias(types), NEW p \in DOMAIN lib, NEW use \in lib[p].uses PROVE Known(lib, p, use)
  <2>1. L \in Nat /\ N \in Nat /\ p \in 1 .. (L + N + 5)
    BY <1>1
  <2>2. \/ p \in {1, 2, 3} \/ \E n \in 1 .. L : p = 3 + n
        \/ p = L + 4 \/ p = L + N + 5 \/ \E n \in 1 .. N : p = L + 4 + n
    BY ONLY <2>1, PlacesInCc
  <2>3. p \notin {1, 2, 3} /\ p # L + 4
    BY <1>2, <1>3
  <2>4. CASE \E n \in 1 .. L : p = 3 + n
    <3>1. PICK n \in 1 .. L : p = 3 + n
      BY <2>4
    <3>2. use \in CcDeclaration(types, Declared(types)[n]).uses
      BY <1>2, <1>3, <3>1
    <3> QED
      BY <3>1, <3>2, CcDeclarationKnows
  <2>5. CASE \E n \in 1 .. N : p = L + 4 + n
    <3>1. PICK n \in 1 .. N : p = L + 4 + n
      BY <2>5
    <3>2. use \in CcPacking(types, types[n]).uses /\ n \in DOMAIN types
      BY <1>1, <1>2, <1>3, <3>1
    <3>3. types[n].kind \in {"Struct", "Message"} /\ use \in CcBodyUses(types, types[n])
      BY <3>2, CcPackingIs
    <3> QED
      BY <1>3, <3>1, <3>2, <3>3, CcBodyKnows
  <2>6. CASE p = L + N + 5
    <3>1. use = <<"function", Overload("SsUnpackSsHeader", "SsHeader")>>
      BY <1>2, <1>3, <2>6
    <3> QED
      BY <2>6, <3>1, CcLibraryKnows
  <2> QED
    BY <2>2, <2>3, <2>4, <2>5, <2>6
<1>4. ASSUME IntegerAlias(types), UsesKnown(lib) PROVE FALSE
  <2>1. PICK f \in Fields(types, {"Struct", "Message"}) :
          f.alias /\ Root(types, f).name \in DOMAIN CIntegers
    BY <1>4 DEF IntegerAlias
  <2>2. PICK n \in DOMAIN types : types[n].kind \in {"Struct", "Message"} /\ f \in Range(types[n].fields)
    BY <1>1, <2>1, FieldsAre1
  <2> DEFINE use == TypeUse(Root(types, f).name)
  <2>3. use \in CcBodyUses(types, types[n])
    BY <2>1, <2>2, CcBodyUsesAre
  <2>4. use \in CcPacking(types, types[n]).uses
    BY <2>2, <2>3, CcPackingIs
  <2> HIDE DEF use
  <2>5. L + 4 + n \in DOMAIN lib /\ use \in lib[L + 4 + n].uses
    BY <1>1, <1>2, <2>4
  <2>6. Known(lib, L + 4 + n, use)
    BY <1>4, <2>5 DEF UsesKnown
  <2>7. ~Known(lib, L + 4 + n, TypeUse(Root(types, f).name))
    BY <2>1, <2>5, CcIntegersUnknown
  <2> QED
    BY <2>6, <2>7 DEF use
<1> QED
  BY <1>3, <1>4 DEF UsesKnown

-----------------------------------------------------------------------------
\* Two names of a C++ library that are one.
CcClash(types) ==
  LET messages == Messages(types)
  IN  \/ "Unknown" \in Names(messages)
      \/ \E m, n \in DOMAIN messages : m < n /\ Snake[messages[m].name] = Snake[messages[n].name]
      \/ \E f \in Fields(types, {"Message"}) : f.name \in OwnMembers
      \/ \E m, n \in DOMAIN types : m < n /\ CTypeName(types[m].name) = CTypeName(types[n].name)
      \/ Names(types) \cap CcTaken # {}

\* A type with its numbers, no two of which have one name.
Apart(names) == \A m, n \in DOMAIN names : names[m] = names[n] => m = n
Enumerates(x, v, names) == x = Type(v) \/ \E n \in DOMAIN names : x = NumberFact(v, names, n)

LEMMA NumberedOne ==
  ASSUME NEW names, Apart(names), NEW v, NEW x, Enumerates(x, v, names),
         NEW y, Enumerates(y, v, names), x.name = y.name
  PROVE  x = y
<1>1. CASE x = Type(v) /\ y = Type(v)
  BY <1>1
<1>2. \A n : NumberFact(v, names, n).name # Type(v).name
  <2> SUFFICES ASSUME NEW n PROVE NumberFact(v, names, n).name # Type(v).name
    OBVIOUS
  <2>1. NumberFact(v, names, n).name = Scoped(v, names[n])
    BY NumberIs
  <2>2. Type(v).name = <<v>>
    BY TypeIs
  <2>3. Scoped(v, names[n]) # <<v>>
    BY ScopedNot
  <2> QED
    BY <2>1, <2>2, <2>3
<1>4. CASE \E m, n \in DOMAIN names : x = NumberFact(v, names, m) /\ y = NumberFact(v, names, n)
  <2>1. PICK m \in DOMAIN names, n \in DOMAIN names : x = NumberFact(v, names, m) /\ y = NumberFact(v, names, n)
    BY <1>4
  <2>2. x.name = Scoped(v, names[m]) /\ y.name = Scoped(v, names[n])
    BY <2>1, NumberIs
  <2>4. Scoped(v, names[m]) = Scoped(v, names[n])
    BY <2>2
  <2>3. names[m] = names[n]
    BY <2>4, ScopedIs
  <2> QED
    BY <2>1, <2>3 DEF Apart
<1> QED
  BY <1>1, <1>2, <1>4 DEF Enumerates

\* The names of messages and of values.
LEMMA NamesApart ==
  ASSUME NEW ts, IsSeq(ts), Distinct(ts)
  PROVE  /\ Apart(NameSeq(ts)) /\ DOMAIN NameSeq(ts) = DOMAIN ts
         /\ "Unknown" \notin Names(ts) => Apart(Append(NameSeq(ts), "Unknown"))
<1> DEFINE names == Append(NameSeq(ts), "Unknown")
           L == Len(ts)
<1>1. /\ DOMAIN NameSeq(ts) = DOMAIN ts
      /\ \A n \in DOMAIN ts : NameSeq(ts)[n] = ts[n].name
  BY NamesOf
<1>2. L \in Nat /\ DOMAIN ts = 1 .. L
  BY SeqIs
<1>3. /\ DOMAIN names = 1 .. (L + 1) /\ \A n \in DOMAIN ts : names[n] = ts[n].name
      /\ names[L + 1] = "Unknown"
  BY NamesAppended
<1>4. \A m, n \in DOMAIN ts : ts[m].name = ts[n].name => m = n
  BY DEF Distinct
<1> HIDE DEF names, L
<1>5. Apart(NameSeq(ts))
  BY <1>1, <1>4 DEF Apart
<1>6. ASSUME "Unknown" \notin Names(ts) PROVE Apart(names)
  <2>1. \A n \in DOMAIN ts : ts[n].name # "Unknown"
    BY <1>6 DEF Names, Range
  <2>2. \A n \in DOMAIN names : n = L + 1 \/ n \in DOMAIN ts
    BY <1>2, <1>3
  <2> QED
    BY <1>2, <1>3, <1>4, <2>1, <2>2 DEF Apart
<1> QED
  BY <1>1, <1>5, <1>6 DEF names

LEMMA StatusApart == Apart(StatusNames)
BY DEF Apart, StatusNames

\* The first items of a library, and the declarations.
LEMMA CcTypesOne ==
  ASSUME NEW x \in {Type(CTypeName(name)) : name \in Range(Primitive)},
         NEW y \in {Type(CTypeName(name)) : name \in Range(Primitive)}, x.name = y.name
  PROVE  x = y
<1>1. PICK a : x = Type(a)
  OBVIOUS
<1>2. PICK b : y = Type(b)
  OBVIOUS
<1>3. x.name = <<a>> /\ y.name = <<b>>
  BY <1>1, <1>2, TypeIs
<1>4. <<a>>[1] = <<b>>[1]
  BY <1>3
<1> QED
  BY <1>1, <1>2, <1>4

LEMMA CcFirstOne ==
  ASSUME NEW types, NEW x \in CcFirst(types), NEW y \in CcFirst(types), x.name = y.name
  PROVE  x = y
<1> DEFINE C == {"kNumMsgTypes", "kHeaderPackedSize"}
           F == {"InspectHeader", "UnpackMessage"}
<1>1. \A z \in CcFirst(types) :
        \/ Enumerates(z, "Status", StatusNames)
        \/ \E v \in C : z = OwnConstant(types, v)
        \/ \E v \in F : z = OwnFunction(v)
  BY CcFirstIs DEF Enumerates
<1>2. \A z : Enumerates(z, "Status", StatusNames) => z.name[1] = "Status"
  <2> SUFFICES ASSUME NEW z, Enumerates(z, "Status", StatusNames) PROVE z.name[1] = "Status"
    OBVIOUS
  <2>1. Headed(z, "Status")
    BY AllHeaded DEF Enumerates
  <2> QED
    BY <2>1, HeadedIs
<1>3. \A v : OwnConstant(types, v).name[1] = v /\ OwnFunction(v).name[1] = v
  BY AllHeaded, HeadedIs
<1>4. CASE Enumerates(x, "Status", StatusNames) /\ Enumerates(y, "Status", StatusNames)
  BY <1>4, NumberedOne, StatusApart
<1> QED
  BY <1>1, <1>2, <1>3, <1>4

-----------------------------------------------------------------------------
LEMMA CcDeclaredOne ==
  ASSUME NEW types, NEW t, t.kind \in Kinds, IsSeq(t.fields), Distinct(t.fields),
         t.kind = "Message" => \A f \in Range(t.fields) : f.name \notin OwnMembers,
         NEW x \in CcDeclaration(types, t).facts, NEW y \in CcDeclaration(types, t).facts,
         x.name = y.name
  PROVE  x = y
<1>1. x = Type(t.name) \/ CcMember(types, t, x)
  BY CcDeclares
<1>2. y = Type(t.name) \/ CcMember(types, t, y)
  BY CcDeclares
<1>3. CASE t.kind = "Enum"
  <2>1. Enumerates(x, t.name, NameSeq(t.fields)) /\ Enumerates(y, t.name, NameSeq(t.fields))
    BY <1>1, <1>2, <1>3, NamesApart DEF CcMember, Enumerates
  <2>2. Apart(NameSeq(t.fields))
    BY NamesApart
  <2> QED
    BY <2>1, <2>2, NumberedOne
<1>4. CASE t.kind # "Enum"
  <2>1. \A z : CcMember(types, t, z) =>
          \/ \E f \in Range(t.fields) : z = MemberFact(types, t, f)
          \/ t.kind = "Message" /\ \E v \in OwnMembers : z = ClassFact(types, t, v)
    BY <1>4 DEF CcMember
  <2>2. \A z : CcMember(types, t, z) => z.name # Type(t.name).name
    <3> SUFFICES ASSUME NEW z, CcMember(types, t, z) PROVE z.name # Type(t.name).name
      OBVIOUS
    <3>1. PICK a : z.name = Scoped(t.name, a)
      BY CcMemberIs
    <3>2. Scoped(t.name, a) # <<t.name>>
      BY ScopedNot
    <3>3. Type(t.name).name = <<t.name>>
      BY TypeIs
    <3> QED
      BY <3>1, <3>2, <3>3
  <2>3. \A f, g \in Range(t.fields) : f.name = g.name => f = g
    BY DEF Distinct, Range
  <2>4. \A a, b : Scoped(t.name, a) = Scoped(t.name, b) => a = b
    <3> SUFFICES ASSUME NEW a, NEW b, Scoped(t.name, a) = Scoped(t.name, b) PROVE a = b
      OBVIOUS
    <3> QED
      BY ScopedIs
  <2>5. \A f : MemberFact(types, t, f).name = Scoped(t.name, f.name)
    BY MemberIs
  <2>6. \A v \in OwnMembers : ClassFact(types, t, v).name = Scoped(t.name, v)
    BY ClassFactIs
  <2>7. CASE \E f, g \in Range(t.fields) : x = MemberFact(types, t, f) /\ y = MemberFact(types, t, g)
    <3>1. PICK f \in Range(t.fields), g \in Range(t.fields) :
            x = MemberFact(types, t, f) /\ y = MemberFact(types, t, g)
      BY <2>7
    <3>2. Scoped(t.name, f.name) = Scoped(t.name, g.name)
      BY <2>5, <3>1
    <3> QED
      BY <2>3, <2>4, <3>1, <3>2
  <2>8. CASE \E u, v \in OwnMembers : x = ClassFact(types, t, u) /\ y = ClassFact(types, t, v)
    <3>1. PICK u \in OwnMembers, v \in OwnMembers : x = ClassFact(types, t, u) /\ y = ClassFact(types, t, v)
      BY <2>8
    <3>2. Scoped(t.name, u) = Scoped(t.name, v)
      BY <2>6, <3>1
    <3> QED
      BY <2>4, <3>1, <3>2
  <2>9. ASSUME NEW f \in Range(t.fields), t.kind = "Message", NEW v \in OwnMembers
        PROVE  MemberFact(types, t, f).name # ClassFact(types, t, v).name
    <3>1. f.name # v
      BY <2>9
    <3>2. Scoped(t.name, f.name) # Scoped(t.name, v)
      BY <2>4, <3>1
    <3> QED
      BY <2>5, <2>6, <3>2
  <2> QED
    BY <1>1, <1>2, <2>1, <2>2, <2>7, <2>8, <2>9
<1> QED
  BY <1>3, <1>4

\* The callbacks and what else is with them.
SnakesApart(types) ==
  \A m, n \in DOMAIN Messages(types) :
    Snake[Messages(types)[m].name] = Snake[Messages(types)[n].name] => m = n

LEMMA CcLastOne ==
  ASSUME NEW types, Usable(types), SnakesApart(types),
         NEW x \in CcLast(types), NEW y \in CcLast(types), x.name = y.name
  PROVE  x = y
<1> DEFINE M == Messages(types)
           dispatched(z) == \/ z = Type("MessageDispatcher")
                            \/ \E v \in {"Unpack", "AddCallback"} : z = OwnMethod(v)
                            \/ \E n \in DOMAIN M : z = CallFact(M[n])
<1>1. IsSeq(types) /\ IsSeq(M) /\ Distinct(M)
  BY UsableHas, OfKindHas DEF Messages
<1>2. Apart(NameSeq(M)) /\ DOMAIN NameSeq(M) = DOMAIN M
  BY <1>1, NamesApart
<1>3. \A z \in CcLast(types) : Enumerates(z, "AnyMessage", NameSeq(M)) \/ dispatched(z)
  BY <1>1, <1>2, CcLastIs DEF Enumerates
<1>4. \A m, n \in DOMAIN M : Snake[M[m].name] = Snake[M[n].name] => m = n
  BY DEF SnakesApart
<1> HIDE DEF M
<1>5. \A z : Enumerates(z, "AnyMessage", NameSeq(M)) => z.name[1] = "AnyMessage"
  <2> SUFFICES ASSUME NEW z, Enumerates(z, "AnyMessage", NameSeq(M)) PROVE z.name[1] = "AnyMessage"
    OBVIOUS
  <2>1. Headed(z, "AnyMessage")
    BY AllHeaded DEF Enumerates
  <2> QED
    BY <2>1, HeadedIs
<1>6. \A z : dispatched(z) => z.name[1] = "MessageDispatcher"
  <2> SUFFICES ASSUME NEW z, dispatched(z) PROVE z.name[1] = "MessageDispatcher"
    OBVIOUS
  <2>1. Headed(z, "MessageDispatcher")
    BY AllHeaded
  <2> QED
    BY <2>1, HeadedIs
<1>7. CASE Enumerates(x, "AnyMessage", NameSeq(M)) /\ Enumerates(y, "AnyMessage", NameSeq(M))
  BY <1>2, <1>7, NumberedOne
<1>8. CASE dispatched(x) /\ dispatched(y)
  <2>1. Type("MessageDispatcher").name = <<"MessageDispatcher">>
    BY TypeIs
  <2>2. \A v : OwnMethod(v).name = <<"MessageDispatcher", v>>
    BY OwnIs DEF Scoped
  <2>3. \A m : CallFact(m).name = <<"MessageDispatcher", "callbacks", Snake[m.name]>>
    BY OwnIs
  <2>4. \A u, v : <<"MessageDispatcher", u>> = <<"MessageDispatcher", v>> => u = v
    <3> SUFFICES ASSUME NEW u, NEW v, <<"MessageDispatcher", u>> = <<"MessageDispatcher", v>> PROVE u = v
      OBVIOUS
    <3>1. <<"MessageDispatcher", u>>[2] = u /\ <<"MessageDispatcher", v>>[2] = v
      OBVIOUS
    <3> QED
      BY <3>1
  <2>5. \A u, v : <<"MessageDispatcher", "callbacks", u>> = <<"MessageDispatcher", "callbacks", v>> => u = v
    <3> SUFFICES ASSUME NEW u, NEW v,
                        <<"MessageDispatcher", "callbacks", u>> = <<"MessageDispatcher", "callbacks", v>>
                 PROVE  u = v
      OBVIOUS
    <3>1. /\ <<"MessageDispatcher", "callbacks", u>>[3] = u
          /\ <<"MessageDispatcher", "callbacks", v>>[3] = v
      OBVIOUS
    <3> QED
      BY <3>1
  <2>6. \A u, v : /\ <<"MessageDispatcher">> # <<"MessageDispatcher", u>>
                  /\ <<"MessageDispatcher">> # <<"MessageDispatcher", "callbacks", u>>
                  /\ <<"MessageDispatcher", u>> # <<"MessageDispatcher", "callbacks", v>>
    OBVIOUS
  <2>7. CASE \E m, n \in DOMAIN M : x = CallFact(M[m]) /\ y = CallFact(M[n])
    <3>1. PICK m \in DOMAIN M, n \in DOMAIN M : x = CallFact(M[m]) /\ y = CallFact(M[n])
      BY <2>7
    <3>2. Snake[M[m].name] = Snake[M[n].name]
      BY <2>3, <2>5, <3>1
    <3> QED
      BY <1>4, <3>1, <3>2
  <2>8. CASE \E u, v : x = OwnMethod(u) /\ y = OwnMethod(v)
    BY <2>2, <2>4, <2>8
  <2>9. \A u, v : /\ Type("MessageDispatcher").name # OwnMethod(u).name
                  /\ Type("MessageDispatcher").name # CallFact(u).name
                  /\ OwnMethod(u).name # CallFact(v).name
    <3> SUFFICES ASSUME NEW u, NEW v
                 PROVE  /\ Type("MessageDispatcher").name # OwnMethod(u).name
                        /\ Type("MessageDispatcher").name # CallFact(u).name
                        /\ OwnMethod(u).name # CallFact(v).name
      OBVIOUS
    <3>1. OwnMethod(u).name = <<"MessageDispatcher", u>>
      BY <2>2
    <3>2. /\ CallFact(u).name = <<"MessageDispatcher", "callbacks", Snake[u.name]>>
          /\ CallFact(v).name = <<"MessageDispatcher", "callbacks", Snake[v.name]>>
      BY <2>3
    <3> QED
      BY ONLY <2>1, <2>6, <3>1, <3>2
  <2> QED
    BY <1>8, <2>7, <2>8, <2>9
<1> QED
  BY <1>3, <1>5, <1>6, <1>7, <1>8

-----------------------------------------------------------------------------
LEMMA CcNoClash ==
  ASSUME NEW types, Usable(types)
  PROVE  CcClash(types) <=>
           ~(/\ "Unknown" \notin Names(Messages(types)) /\ SnakesApart(types)
             /\ \A f \in Fields(types, {"Message"}) : f.name \notin OwnMembers
             /\ OwnCNames(types) /\ \A n \in DOMAIN types : types[n].name \notin CcTaken)
<1> DEFINE M == Messages(types)
<1>1. IsSeq(types) /\ IsSeq(M)
  BY UsableHas, OfKindHas DEF Messages
<1>2. \A a \in DOMAIN M : a \in Int
  BY <1>1, SeqIs
<1>3. \A a \in DOMAIN types : a \in Int
  BY <1>1, SeqIs
<1>4. SnakesApart(types) <=> ~\E m, n \in DOMAIN M : m < n /\ Snake[M[m].name] = Snake[M[n].name]
  <2>1. SnakesApart(types) <=> \A m, n \in DOMAIN M : Snake[M[m].name] = Snake[M[n].name] => m = n
    BY DEF SnakesApart
  <2> HIDE DEF M
  <2> QED
    BY <1>2, <2>1
<1>5. OwnCNames(types) <=>
        ~\E m, n \in DOMAIN types : m < n /\ CTypeName(types[m].name) = CTypeName(types[n].name)
  BY <1>3 DEF OwnCNames
<1>6. Names(types) \cap CcTaken # {} <=> ~\A n \in DOMAIN types : types[n].name \notin CcTaken
  BY DEF Names, Range
<1> HIDE DEF M
<1>7. CcClash(types) <=>
        \/ "Unknown" \in Names(M)
        \/ \E m, n \in DOMAIN M : m < n /\ Snake[M[m].name] = Snake[M[n].name]
        \/ \E f \in Fields(types, {"Message"}) : f.name \in OwnMembers
        \/ \E m, n \in DOMAIN types : m < n /\ CTypeName(types[m].name) = CTypeName(types[n].name)
        \/ Names(types) \cap CcTaken # {}
  BY Zenon DEF CcClash, M
<1> QED
  BY <1>4, <1>5, <1>6, <1>7 DEF M

\* The name in C of a type is taken only when that of the specification is.
LEMMA CcNameTaken ==
  ASSUME NEW name
  PROVE  CTypeName(name) \in CcTaken <=> name \in CcTaken
BY DEF CTypeName, CIntegers, CcTaken

\* A type has one place, and so has what a name is in the scope of.
LEMMA CcPlaceOne ==
  ASSUME NEW types, Usable(types), NEW n, NEW p, CcTypePlace(types, n, p),
         NEW q, CcTypePlace(types, n, q)
  PROVE  p = q
<1>1. CASE n < NumBuiltins
  BY <1>1 DEF CcTypePlace
<1>2. CASE ~(n < NumBuiltins)
  <2>1. PICK i \in DOMAIN Declared(types) : Declared(types)[i] = types[n] /\ p = 3 + i
    BY <1>2 DEF CcTypePlace
  <2>2. PICK m \in DOMAIN Declared(types) : Declared(types)[m] = types[n] /\ q = 3 + m
    BY <1>2 DEF CcTypePlace
  <2>3. DeclaredAt(types, types[n], 4 + i) /\ DeclaredAt(types, types[n], 4 + m)
    BY <2>1, <2>2 DEF DeclaredAt
  <2>4. 4 + i = 4 + m
    BY <2>3, DeclaredPlaces
  <2>5. i \in Int /\ m \in Int
    <3>1. IsSeq(Declared(types))
      BY UsableHas, OfKindHas DEF Declared
    <3> QED
      BY <3>1, SeqIs
  <2> QED
    BY <2>1, <2>2, <2>4, <2>5
<1> QED
  BY <1>1, <1>2

LEMMA CcHeadOne ==
  ASSUME NEW types, Usable(types), ~CcClash(types), NEW v, NEW p, CcHead(types, v, p),
         NEW q, CcHead(types, v, q)
  PROVE  p = q
<1>1. OwnCNames(types) /\ \A n \in DOMAIN types : types[n].name \notin CcTaken
  BY CcNoClash
<1>2. \A n \in DOMAIN types : CTypeName(types[n].name) \notin CcTaken
  BY <1>1, CcNameTaken
<1>3. CASE v \in CcTaken
  BY <1>2, <1>3 DEF CcHead
<1>4. CASE v \notin CcTaken
  <2>1. PICK m \in DOMAIN types : v = CTypeName(types[m].name) /\ CcTypePlace(types, m, p)
    BY <1>4 DEF CcHead
  <2>2. PICK n \in DOMAIN types : v = CTypeName(types[n].name) /\ CcTypePlace(types, n, q)
    BY <1>4 DEF CcHead
  <2>3. m = n
    BY <1>1, <2>1, <2>2 DEF OwnCNames
  <2> QED
    BY <2>1, <2>2, <2>3, CcPlaceOne
<1> QED
  BY <1>3, <1>4

\* Every fact is at a place of its own, or that of a packing function.
LEMMA CcPlaced ==
  ASSUME NEW types, NEW lib, NEW L, NEW N, CcItemsAre(lib, types, L, N),
         NEW p \in DOMAIN lib, NEW x \in lib[p].facts
  PROVE  \/ \E q \in 1 .. (L + 4) : x \in lib[q].facts /\ (x.kind # "function" => q = p)
         \/ \E t, f : x = OverloadFact(f, t)
<1>1. /\ L \in Nat /\ N \in Nat /\ DOMAIN lib = 1 .. (L + N + 5)
      /\ lib[2].facts = CcFirst(types) /\ lib[L + N + 5].facts = Unpackers
      /\ \A n \in 1 .. N : lib[L + 4 + n] = CcPacking(types, types[n])
  BY DEF CcItemsAre
<1>2. CASE p \in 1 .. (L + 4)
  BY <1>2
<1>3. CASE p = L + N + 5
  <2>1. PICK v \in {"InspectHeader", "UnpackMessage"} : x = OwnFunction(v)
    BY <1>1, <1>3, UnpackersAre
  <2>2. x \in CcFirst(types)
    BY <2>1, CcFirstIs
  <2>3. x.kind = "function"
    BY <2>1, OwnFunctionIs
  <2>4. 2 \in 1 .. (L + 4)
    BY <1>1
  <2> QED
    BY <1>1, <2>2, <2>3, <2>4
<1>4. CASE \E n \in 1 .. N : p = L + 4 + n
  <2>1. PICK n \in 1 .. N : p = L + 4 + n
    BY <1>4
  <2>2. x \in OverloadFacts(types[n])
    BY <1>1, <2>1, CcPackingIs
  <2>3. \E f : x = OverloadFact(f, types[n])
    BY <2>2, OverloadsAre
  <2> QED
    BY <2>3
<1>5. p \in 1 .. (L + 4) \/ p = L + N + 5 \/ p - (L + 4) \in 1 .. N
  BY <1>1
<1>6. p - (L + 4) \in 1 .. N => p = L + 4 + (p - (L + 4))
  BY <1>1
<1> QED
  BY <1>2, <1>3, <1>4, <1>5, <1>6

-----------------------------------------------------------------------------
LEMMA OverloadOne ==
  ASSUME NEW f, NEW t, NEW g, NEW u, OverloadFact(f, t).name = OverloadFact(g, u).name
  PROVE  OverloadFact(f, t) = OverloadFact(g, u)
<1>1. OverloadFact(f, t).name = Overload(f, t.name) /\ OverloadFact(g, u).name = Overload(g, u.name)
  BY OverloadIs
<1>2. Overload(f, t.name) = Overload(g, u.name)
  BY Zenon, <1>1
<1> QED
  BY Zenon, <1>2 DEF OverloadFact

LEMMA OverloadApart ==
  ASSUME NEW x, NEW v, Headed(x, v), NEW f, NEW t
  PROVE  x.name # OverloadFact(f, t).name
<1>1. OverloadFact(f, t).name = <<f, "(", CTypeName(t.name)>>
  BY OverloadIs DEF Overload
<1>2. CASE x.name = <<v>>
  BY <1>1, <1>2
<1>3. CASE \E a : x.name = Scoped(v, a)
  BY <1>1, <1>3 DEF Scoped
<1>4. CASE \E a : x.name = <<v, "callbacks", a>>
  BY <1>1, <1>4
<1> QED
  BY <1>2, <1>3, <1>4 DEF Headed

LEMMA CcItemOne ==
  ASSUME NEW types, Usable(types), ~CcClash(types), NEW lib, NEW L, NEW N, CcItemsAre(lib, types, L, N),
         NEW p \in 1 .. (L + 4), NEW x \in lib[p].facts, NEW y \in lib[p].facts, x.name = y.name
  PROVE  x = y
<1>1. /\ IsSeq(types) /\ L \in Nat /\ L = Len(Declared(types)) /\ DOMAIN Declared(types) = 1 .. L
      /\ lib[1].facts = {Type(CTypeName(name)) : name \in Range(Primitive)}
      /\ lib[2].facts = CcFirst(types) /\ lib[3].facts = CcMsgType(types)
      /\ \A n \in 1 .. L : lib[3 + n] = CcDeclaration(types, Declared(types)[n])
      /\ lib[L + 4].facts = CcLast(types)
  BY DEF CcItemsAre
<1>2. /\ "Unknown" \notin Names(Messages(types)) /\ SnakesApart(types)
      /\ \A f \in Fields(types, {"Message"}) : f.name \notin OwnMembers
  BY CcNoClash
<1>3. \/ p \in {1, 2, 3} \/ p = L + 4 \/ \E n \in 1 .. L : p = 3 + n
  <2>1. p \in {1, 2, 3} \/ p = L + 4 \/ (p - 3 \in 1 .. L /\ p = 3 + (p - 3))
    BY <1>1
  <2> QED
    BY <2>1
<1>4. CASE p = 1
  BY <1>1, <1>4, CcTypesOne
<1>5. CASE p = 2
  BY <1>1, <1>5, CcFirstOne
<1>6. CASE p = 3
  <2> DEFINE M == Messages(types)
             names == Append(NameSeq(M), "Unknown")
  <2>1. IsSeq(M) /\ Distinct(M)
    BY <1>1, UsableHas, OfKindHas DEF Messages
  <2>2. CcMsgType(types) = {Type("MsgType")} \cup Numbered("MsgType", names)
    BY Zenon DEF CcMsgType, CcEnum
  <2>3. "Unknown" \notin Names(M)
    BY <1>2
  <2>4. Apart(names)
    <3> HIDE DEF M
    <3> QED
      BY <2>1, <2>3, NamesApart
  <2> HIDE DEF names
  <2>5. Enumerates(x, "MsgType", names) /\ Enumerates(y, "MsgType", names)
    BY <1>1, <1>6, <2>2, NumberedIs DEF Enumerates
  <2> QED
    BY <2>4, <2>5, NumberedOne
<1>7. CASE p = L + 4
  BY <1>1, <1>2, <1>7, CcLastOne
<1>8. CASE \E n \in 1 .. L : p = 3 + n
  <2>1. PICK i \in 1 .. L : p = 3 + i
    BY <1>8
  <2> DEFINE t == Declared(types)[i]
  <2>2. /\ t.kind \in Kinds /\ t \in Range(Declared(types))
        /\ \E n \in DOMAIN types : types[n] = t
    BY <1>1, DeclaredIs
  <2>3. x \in CcDeclaration(types, t).facts /\ y \in CcDeclaration(types, t).facts
    BY <1>1, <2>1
  <2> HIDE DEF t
  <2>4. IsSeq(t.fields) /\ Distinct(t.fields)
    BY <2>2, UsableHas DEF Range
  <2>5. t.kind = "Message" => \A f \in Range(t.fields) : f \in Fields(types, {"Message"})
    BY <1>1, <2>2, FieldsAre1
  <2>6. t.kind = "Message" => \A f \in Range(t.fields) : f.name \notin OwnMembers
    BY <1>2, <2>5
  <2> QED
    BY <2>2, <2>3, <2>4, <2>6, CcDeclaredOne
<1> QED
  BY <1>3, <1>4, <1>5, <1>6, <1>7, <1>8

\* Without a clash every name means one thing, and is declared once.
LEMMA CcApartNamed ==
  ASSUME NEW types, Usable(types), ~CcClash(types), NEW lib, NEW L, NEW N, CcItemsAre(lib, types, L, N)
  PROVE  Named(lib)
<1>1. L \in Nat
  BY DEF CcItemsAre
<1>2. ASSUME NEW p \in 1 .. (L + 4), NEW x \in lib[p].facts, NEW q \in 1 .. (L + 4), NEW y \in lib[q].facts,
             x.name = y.name
      PROVE  p = q /\ x = y
  <2>1. PICK v : CcHead(types, v, p) /\ Headed(x, v)
    BY CcHeads
  <2>2. PICK w : CcHead(types, w, q) /\ Headed(y, w)
    BY CcHeads
  <2>3. x.name[1] = v /\ y.name[1] = w
    BY <2>1, <2>2, HeadedIs
  <2>4. v = w
    BY <1>2, <2>3
  <2>5. p = q
    BY <2>1, <2>2, <2>4, CcHeadOne
  <2> QED
    BY <1>2, <2>5, CcItemOne
<1>3. ASSUME NEW p \in 1 .. (L + 4), NEW x \in lib[p].facts, NEW f, NEW t
      PROVE  x.name # OverloadFact(f, t).name
  <2>1. PICK v : Headed(x, v)
    BY CcHeads
  <2> QED
    BY <2>1, OverloadApart
<1>4. ASSUME NEW p \in DOMAIN lib, NEW x \in lib[p].facts, NEW q \in DOMAIN lib, NEW y \in lib[q].facts,
             x.name = y.name
      PROVE  x = y /\ (x.kind # "function" => p = q)
  <2>1. \/ \E m \in 1 .. (L + 4) : x \in lib[m].facts /\ (x.kind # "function" => m = p)
        \/ \E t, f : x = OverloadFact(f, t)
    BY CcPlaced
  <2>2. \/ \E m \in 1 .. (L + 4) : y \in lib[m].facts /\ (y.kind # "function" => m = q)
        \/ \E t, f : y = OverloadFact(f, t)
    BY CcPlaced
  <2>3. CASE (\E t, f : x = OverloadFact(f, t)) /\ \E t, f : y = OverloadFact(f, t)
    <3>1. x = y
      BY <1>4, <2>3, OverloadOne
    <3>2. x.kind = "function"
      BY <2>3, OverloadIs
    <3> QED
      BY <3>1, <3>2
  <2>4. CASE /\ \E m \in 1 .. (L + 4) : x \in lib[m].facts /\ (x.kind # "function" => m = p)
             /\ \E m \in 1 .. (L + 4) : y \in lib[m].facts /\ (y.kind # "function" => m = q)
    BY <1>2, <1>4, <2>4
  <2> QED
    BY <1>3, <1>4, <2>1, <2>2, <2>3, <2>4
<1>5. OneMeaning(Facts(lib))
  <2>1. \A x \in Facts(lib) : \E p \in DOMAIN lib : x \in lib[p].facts
    BY DEF Facts
  <2> QED
    BY <1>4, <2>1 DEF OneMeaning
<1>6. \A m, n \in DOMAIN lib : m < n => Once(lib[m].facts) \cap Once(lib[n].facts) = {}
  <2> SUFFICES ASSUME NEW m \in DOMAIN lib, NEW n \in DOMAIN lib, m < n,
                      NEW x \in Once(lib[m].facts), x \in Once(lib[n].facts)
               PROVE  FALSE
    OBVIOUS
  <2>1. x \in lib[m].facts /\ x \in lib[n].facts /\ x.kind # "function"
    BY OnceIs
  <2>2. m = n
    BY <1>4, <2>1
  <2>3. m \in Int
    BY DEF CcItemsAre
  <2> QED
    BY <2>2, <2>3
<1> QED
  BY <1>5, <1>6 DEF Named

-----------------------------------------------------------------------------
\* Every name that is taken, and every type, is stated at its place.
LEMMA OwnStated ==
  ASSUME NEW types, NEW lib, NEW L, NEW N, CcItemsAre(lib, types, L, N), NEW v \in CcTaken
  PROVE  OwnPlace(types, v) \in {2, 3, L + 4} /\ \E x \in lib[OwnPlace(types, v)].facts : x.name = <<v>>
<1> DEFINE p == OwnPlace(types, v)
<1>1. /\ IsSeq(types) /\ L = Len(Declared(types))
      /\ lib[2].facts = CcFirst(types) /\ lib[3].facts = CcMsgType(types)
      /\ lib[L + 4].facts = CcLast(types)
  BY DEF CcItemsAre
<1>2. \A w : Type(w).name = <<w>> /\ OwnConstant(types, w).name = <<w>> /\ OwnFunction(w).name = <<w>>
  BY TypeIs, OwnIs, OwnFunctionIs
<1>3. CASE v \in {"Status", "kNumMsgTypes", "kHeaderPackedSize", "InspectHeader", "UnpackMessage"}
  <2>1. p = 2
    BY <1>3 DEF OwnPlace
  <2>2. CASE v = "Status"
    <3>1. Type(v) \in CcFirst(types)
      BY <2>2, CcFirstIs
    <3> QED
      BY <1>1, <1>2, <2>1, <3>1
  <2>3. CASE v \in {"kNumMsgTypes", "kHeaderPackedSize"}
    <3>1. OwnConstant(types, v) \in CcFirst(types)
      BY <2>3, CcFirstIs
    <3> QED
      BY <1>1, <1>2, <2>1, <3>1
  <2>4. CASE v \in {"InspectHeader", "UnpackMessage"}
    <3>1. OwnFunction(v) \in CcFirst(types)
      BY <2>4, CcFirstIs
    <3> QED
      BY <1>1, <1>2, <2>1, <3>1
  <2> QED
    BY <1>3, <2>2, <2>3, <2>4
<1>4. CASE v = "MsgType"
  <2>1. p = 3
    BY <1>4 DEF OwnPlace
  <2>2. Type("MsgType") \in CcMsgType(types)
    BY Zenon DEF CcMsgType, CcEnum
  <2> QED
    BY <1>1, <1>2, <1>4, <2>1, <2>2
<1>5. CASE v \in {"AnyMessage", "MessageDispatcher"}
  <2>1. p = L + 4
    BY <1>1, <1>5 DEF OwnPlace
  <2>2. Type(v) \in CcLast(types)
    BY <1>1, <1>5, CcLastIs
  <2> QED
    BY <1>1, <1>2, <2>1, <2>2
<1> QED
  BY <1>3, <1>4, <1>5 DEF CcTaken

LEMMA CcTypeStated ==
  ASSUME NEW types, Usable(types), NEW lib, NEW L, NEW N, CcItemsAre(lib, types, L, N),
         NEW n \in DOMAIN types
  PROVE  \E p \in DOMAIN lib : /\ Type(CTypeName(types[n].name)) \in lib[p].facts
                               /\ IF n < NumBuiltins THEN p = 1
                                  ELSE \E i \in 1 .. L : Declared(types)[i] = types[n] /\ p = 3 + i
<1> DEFINE x == Type(CTypeName(types[n].name))
<1>1. /\ IsSeq(types) /\ L \in Nat /\ N \in Nat /\ L = Len(Declared(types)) /\ DOMAIN Declared(types) = 1 .. L
      /\ DOMAIN lib = 1 .. (L + N + 5)
      /\ lib[1].facts = {Type(CTypeName(name)) : name \in Range(Primitive)}
      /\ \A i \in 1 .. L : lib[3 + i] = CcDeclaration(types, Declared(types)[i])
  BY DEF CcItemsAre
<1>2. CASE n < NumBuiltins
  <2>1. types[n].name \in Range(Primitive)
    BY <1>2, TypeFacts
  <2>2. x \in lib[1].facts /\ 1 \in DOMAIN lib
    BY <1>1, <2>1
  <2> HIDE DEF x
  <2>3. \E p \in DOMAIN lib : x \in lib[p].facts /\ p = 1
    BY <2>2
  <2> QED
    BY <1>2, <2>3 DEF x
<1>3. CASE ~(n < NumBuiltins)
  <2>1. /\ types[n].kind \in Kinds /\ types[n] \in Range(Declared(types))
        /\ CTypeName(types[n].name) = types[n].name
    BY <1>3, TypeFacts
  <2>2. PICK i \in 1 .. L : Declared(types)[i] = types[n]
    BY <1>1, <2>1 DEF Range
  <2>3. x \in CcDeclaration(types, types[n]).facts
    BY <2>1, CcDeclares
  <2>4. x \in lib[3 + i].facts /\ 3 + i \in DOMAIN lib
    BY <1>1, <2>2, <2>3
  <2> HIDE DEF x
  <2>5. \E p \in DOMAIN lib : x \in lib[p].facts /\ \E m \in 1 .. L : Declared(types)[m] = types[n] /\ p = 3 + m
    BY <2>2, <2>4
  <2> QED
    BY <1>3, <2>5 DEF x
<1> QED
  BY <1>2, <1>3

\* What is declared once is at one place.
LEMMA OncePlace ==
  ASSUME NEW lib, Named(lib), DOMAIN lib \subseteq Int, NEW p \in DOMAIN lib, NEW q \in DOMAIN lib,
         NEW x \in lib[p].facts, NEW y \in lib[q].facts, x.name = y.name, x.kind = "type"
  PROVE  x = y /\ p = q
<1>1. x \in Facts(lib) /\ y \in Facts(lib)
  BY Stated
<1>2. x = y
  BY <1>1 DEF Named, OneMeaning
<1>3. x \in Once(lib[p].facts) /\ x \in Once(lib[q].facts)
  BY <1>2, OnceIs
<1>4. ~(p < q) /\ ~(q < p)
  BY <1>3 DEF Named
<1>5. p \in Int /\ q \in Int
  OBVIOUS
<1> QED
  BY <1>2, <1>4, <1>5

\* So no two types have one name, nor does a type one that is taken.
LEMMA CcTypesApart ==
  ASSUME NEW types, Usable(types), NEW lib, NEW L, NEW N, CcItemsAre(lib, types, L, N), Named(lib)
  PROVE  OwnCNames(types) /\ \A n \in DOMAIN types : types[n].name \notin CcTaken
<1>1. /\ L \in Nat /\ N \in Nat /\ DOMAIN lib = 1 .. (L + N + 5) /\ DOMAIN lib \subseteq Int
  BY DEF CcItemsAre
<1>2. Distinct(types)
  BY UsableHas
<1>3. \A w : Type(w).name = <<w>> /\ Type(w).kind = "type"
  BY TypeIs
<1>4. ASSUME NEW m \in DOMAIN types, NEW n \in DOMAIN types,
             CTypeName(types[m].name) = CTypeName(types[n].name)
      PROVE  m = n
  <2> DEFINE x == Type(CTypeName(types[m].name))
             y == Type(CTypeName(types[n].name))
  <2>1. PICK p \in DOMAIN lib : /\ x \in lib[p].facts
                                /\ IF m < NumBuiltins THEN p = 1
                                   ELSE \E i \in 1 .. L : Declared(types)[i] = types[m] /\ p = 3 + i
    BY CcTypeStated
  <2>2. PICK q \in DOMAIN lib : /\ y \in lib[q].facts
                                /\ IF n < NumBuiltins THEN q = 1
                                   ELSE \E i \in 1 .. L : Declared(types)[i] = types[n] /\ q = 3 + i
    BY CcTypeStated
  <2>3. x.name = y.name /\ x.kind = "type"
    BY <1>3, <1>4
  <2> HIDE DEF x, y
  <2>4. p = q
    BY <1>1, <2>1, <2>2, <2>3, OncePlace
  <2>5. CASE m < NumBuiltins /\ n < NumBuiltins
    <3>1. types[m].name \in Range(Primitive) /\ types[n].name \in Range(Primitive)
      BY <2>5, TypeFacts
    <3>2. types[m].name = types[n].name
      BY <1>4, <3>1, PrimitiveNames
    <3> QED
      BY <1>2, <3>2 DEF Distinct
  <2>6. CASE ~(m < NumBuiltins) /\ ~(n < NumBuiltins)
    <3>1. types[m] = types[n]
      <4>1. PICK i \in 1 .. L : Declared(types)[i] = types[m] /\ p = 3 + i
        BY <2>1, <2>6
      <4>2. PICK h \in 1 .. L : Declared(types)[h] = types[n] /\ q = 3 + h
        BY <2>2, <2>6
      <4>3. i = h
        <5>1. L \in Nat /\ i \in 1 .. L /\ h \in 1 .. L /\ 3 + i = 3 + h
          BY <1>1, <2>4, <4>1, <4>2
        <5> QED
          BY ONLY <5>1
      <4> QED
        BY <4>1, <4>2, <4>3
    <3> QED
      BY <1>2, <3>1 DEF Distinct
  <2>7. (m < NumBuiltins) <=> (n < NumBuiltins)
    <3>1. \A i \in 1 .. L : 3 + i # 1
      BY <1>1
    <3> QED
      BY <2>1, <2>2, <2>4, <3>1
  <2> QED
    BY <2>5, <2>6, <2>7
<1>5. ASSUME NEW n \in DOMAIN types, types[n].name \in CcTaken PROVE FALSE
  <2> DEFINE v == CTypeName(types[n].name)
             x == Type(v)
  <2>1. v \in CcTaken
    BY <1>5, CcNameTaken
  <2>2. PICK p \in DOMAIN lib : /\ x \in lib[p].facts
                                /\ IF n < NumBuiltins THEN p = 1
                                   ELSE \E i \in 1 .. L : Declared(types)[i] = types[n] /\ p = 3 + i
    BY CcTypeStated
  <2>3. x.name = <<v>> /\ x.kind = "type"
    BY <1>3
  <2> HIDE DEF x, v
  <2>4. OwnPlace(types, v) \in {2, 3, L + 4} /\ \E y \in lib[OwnPlace(types, v)].facts : y.name = <<v>>
    BY <2>1, OwnStated
  <2>5. PICK q \in {2, 3, L + 4} : \E y \in lib[q].facts : y.name = <<v>>
    BY <2>4
  <2>6. PICK y \in lib[q].facts : y.name = <<v>>
    BY <2>5
  <2>7. q \in DOMAIN lib
    BY <1>1
  <2>8. p = q
    BY <1>1, <2>2, <2>3, <2>6, <2>7, OncePlace
  <2>9. p = 1 \/ p \in 4 .. (L + 3)
    BY <1>1, <2>2
  <2> QED
    BY <1>1, <2>8, <2>9
<1> QED
  BY <1>4, <1>5 DEF OwnCNames

-----------------------------------------------------------------------------
\* Two facts of one item of a library that has one meaning of every name.
LEMMA OneAt ==
  ASSUME NEW lib, Named(lib), NEW p \in DOMAIN lib, NEW x \in lib[p].facts, NEW y \in lib[p].facts,
         x.name = y.name
  PROVE  x = y
<1>1. x \in Facts(lib) /\ y \in Facts(lib)
  BY Stated
<1> QED
  BY <1>1 DEF Named, OneMeaning

LEMMA CcNamedApart ==
  ASSUME NEW types, Usable(types), NEW lib, NEW L, NEW N, CcItemsAre(lib, types, L, N), Named(lib)
  PROVE  ~CcClash(types)
<1> DEFINE M == Messages(types)
<1>1. /\ IsSeq(types) /\ L \in Nat /\ N \in Nat /\ L = Len(Declared(types)) /\ DOMAIN Declared(types) = 1 .. L
      /\ DOMAIN lib = 1 .. (L + N + 5)
      /\ lib[3].facts = CcMsgType(types) /\ lib[L + 4].facts = CcLast(types)
      /\ \A i \in 1 .. L : lib[3 + i] = CcDeclaration(types, Declared(types)[i])
  BY DEF CcItemsAre
<1>2. IsSeq(M) /\ Distinct(M)
  BY <1>1, UsableHas, OfKindHas DEF Messages
<1>3. OwnCNames(types) /\ \A n \in DOMAIN types : types[n].name \notin CcTaken
  BY CcTypesApart
<1>4. "Unknown" \notin Names(Messages(types))
  <2> SUFFICES ASSUME "Unknown" \in Names(M) PROVE FALSE
    OBVIOUS
  <2> DEFINE names == Append(NameSeq(M), "Unknown")
             D == Len(M)
  <2>1. PICK n \in DOMAIN M : M[n].name = "Unknown"
    BY DEF Names, Range
  <2> HIDE DEF M
  <2>2. D \in Nat /\ DOMAIN M = 1 .. D
    BY <1>2, SeqIs
  <2>3. /\ DOMAIN names = 1 .. (D + 1) /\ \A m \in DOMAIN M : names[m] = M[m].name
        /\ names[D + 1] = "Unknown"
    BY <1>2, NamesAppended
  <2>4. CcMsgType(types) = {Type("MsgType")} \cup Numbered("MsgType", names)
    BY Zenon DEF CcMsgType, CcEnum, M
  <2> HIDE DEF names, D
  <2>5. n \in DOMAIN names /\ D + 1 \in DOMAIN names /\ names[n] = names[D + 1] /\ n # D + 1
    BY <2>1, <2>2, <2>3
  <2> DEFINE x == NumberFact("MsgType", names, n)
             y == NumberFact("MsgType", names, D + 1)
  <2>6. x \in CcMsgType(types) /\ y \in CcMsgType(types)
    BY <2>4, <2>5, NumberedIs
  <2>7. /\ x.name = Scoped("MsgType", names[n]) /\ y.name = Scoped("MsgType", names[D + 1])
        /\ x.ns = <<n - 1>> /\ y.ns = <<(D + 1) - 1>>
    BY NumberIs
  <2> HIDE DEF x, y
  <2>8. 3 \in DOMAIN lib /\ x \in lib[3].facts /\ y \in lib[3].facts /\ x.name = y.name
    BY <1>1, <2>5, <2>6, <2>7
  <2>9. x = y
    BY <2>8, OneAt
  <2>10. <<n - 1>>[1] = <<(D + 1) - 1>>[1]
    BY <2>7, <2>9
  <2>11. n - 1 = (D + 1) - 1
    BY <2>10
  <2> QED
    BY <2>2, <2>5, <2>11
<1>5. SnakesApart(types)
  <2> SUFFICES ASSUME NEW m \in DOMAIN M, NEW n \in DOMAIN M, Snake[M[m].name] = Snake[M[n].name]
               PROVE  m = n
    BY DEF SnakesApart
  <2>1. CallFact(M[m]) \in CcLast(types) /\ CallFact(M[n]) \in CcLast(types)
    BY <1>1, CcLastIs
  <2> HIDE DEF M
  <2>2. /\ CallFact(M[m]).name = <<"MessageDispatcher", "callbacks", Snake[M[m].name]>>
        /\ CallFact(M[n]).name = <<"MessageDispatcher", "callbacks", Snake[M[n].name]>>
        /\ CallFact(M[m]).is = M[m].name /\ CallFact(M[n]).is = M[n].name
    BY OwnIs
  <2>3. L + 4 \in DOMAIN lib /\ CallFact(M[m]).name = CallFact(M[n]).name
    BY <1>1, <2>2
  <2>4. CallFact(M[m]) = CallFact(M[n])
    BY <1>1, <2>1, <2>3, OneAt
  <2>5. M[m].name = M[n].name
    BY <2>2, <2>4
  <2> QED
    BY <1>2, <2>5 DEF Distinct
<1>6. ASSUME NEW f \in Fields(types, {"Message"}), f.name \in OwnMembers PROVE FALSE
  <2>1. PICK n \in DOMAIN types : types[n].kind = "Message" /\ f \in Range(types[n].fields)
    BY <1>1, FieldsAre1
  <2> DEFINE t == types[n]
  <2>2. t \in Range(Declared(types)) /\ t.kind \in Kinds /\ t.kind = "Message"
    <3>1. ~(n < NumBuiltins)
      BY <2>1, TypeFacts
    <3> QED
      BY <2>1, <3>1, TypeFacts
  <2> HIDE DEF t
  <2>3. PICK i \in 1 .. L : Declared(types)[i] = t
    BY <1>1, <2>2 DEF Range
  <2> DEFINE x == MemberFact(types, t, f)
             y == ClassFact(types, t, f.name)
  <2>4. x \in CcDeclaration(types, t).facts /\ y \in CcDeclaration(types, t).facts
    <3>1. CcMember(types, t, x) /\ CcMember(types, t, y)
      BY <1>6, <2>1, <2>2 DEF CcMember, t
    <3> QED
      BY <2>2, <3>1, CcDeclares
  <2>5. x.kind = "member" /\ x.name = Scoped(t.name, f.name)
    BY MemberIs
  <2>6. y.kind \in {"constant", "method"} /\ y.name = Scoped(t.name, f.name)
    BY <1>6, ClassFactIs
  <2> HIDE DEF x, y
  <2>7. 3 + i \in DOMAIN lib /\ x \in lib[3 + i].facts /\ y \in lib[3 + i].facts /\ x.name = y.name
    BY <1>1, <2>3, <2>4, <2>5, <2>6
  <2>8. x = y
    BY <2>7, OneAt
  <2> QED
    BY <2>5, <2>6, <2>8
<1> QED
  BY <1>3, <1>4, <1>5, <1>6, CcNoClash

\* Which specifications have a C++ library that compiles.
LEMMA CcBuilds ==
  ASSUME NEW types, Usable(types)
  PROVE  Compiles(CcSource(types)) <=> ~CcRefuses(types)
<1> DEFINE L == Len(Declared(types))
           N == Len(types)
<1>1. IsSeq(types) /\ Distinct(types)
  BY UsableHas
<1>2. PICK lib : lib = CcSource(types)
  OBVIOUS
<1>3. CcItems(lib, types)
  BY <1>1, <1>2, CcSourceIs
<1>4. CcItemsAre(lib, types, L, N)
  BY <1>1, <1>3, CcItemsAt
<1> HIDE DEF L, N
<1>5. UsesKnown(lib) <=> ~IntegerAlias(types)
  BY <1>4, CcKnows
<1>6. Fine(lib) <=> ~CcFlaw(types)
  BY <1>4, CcFine
<1>7. Named(lib) <=> ~CcClash(types)
  BY <1>4, CcNamedApart, CcApartNamed
<1>8. Compiles(lib) <=> ~(CcFlaw(types) \/ IntegerAlias(types) \/ CcClash(types))
  BY <1>5, <1>6, <1>7, CompilesIs
<1>9. CcRefuses(types) <=> CcFlaw(types) \/ IntegerAlias(types) \/ CcClash(types)
  BY Zenon DEF CcRefuses, CcFlaw, CcClash, Hides, CcHides, NamesKept
<1> QED
  BY <1>2, <1>8, <1>9

-----------------------------------------------------------------------------
\* A source that is written is not empty.
LEMMA SourcesAreNot ==
  ASSUME NEW types, IsSeq(types)
  PROVE  (\A quoted : CSource(types, quoted) # <<>>) /\ CcSource(types) # <<>>
<1> DEFINE L == Len(Declared(types))
           N == Len(types)
<1>1. IsSeq(Declared(types))
  BY OfKindHas DEF Declared
<1>2. L \in Nat /\ N \in Nat
  BY <1>1, SeqIs
<1>3. ASSUME NEW quoted PROVE CSource(types, quoted) # <<>>
  <2> DEFINE lib == CSource(types, quoted)
  <2>1. CItems(lib, types, quoted)
    BY CSourceIs
  <2> HIDE DEF lib
  <2>2. DOMAIN lib = 1 .. (L + N + 10)
    BY <2>1 DEF CItems
  <2> HIDE DEF L, N
  <2>3. 1 \in DOMAIN lib
    BY <1>2, <2>2
  <2> QED
    BY <2>3 DEF lib
<1>4. CcSource(types) # <<>>
  <2> DEFINE lib == CcSource(types)
  <2>1. CcItems(lib, types)
    BY CcSourceIs
  <2> HIDE DEF lib
  <2>2. DOMAIN lib = 1 .. (L + N + 5)
    BY <2>1 DEF CcItems
  <2> HIDE DEF L, N
  <2>3. 1 \in DOMAIN lib
    BY <1>2, <2>2
  <2> QED
    BY <2>3 DEF lib
<1> QED
  BY <1>3, <1>4

LEMMA Building ==
  ASSUME IsSeq(files), FilesOK
  PROVE  BuildsUnless
<1> SUFFICES ASSUME NEW f \in Latest(Sources)
             PROVE  LET types == Types(f, f.tag)
                    IN  /\ f.text = <<>> <=> TooDeep(types)
                        /\ f.text # <<>> /\ ~CopiesUnset(types, f.out) =>
                             (Compiles(f.text) <=> IF f.out = "c_source" THEN ~CRefuses(types, Quoted(f.spec))
                                                   ELSE ~CcRefuses(types))
  BY DEF BuildsUnless
<1> DEFINE types == Types(f, f.tag)
           quoted == Quoted(f.spec)
<1>1. FileOK(f) /\ f.out \in {"c_source", "cc_source"}
  <2>1. FileOK(f) /\ f.out \in Sources
    BY LatestIs
  <2> QED
    BY <2>1 DEF Sources
<1>2. /\ f.spec \in SpecFile /\ WellFormed(f.spec) /\ TextIs(f.out, types, quoted, f.text)
      /\ types = Meaning(f.spec, f.tag, f.dict)
  BY <1>1 DEF FileOK, Types
<1> HIDE DEF types, quoted
<1>3. Usable(types)
  BY <1>2, FileUsable
<1>4. IsSeq(types)
  BY <1>3, UsableHas
<1>5. CSource(types, quoted) # <<>> /\ CcSource(types) # <<>>
  BY <1>4, SourcesAreNot
<1>6. /\ Compiles(CSource(types, quoted)) <=> ~CRefuses(types, quoted)
      /\ Compiles(CcSource(types)) <=> ~CcRefuses(types)
  BY <1>3, CBuilds, CcBuilds
<1>7. CASE f.out = "c_source"
  <2>1. f.text = IF TooDeep(types) THEN <<>> ELSE CSource(types, quoted)
    BY <1>2, <1>7 DEF TextIs, Sources
  <2>2. (f.text = <<>> <=> TooDeep(types)) /\ (f.text # <<>> => f.text = CSource(types, quoted))
    BY <1>5, <2>1
  <2>3. f.text # <<>> => (Compiles(f.text) <=> ~CRefuses(types, quoted))
    BY Zenon, <1>6, <2>2
  <2> QED
    BY <1>7, <2>2, <2>3 DEF types, quoted
<1>8. CASE f.out = "cc_source"
  <2>1. f.text = IF TooDeep(types) THEN <<>> ELSE CcSource(types)
    BY <1>2, <1>8 DEF TextIs, Sources
  <2>2. (f.text = <<>> <=> TooDeep(types)) /\ (f.text # <<>> => f.text = CcSource(types))
    BY <1>5, <2>1
  <2>3. f.text # <<>> => (Compiles(f.text) <=> ~CcRefuses(types))
    BY Zenon, <1>6, <2>2
  <2> QED
    BY <1>8, <2>2, <2>3 DEF types, quoted
<1> QED
  BY <1>1, <1>7, <1>8

\* A generated C or C++ library compiles exactly when its specification has none of the
\* flaws that are listed, and its source is empty exactly when an array is too deep.
THEOREM LibrariesCompileUnless == GenSpec => []BuildsUnless
<1>1. StepInv /\ FilesOK => BuildsUnless
  BY Building DEF StepInv
<1> QED
  BY <1>1, StepsRight, FilesAreRight, PTL
=============================================================================
