--------------------------- MODULE GeneratedFiles ---------------------------
(***************************************************************************)
(* What the generators make of the types of a specification: the C and C++ *)
(* libraries, the Python module, and the documentation of the three.       *)
(*                                                                         *)
(* A file of C or C++ is a sequence of items.  An item states facts (what  *)
(* it declares), uses identifiers that must have been declared, and is ok  *)
(* unless the compiler objects to it alone, with -Wall -Werror as in       *)
(* tools/gen_stuff_sack.bzl.  The Python module and a document are sets of *)
(* facts, the latter of those the reader is told.  A fact is an identifier *)
(* with what it is: its kind, its type and its numbers.  A name is a path: *)
(* that of type T is <<T>>, that of its member m <<T, m>>.                 *)
(***************************************************************************)
EXTENDS SpecTypes

CONSTANTS
  Camel,            \* utils.snake_to_camel, a function on type names
  Snake,            \* utils.camel_to_snake, in upper case
  PyEnumAttribute   \* what a class of EnumMixin and ctypes.c_int has by itself

Item(facts, uses, ok) == [facts |-> facts, uses |-> uses, ok |-> ok]
Fact(kind, name, is, ns) == [kind |-> kind, name |-> name, is |-> is, ns |-> ns]
Type(name) == Fact("type", <<name>>, "", <<>>)
Function(name, is) == Fact("function", <<name>>, is, <<>>)
Scoped(type, member) == <<type, member>>

Facts(items) == UNION {items[n].facts : n \in DOMAIN items}

\* What an item uses: an identifier, and as what.
TypeUse(name) == <<"type", <<name>>>>
FunctionUse(name) == <<"function", <<name>>>>
Declares(item, use) == \E f \in item.facts : use = <<f.kind, f.name>>

\* An identifier means one thing; a macro or a function may be declared again as
\* it was, anything else is declared once.
Once(facts) == {f \in facts : f.kind \notin {"macro", "function"}}
Compiles(items) ==
  /\ \A n \in DOMAIN items :
       /\ items[n].ok
       /\ \A use \in items[n].uses : \E m \in 1 .. n : Declares(items[m], use)
  /\ \A f, g \in Facts(items) : f.name = g.name => f = g
  /\ \A m, n \in DOMAIN items : m < n => Once(items[m].facts) \cap Once(items[n].facts) = {}

PackedSize(types, t) == Sizes(types)[IndexOf(types, t.name)]
Root(types, f) == types[f.type.index]
Map(F(_), ts) == [n \in DOMAIN ts |-> F(ts[n])]

\* Array lengths as they are written, the outermost first.
AllLengths(f) == Reverse(f.lens)

-----------------------------------------------------------------------------
(* The C library.                                                          *)

Width == [b \in {1, 2, 4, 8} |->
  CASE b = 1 -> "8" [] b = 2 -> "16" [] b = 4 -> "32" [] OTHER -> "64"]

CIntegers ==
  [uint8 |-> "uint8_t", uint16 |-> "uint16_t", uint32 |-> "uint32_t", uint64 |-> "uint64_t",
   int8 |-> "int8_t", int16 |-> "int16_t", int32 |-> "int32_t", int64 |-> "int64_t"]
CTypeName(name) == IF name \in DOMAIN CIntegers THEN CIntegers[name] ELSE name

\* An alias replaces the type of a member, and its array lengths.
FieldFact(types, t, f) ==
  IF f.alias THEN Fact("member", Scoped(t.name, f.name), "alias", <<>>)
  ELSE Fact("member", Scoped(t.name, f.name), CTypeName(Root(types, f).name), AllLengths(f))
FieldTypes(types, t) ==
  {CTypeName(Root(types, f).name) : f \in {g \in Range(t.fields) : ~g.alias}}
FieldUses(types, t) == {TypeUse(c) : c \in FieldTypes(types, t)}

StructFacts(types, t) == {Type(t.name)} \cup {FieldFact(types, t, f) : f \in Range(t.fields)}
BitfieldType(t) == "uint" \o Width[TypeSize(t, <<>>)] \o "_t"
BitfieldFacts(t) ==
  {Type(t.name)} \cup
    {Fact("member", Scoped(t.name, f.name), BitfieldType(t), <<f.bits>>) : f \in Range(t.fields)}

CEnumerators(name, values) ==
  {Fact("constant", <<"k" \o name \o values[n]>>, name, <<n - 1>>) : n \in DOMAIN values}
CEnum(name, values) ==
  {Type(name), Fact("constant", <<"k" \o name \o "ForceSigned">>, name, <<-1>>),
   Fact("constant", <<"kNum" \o name>>, name, <<Len(values)>>)}
    \cup CEnumerators(name, values)

CDeclaration(types, t) ==
  CASE t.kind = "Enum" -> Item(CEnum(t.name, NameSeq(t.fields)), {}, TRUE)
    [] t.kind = "Bitfield" -> Item(BitfieldFacts(t), {}, TRUE)
    [] OTHER -> Item(StructFacts(types, t), FieldUses(types, t), TRUE)
Declared(types) == OfKind(types, Kinds)

PackNames(t) == {"SsPack" \o Camel[t.name], "SsUnpack" \o Camel[t.name]}
PackFacts(t) == {Function(p, CTypeName(t.name)) : p \in PackNames(t)}
LogFact(m) == Function("SsLog" \o m.name, m.name)
PackedSizeMacro(types, m) ==
  Fact("macro", <<"SS_" \o Snake[m.name] \o "_PACKED_SIZE">>, "", <<PackedSize(types, m)>>)
HeaderSizeMacro == Fact("macro", <<"SS_HEADER_PACKED_SIZE">>, "", <<6>>)

Port == {Function(p, "void") : p \in {"SsWriteFile", "SsReadFile"}}
Helpers ==
  {Function(p, "void") : p \in {"SsInspectHeader", "SsWriteLogHeader", "SsFindLogDelimiter"}}
Variable(name) == Fact("constant", <<name>>, "", <<>>)
LogDelimiter == Variable("kSsLogDelimiter")

MessageTypeEnum(types) == CEnum("SsMsgType", Append(NameSeq(Messages(types)), "Unknown"))
StatusEnum == CEnum("SsStatus", <<"Success", "InvalidUid", "InvalidLen">>)

\* The names of functions tell what they do, and those that enums and messages call
\* exist.
ASSUME SpellingAssumption ==
  LET library == {"SsWriteFile", "SsReadFile", "SsInspectHeader", "SsWriteLogHeader",
                  "SsFindLogDelimiter", "GetSsMsgTypeFromUid"}
  IN  /\ \A m, n \in DOMAIN Camel :
           /\ "SsPack" \o Camel[m] \notin library \cup {"SsUnpack" \o Camel[n], "SsLog" \o n}
           /\ "SsUnpack" \o Camel[m] \notin library \cup {"SsLog" \o n}
           /\ "SsLog" \o m \notin library
      /\ \A b \in DOMAIN Width : \E name \in Range(Primitive) :
           "SsPack" \o Camel[name] = "SsPackInt" \o Width[b]
      /\ "SsUnpack" \o Camel["SsHeader"] = "SsUnpackSsHeader"

\* The primitive types have the integers of C among them, by other names.
ASSUME IntegerAssumption ==
  DOMAIN CIntegers \subseteq Range(Primitive) /\ Range(CIntegers) \cap Range(Primitive) = {}

\* What stdint.h, stdbool.h and the language declare.
Included == <<Item({Type(CTypeName(p)) : p \in Range(Primitive)}, {}, TRUE)>>

\* logging.h is included.  Without a message the enum of message types begins with a
\* comma.
CHeader(types) ==
  LET messages == Range(Messages(types))
      declare(t) == CDeclaration(types, t)
  IN  Included \o
      <<Item(Port, {}, TRUE), Item(MessageTypeEnum(types), {}, messages # {}),
        Item(StatusEnum, {}, TRUE)>>
      \o Map(declare, Declared(types))
      \o <<Item({PackedSizeMacro(types, m) : m \in messages} \cup {HeaderSizeMacro}, {}, TRUE),
           Item((UNION {PackFacts(m) \cup {LogFact(m)} : m \in messages}) \cup Helpers \cup {LogDelimiter},
                {}, TRUE)>>

\* The buffer of an aliased member is declared with the name of its root type,
\* which is not the C name of an integer.
AliasedRoots(types, t) == {Root(types, f).name : f \in {g \in Range(t.fields) : g.alias}}
BodyUses(types, t) ==
  (UNION {{FunctionUse(p) : p \in PackNames(Root(types, f))} : f \in Range(t.fields)})
    \cup {TypeUse(name) : name \in AliasedRoots(types, t)}

\* The packing function of a message takes it without const, which a member of a
\* struct is only when it is copied for its alias.  The length of a message goes
\* into 16 bits.
CPacking(types, t) ==
  Item(PackFacts(t),
       CASE t.kind = "Enum" -> {FunctionUse("SsPackInt" \o Width[TypeSize(t, <<>>)])}
         [] t.kind \in {"Struct", "Message"} -> BodyUses(types, t)
         [] OTHER -> {},
       CASE t.kind = "Struct" ->
              \A f \in Range(t.fields) : Root(types, f).kind = "Message" => f.alias
         [] t.kind = "Message" -> PackedSize(types, t) < 2^16
         [] OTHER -> TRUE)

\* An empty struct has no size in C, where a bitfield has a byte.  The limit on the
\* values of an enum is a product of ints, which overflows for four bytes and more.
StaticAsserts(types) ==
  Item({}, {},
       \A t \in Range(types) :
         /\ t.kind = "Bitfield" => t.fields # <<>>
         /\ t.kind = "Enum" => TypeSize(t, <<>>) < 4)

\* The text of the log header is not escaped for quotes.
CSource(types, quoted) ==
  LET pack(t) == CPacking(types, t)
  IN  CHeader(types)
      \o <<StaticAsserts(types)>>
      \o Map(pack, types)
      \o <<Item({Variable(v) : v \in {"kMessageUids", "kSsMsgTypes"}}
                  \cup {Function("GetSsMsgTypeFromUid", "SsMsgType")},
                {FunctionUse("SsUnpackSsHeader")}, TRUE),
           Item({Variable("kYamlHeader")} \cup Helpers, {<<"constant", LogDelimiter.name>>}, ~quoted),
           Item({LogFact(m) : m \in Range(Messages(types))}, {}, TRUE)>>

\* array_pack has the loop variables i to z.
MaxNesting == 18
TooDeep(types) ==
  \E t \in Range(types) : \E f \in Range(t.fields) : Len(f.lens) > MaxNesting

-----------------------------------------------------------------------------
(* The C++ library.  A function that is overloaded has the type it takes   *)
(* in its name.                                                            *)

Numbered(scope, names) ==
  {Fact("constant", Scoped(scope, names[n]), scope, <<n - 1>>) : n \in DOMAIN names}
CcEnum(name, values) == {Type(name)} \cup Numbered(name, values)
CcMsgType(types) == CcEnum("MsgType", Append(NameSeq(Messages(types)), "Unknown"))
CcStatus == CcEnum("Status", <<"Success", "InvalidUid", "InvalidLen">>)

Methods(t) ==
  {Fact("method", Scoped(t.name, p), "", <<>>) : p \in {"UnpackNew", "Pack", "Unpack"}}
Constants(types, t) ==
  {Fact("constant", Scoped(t.name, "kType"), "MsgType::k" \o t.name, <<>>),
   Fact("constant", Scoped(t.name, "kUid"), "uint32_t", <<Uids(types)[IndexOf(types, t.name)]>>),
   Fact("constant", Scoped(t.name, "kPackedSize"), "size_t", <<PackedSize(types, t)>>)}
MessageFacts(types, t) == StructFacts(types, t) \cup Methods(t) \cup Constants(types, t)

\* A class may not declare a member with the name of a type it uses.
OwnMembers == {"kType", "kUid", "kPackedSize", "UnpackNew", "Pack", "Unpack"}
OwnTypes(t) == {t.name, "MsgType", "Status", "uint8_t", "uint32_t", "size_t"}
ChangesMeaning(types, t) ==
  LET members == Names(t.fields)
  IN  CASE t.kind = "Bitfield" -> BitfieldType(t) \in members
        [] t.kind = "Struct" -> members \cap FieldTypes(types, t) # {}
        [] t.kind = "Message" ->
             (members \cup OwnMembers) \cap (FieldTypes(types, t) \cup OwnTypes(t)) # {}
        [] OTHER -> FALSE

CcDeclaration(types, t) ==
  LET ok == ~ChangesMeaning(types, t)
  IN  CASE t.kind = "Enum" -> Item(CcEnum(t.name, NameSeq(t.fields)), {}, ok)
        [] t.kind = "Bitfield" -> Item(BitfieldFacts(t), {}, ok)
        [] t.kind = "Struct" -> Item(StructFacts(types, t), FieldUses(types, t), ok)
        [] OTHER -> Item(MessageFacts(types, t), FieldUses(types, t), ok)

Numbers(types) ==
  {Fact("constant", <<"kNumMsgTypes">>, "size_t", <<Len(Messages(types))>>),
   Fact("constant", <<"kHeaderPackedSize">>, "size_t", <<6>>)}
Unpackers == {Function(p, "") : p \in {"InspectHeader", "UnpackMessage"}}
AnyMessage(types) == {Type("AnyMessage")} \cup Numbered("AnyMessage", NameSeq(Messages(types)))
Dispatcher == {Type("MessageDispatcher")} \cup
  {Fact("method", Scoped("MessageDispatcher", p), "", <<>>) : p \in {"Unpack", "AddCallback"}}
Callbacks(types) ==
  {Fact("member", <<"MessageDispatcher", "callbacks", Snake[m.name]>>, m.name, <<>>)
    : m \in Range(Messages(types))}

\* Mutant: messages are declared before the structs of which they are made.
CcHeaderByKind(types) ==
  LET declare(t) == CcDeclaration(types, t)
  IN  Included
      \o <<Item(CcStatus \cup Numbers(types) \cup Unpackers, {}, TRUE),
           Item(CcMsgType(types), {}, Messages(types) # <<>>)>>
      \o Map(declare, OfKind(types, Kinds \ {"Struct"}) \o OfKind(types, {"Struct"}))
      \o <<Item(AnyMessage(types) \cup Dispatcher \cup Callbacks(types), {}, TRUE)>>
CcHeader(types) ==
  LET declare(t) == CcDeclaration(types, t)
  IN  Included
      \o <<Item(CcStatus \cup Numbers(types) \cup Unpackers, {}, TRUE),
           Item(CcMsgType(types), {}, Messages(types) # <<>>)>>
      \o Map(declare, Declared(types))
      \o <<Item(AnyMessage(types) \cup Dispatcher \cup Callbacks(types), {}, TRUE)>>

\* The packing functions so far: they hide a type of their name.
Packing(types, n) == UNION {PackNames(types[m]) : m \in 1 .. n}

Overload(function, type) == <<function, "(", CTypeName(type)>>
CcPacking(types, t) ==
  Item({Fact("function", Overload(p, t.name), "", <<>>) : p \in PackNames(t)},
       IF t.kind \in {"Struct", "Message"}
       THEN (UNION {{<<"function", Overload(p, Root(types, f).name)>> : p \in PackNames(Root(types, f))}
                   : f \in Range(t.fields)})
            \cup {TypeUse(name) : name \in AliasedRoots(types, t)}
       ELSE {},
       /\ t.kind = "Message" => PackedSize(types, t) < 2^16
       /\ ({t.name} \cup AliasedRoots(types, t)) \cap Packing(types, IndexOf(types, t.name)) = {})

\* The types of messages are used once more, and a typedef cannot be hidden.
CcInternal == {"kMessageUids", "kMessageTypes", "GetMsgTypeFromUid"}
CcFunctions(types) == CcInternal \cup Packing(types, Len(types))
NamesKept(types) ==
  /\ Names(OfKind(types, {"Bitfield", "Struct", "Message"})) \cap CcFunctions(types) = {}
  /\ "AddCallback" \notin Names(Messages(types))
CcSource(types) ==
  LET pack(t) == CcPacking(types, t)
  IN  CcHeader(types) \o Map(pack, types)
      \o <<Item(Unpackers, {<<"function", Overload("SsUnpackSsHeader", "SsHeader")>>},
                NamesKept(types))>>

-----------------------------------------------------------------------------
(* The Python module.                                                      *)

PyGlobals == {"unpack_message", "Logger", "UnpackError", "UnknownMessage",
              "IncorrectBufferSize", "InvalidUid", "InvalidLen"}

CtypesName(name) == IF name \in Range(Primitive) THEN "ctypes.c_" \o name ELSE name

PyBase(t, base, ns) == Fact("base", <<t.name>>, base, ns)
PyOwn(t, name, is, ns) == Fact("attribute", Scoped(t.name, name), is, ns)
PyMember(t, name, is, ns) == Fact("member", Scoped(t.name, name), is, ns)

\* Mutant: the lengths are multiplied the outermost first.
PyArrayReversed(lens) == lens
\* What the type is after it has been multiplied with the lengths.
PyArray(lens) == FoldLeft(LAMBDA shape, length : <<length>> \o shape, <<>>, lens)

ASSUME AttributeAssumption == {"name", "is_valid"} \subseteq PyEnumAttribute

\* A value is looked up only when the class has no attribute of its name.
PyEnum(t) ==
  {PyBase(t, "ctypes.c_int", <<>>), PyOwn(t, "name", "str", <<>>),
   PyOwn(t, "is_valid", "method", <<>>)}
    \cup {PyMember(t, t.fields[n].name, t.name, <<n - 1>>)
           : n \in {i \in DOMAIN t.fields : t.fields[i].name \notin PyEnumAttribute}}
PyBitfield(t) ==
  {PyBase(t, "ctypes.Structure", <<>>)} \cup
    {PyMember(t, f.name, "ctypes.c_uint" \o Width[TypeSize(t, <<>>)], <<f.bits>>)
      : f \in Range(t.fields)}
PyStructure(types, t) ==
  {PyBase(t, "ctypes.Structure", <<>>)} \cup
    {PyMember(t, f.name, CtypesName(Root(types, f).name), PyArray(f.lens))
      : f \in Range(t.fields)}

\* The descriptor of a field replaces the attribute of its name.
PyMessageOwn(types, t) ==
  {PyOwn(t, "packed_size", "int", <<PackedSize(types, t)>>)}
    \cup {PyOwn(t, p, "method", <<>>) : p \in {"get_buffer", "unpack", "pack"}}
PyHidden(t, a) == \E f \in Range(t.fields) : a.name = Scoped(t.name, f.name)
PyMessage(types, t) ==
  PyStructure(types, t) \cup {a \in PyMessageOwn(types, t) : ~PyHidden(t, a)}

PyClass(types, t) ==
  {Type(t.name)} \cup
    CASE t.kind = "Enum" -> PyEnum(t)
      [] t.kind = "Bitfield" -> PyBitfield(t)
      [] t.kind = "Struct" -> PyStructure(types, t)
      [] t.kind = "Message" -> PyMessage(types, t)

\* Mutant: every structure is taken for a message.
PyMsgListOfStructs(types) ==
  Numbered("unpack_message", NameSeq(OfKind(types, {"Struct", "Message"})))
\* msg_list, which unpack_message goes through.
PyMsgList(types) == Numbered("unpack_message", NameSeq(Messages(types)))

\* The names that get_globals sets last replace the types that have them.
PyModule(types) ==
  (UNION {PyClass(types, t) : t \in {d \in Range(Declared(types)) : d.name \notin PyGlobals}})
    \cup {Fact("global", <<g>>, "", <<>>) : g \in PyGlobals} \cup PyMsgList(types)

\* What it looks up in the shared library.
PyLooksUp(types) ==
  {"SsInspectHeader", "SsWriteLogHeader", "SsFindLogDelimiter"}
    \cup (UNION {PackNames(m) \cup {"SsLog" \o m.name} : m \in Range(Messages(types))})

-----------------------------------------------------------------------------
(* The documentation.  extra are the enums that are not in the registry.   *)

DocEnums(extra, types) == Range(extra) \cup Range(OfKind(types, {"Enum"}))

CEnumDoc(t) ==
  {Type(t.name), Fact("constant", <<"kForceSigned">>, t.name, <<-1>>),
   Fact("constant", <<"kNum" \o t.name>>, t.name, <<Len(t.fields)>>)}
    \cup CEnumerators(t.name, NameSeq(t.fields))
CBitfieldDoc(t) == BitfieldFacts(t)
CStructureDoc(types, t) == StructFacts(types, t)
CMessageDoc(types, m) ==
  StructFacts(types, m) \cup {PackedSizeMacro(types, m), LogFact(m)} \cup PackFacts(m)
CDoc(extra, types) ==
  {HeaderSizeMacro, LogDelimiter} \cup Helpers \cup Port
    \cup (UNION {CEnumDoc(e) : e \in DocEnums(extra, types)})
    \cup (UNION {CBitfieldDoc(b) : b \in Range(OfKind(types, {"Bitfield"}))})
    \cup (UNION {CStructureDoc(types, s) : s \in Range(OfKind(types, {"Struct"}))})
    \cup (UNION {CMessageDoc(types, m) : m \in Range(Messages(types))})

CppEnumDoc(t) == {Type(t.name)} \cup Numbered(t.name, NameSeq(t.fields))
CppMessageDoc(types, m) == StructFacts(types, m) \cup Constants(types, m) \cup Methods(m)
CcDoc(extra, types) ==
  Numbers(types) \cup Unpackers \cup AnyMessage(types) \cup Dispatcher
    \cup (UNION {CppEnumDoc(e) : e \in DocEnums(extra, types)})
    \cup (UNION {CBitfieldDoc(b) : b \in Range(OfKind(types, {"Bitfield"}))})
    \cup (UNION {CStructureDoc(types, s) : s \in Range(OfKind(types, {"Struct"}))})
    \cup (UNION {CppMessageDoc(types, m) : m \in Range(Messages(types))})

PyEnumDoc(t) ==
  {Type(t.name), PyBase(t, "ctypes.c_int", <<8 * TypeSize(t, <<>>)>>),
   PyOwn(t, "name", "str", <<>>), PyOwn(t, "is_valid", "method", <<>>)}
    \cup {PyMember(t, t.fields[n].name, t.name, <<n - 1>>) : n \in DOMAIN t.fields}
PyBitfieldDoc(t) ==
  {Type(t.name), PyBase(t, "ctypes.Structure", <<>>)} \cup
    {PyMember(t, f.name, "ctypes.c_uint" \o Width[TypeSize(t, <<>>)], <<f.bits>>)
      : f \in Range(t.fields)}
PyStructureDoc(types, t) ==
  {Type(t.name), PyBase(t, "ctypes.Structure", <<>>)} \cup
    {PyMember(t, f.name, CtypesName(Root(types, f).name), AllLengths(f))
      : f \in Range(t.fields)}
PyMessageDoc(types, t) ==
  PyStructureDoc(types, t) \cup PyMessageOwn(types, t)
PyDoc(extra, types) ==
  {Fact("global", <<g>>, "", <<>>) : g \in PyGlobals \ {"Logger"}}
    \cup (UNION {PyEnumDoc(e) : e \in DocEnums(extra, types)})
    \cup (UNION {PyBitfieldDoc(b) : b \in Range(OfKind(types, {"Bitfield"}))})
    \cup (UNION {PyStructureDoc(types, s) : s \in Range(OfKind(types, {"Struct"}))})
    \cup (UNION {PyMessageDoc(types, m) : m \in Range(Messages(types))})
=============================================================================
