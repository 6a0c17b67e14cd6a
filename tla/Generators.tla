----------------------------- MODULE Generators -----------------------------
(***************************************************************************)
(* The programs that parse a specification and write files: the C and C++  *)
(* generators, the documentation generator with its three parses in one    *)
(* process, and a Python program that loads libraries with get_globals.    *)
(* Each is a list of outputs, made one after the other in one process.     *)
(***************************************************************************)
EXTENDS SpecParser, GeneratedFiles

\* The names of types are spelled in the two ways, none of them is empty, and an enum
\* has no more values than its type in C.
ASSUME TypeNameAssumption ==
  /\ Reserved \subseteq DOMAIN Camel
  /\ \A s \in SpecFile : \A n \in DOMAIN s :
       s[n].name \in DOMAIN Camel /\ Len(s[n].items) <= IntMax
  /\ \A name \in DOMAIN Camel \cup {"SsMsgType", "SsStatus"} :
       "k" \o name \o "ForceSigned" # "kForceSigned"

VARIABLES
  todo,     \* the outputs that are still to be made
  stage,    \* what comes next for the first: "parse", "write", or it has "failed"
  files     \* what was written: a sequence of [out, spec, tag, dict, text]

genVars == <<dicts, cur, pc, spec, tag, k, j, outcome, views, extras, calls, todo, stage, files>>

Jobs == {<<"c_header", "c_source">>, <<"cc_header", "cc_source">>,
         <<"c_doc", "cc_doc", "py_doc">>, <<"py", "py">>}
Sources == {"c_source", "cc_source"}     \* made of the types of the header
Docs == {"c_doc", "cc_doc", "py_doc"}

\* The alias tag is an option of the generators; Python ignores aliases, and its
\* documentation takes those of C.
TagsOf(out) ==
  CASE out = "py" -> {"none"} [] out = "py_doc" -> {"c"} [] OTHER -> Tag

GenInit ==
  /\ Init
  /\ todo \in Jobs
  /\ stage = "parse"
  /\ files = <<>>

Out == Head(todo)

\* parse_yaml is called; the three documents are of one file.
Start ==
  /\ todo # <<>> /\ stage = "parse"
  /\ Call \/ CallOnBadFile
  /\ tag' \in TagsOf(Out)
  /\ Out \in {"cc_doc", "py_doc"} => spec' = spec
  /\ stage' = "write"
  /\ UNCHANGED <<todo, files>>

Run == Parse /\ UNCHANGED <<todo, stage, files>>

Unnumbered == "Unknown" \in Names(Messages(dicts[cur - 1]))
Extra ==
  /\ todo # <<>> /\ Out \in Docs /\ stage = "write"
  /\ ExtraEnums(IF Out = "cc_doc" THEN CcNames ELSE CNames)
  /\ stage' = IF Unnumbered THEN "failed" ELSE "write"
  /\ UNCHANGED <<todo, files>>

\* What is written of the view, of the registry where the extra enums are, and of
\* the text of the specification, which the C generator puts in the log header.
Quoted(s) == \E n \in DOMAIN s : s[n].quoted
Text(out, types, registry) ==
  LET extra == OfKind(registry, {"Enum"})
  IN  CASE out = "c_header" -> CHeader(types)
        [] out = "c_source" -> CSource(types, Quoted(spec))
        [] out = "cc_header" -> CcHeader(types)
        [] out = "cc_source" -> CcSource(types)
        [] out = "py" -> PyModule(types)
        [] out = "c_doc" -> CDoc(extra, types)
        [] out = "cc_doc" -> CcDoc(extra, types)
        [] out = "py_doc" -> PyDoc(extra, types)

Written(text) ==
  Append(files, [out |-> Out, spec |-> spec, tag |-> tag, dict |-> cur - 1, text |-> text])
Ready ==
  /\ todo # <<>> /\ stage = "write" /\ pc = "idle" /\ outcome = "returned"
  /\ Out \in Docs => extras

Write ==
  /\ Ready
  /\ ~(Out \in Sources /\ TooDeep(dicts[cur - 1]))
  /\ files' = Written(Text(Out, dicts[cur - 1], dicts[cur]))
  /\ todo' = Tail(todo)
  /\ stage' = IF todo' # <<>> /\ Head(todo') \in Sources THEN "write" ELSE "parse"
  /\ UNCHANGED vars

\* array_pack raises when the source is open already and the header complete.
WriteRaises ==
  /\ Ready
  /\ Out \in Sources /\ TooDeep(dicts[cur - 1])
  /\ files' = Written(<<>>)
  /\ stage' = "failed"
  /\ UNCHANGED <<vars, todo>>

\* An exception ends a generator; a Python program may go on.
Abort ==
  /\ todo # <<>> /\ pc = "idle"
  /\ stage = "failed" \/ (stage = "write" /\ outcome \notin {"none", "returned"})
  /\ todo' = IF Out = "py" THEN Tail(todo) ELSE <<>>
  /\ stage' = "parse"
  /\ UNCHANGED <<vars, files>>

GenNext == Start \/ Run \/ Extra \/ Write \/ WriteRaises \/ Abort

GenSpec == GenInit /\ [][GenNext]_genVars

-----------------------------------------------------------------------------
(* Properties.                                                             *)

\* The variables of the programs keep their types, and those of the parser.
GenTypeOK ==
  /\ TypeOK
  /\ \E job \in Jobs : \E n \in 1 .. (Len(job) + 1) : todo = SubSeq(job, n, Len(job))
  /\ stage \in {"parse", "write", "failed"}
  /\ \A n \in DOMAIN files :
       \E job \in Jobs : files[n].out \in Range(job) /\ files[n].tag \in TagsOf(files[n].out)

\* What a specification may not have for its libraries to compile, in its own terms.
Fields(types, kinds) == UNION {Range(t.fields) : t \in Range(OfKind(types, kinds))}
IntegerAlias(types) ==
  \E f \in Fields(types, {"Struct", "Message"}) :
    f.alias /\ Root(types, f).name \in DOMAIN CIntegers
\* A member of type SsHeader is not unpacked with the struct or message it is in, and
\* neither is the header of a message in another.  What is copied is not set, or not
\* all of it: for an alias, a type that has nothing to unpack, and by UnpackNew.
CopiesUnset(types, out) ==
  LET structures == {"Struct", "Message"}
      header(f) == Root(types, f).name = "SsHeader" /\ f.lens = <<>>
      nothing(f) == /\ Root(types, f).kind \in structures
                    /\ \A g \in Range(Root(types, f).fields) : Root(types, g).kind \in structures
      headless(f) == header(f) \/ Root(types, f).kind = "Message"
  IN  \/ \E f \in Fields(types, structures) : f.alias /\ (header(f) \/ nothing(f))
      \/ out = "cc_source" /\ \E f \in Fields(types, {"Struct"}) : headless(f)
      \/ out = "cc_source" /\
           \E f \in Fields(types, {"Message"}) : f.name # "ss_header" /\ headless(f)
MessageTooLong(types) == \E m \in Range(Messages(types)) : PackedSize(types, m) >= 2^16

\* The identifiers of a C library but those of its macros, each with what it is of.
CEnums(types) ==
  {[name |-> "SsMsgType", values |-> Append(NameSeq(Messages(types)), "Unknown")],
   [name |-> "SsStatus", values |-> <<"Success", "InvalidUid", "InvalidLen">>]}
    \cup {[name |-> e.name, values |-> NameSeq(e.fields)] : e \in Range(OfKind(types, {"Enum"}))}
Spelled(e) ==
  <<"k" \o e.name \o "ForceSigned", "kNum" \o e.name>>
    \o [n \in DOMAIN e.values |-> "k" \o e.name \o e.values[n]]
CFixed ==
  {"SsMsgType", "SsStatus", "kSsLogDelimiter", "kMessageUids", "kSsMsgTypes", "kYamlHeader",
   "GetSsMsgTypeFromUid", "SsInspectHeader", "SsWriteLogHeader", "SsFindLogDelimiter",
   "SsWriteFile", "SsReadFile"}
Identifier(of, enum, n, name) == [of |-> of, enum |-> enum, n |-> n, name |-> name]
CIdentifiers(types) ==
  {Identifier("library", "", 0, name) : name \in CFixed}
    \cup {Identifier("type", "", n, CTypeName(types[n].name)) : n \in DOMAIN types}
    \cup {Identifier("pack", "", n, "SsPack" \o Camel[types[n].name]) : n \in DOMAIN types}
    \cup {Identifier("unpack", "", n, "SsUnpack" \o Camel[types[n].name]) : n \in DOMAIN types}
    \cup {Identifier("log", "", n, "SsLog" \o types[n].name)
            : n \in {i \in DOMAIN types : types[i].kind = "Message"}}
    \cup (UNION {{Identifier("enum", e.name, n, Spelled(e)[n]) : n \in DOMAIN Spelled(e)}
                 : e \in CEnums(types)})
CMacros(types) == {PackedSizeMacro(types, m) : m \in Range(Messages(types))} \cup {HeaderSizeMacro}

CRefuses(types, quoted) ==
  \/ Messages(types) = <<>> \/ IntegerAlias(types) \/ MessageTooLong(types)
  \/ quoted
  \/ \E f \in Fields(types, {"Struct"}) : ~f.alias /\ Root(types, f).kind = "Message"
  \/ \E b \in Range(OfKind(types, {"Bitfield"})) : b.fields = <<>>
  \/ \E e \in Range(OfKind(types, {"Enum"})) : TypeSize(e, <<>>) >= 4
  \/ \E a, b \in CIdentifiers(types) : a # b /\ a.name = b.name
  \/ \E f \in CMacros(types) : \E a \in CIdentifiers(types) : f.name = <<a.name>>
  \/ \E f, g \in CMacros(types) : f # g /\ f.name = g.name

CcTaken == {"Status", "MsgType", "InspectHeader", "UnpackMessage", "AnyMessage",
            "MessageDispatcher", "kNumMsgTypes", "kHeaderPackedSize"}
CcRefuses(types) ==
  LET messages == Messages(types)
  IN  \/ messages = <<>> \/ IntegerAlias(types) \/ MessageTooLong(types)
      \/ "Unknown" \in Names(messages)
      \/ \E m, n \in DOMAIN messages : m < n /\ Snake[messages[m].name] = Snake[messages[n].name]
      \/ \E f \in Fields(types, {"Message"}) : f.name \in OwnMembers
      \/ \E t \in Range(types) : ChangesMeaning(types, t)
      \/ \E m, n \in DOMAIN types : m < n /\ CTypeName(types[m].name) = CTypeName(types[n].name)
      \/ Names(types) \cap CcTaken # {}
      \/ \E n \in DOMAIN types :
           ({types[n].name} \cup AliasedRoots(types, types[n])) \cap Packing(types, n) # {}
      \/ Names(OfKind(types, {"Bitfield", "Struct", "Message"})) \cap CcFunctions(types) # {}
      \/ "AddCallback" \in Names(messages)

\* A file is looked at when its program is between two outputs.
Latest(outs) ==
  IF files # <<>> /\ stage # "write" /\ Last(files).out \in outs THEN {Last(files)} ELSE {}
Types(f, t) == Meaning(f.spec, t, f.dict)

\* The generated C and C++ libraries compile, each for exactly the specifications
\* that none of the conditions above refuses, whatever the order, kind and names
\* of the types: everything is declared before it is used, and once.  The source
\* is empty exactly when an array is too deep.  (What becomes of a library whose
\* unpack function copies a header it has not set is up to the compiler: with
\* -Wall -Werror it objects when it sees so.)
BuildsUnless ==
  \A f \in Latest(Sources) :
    LET types == Types(f, f.tag)
    IN  /\ f.text = <<>> <=> TooDeep(types)
        /\ f.text # <<>> /\ ~CopiesUnset(types, f.out) =>
             (Compiles(f.text) <=> IF f.out = "c_source" THEN ~CRefuses(types, Quoted(f.spec))
                                   ELSE ~CcRefuses(types))

\* Where the documentation of Python is wrong of a module: for the enums that only
\* C has, for the base of an enum, and for what another attribute or global of the
\* same name hides.
ExtraEnum(name, values) ==
  TypeObj(name, "Enum", [n \in DOMAIN values |-> Scalar(values[n], NoRef)])
PyWrong(types, d) ==
  LET enums == Range(OfKind(types, {"Enum"}))
  IN  \/ d \in PyEnumDoc(ExtraEnum("SsMsgType", Append(NameSeq(Messages(types)), "Unknown")))
      \/ d \in PyEnumDoc(ExtraEnum("SsStatus", <<"Success", "InvalidUid", "InvalidLen">>))
      \/ \E e \in enums : d \in PyEnumDoc(e) /\ d.kind = "base"
      \/ \E e \in enums : \E v \in PyEnumAttribute :
           d \in PyEnumDoc(e) /\ d.kind = "member" /\ d.name = Scoped(e.name, v)
      \/ \E m \in Range(Messages(types)) : d \in PyMessageOwn(types, m) /\ PyHidden(m, d)
      \/ \E t \in Range(Declared(types)) : t.name \in PyGlobals /\ d \in PyClass(types, t)

\* What the documentation says of a library is true of the one that is generated
\* from the same specification with the same alias tag, except for the constant
\* kForceSigned of C and for what PyWrong lists.  (The Python module exists when
\* the C library compiles.)
DocsAgree ==
  \A f \in Latest(Docs) :
    LET types == Types(f, f.tag)
    IN  CASE f.out = "c_doc" ->
               {d.name : d \in f.text \ Facts(CSource(types, FALSE))} = {<<"kForceSigned">>}
          [] f.out = "cc_doc" -> f.text \subseteq Facts(CcSource(types))
          [] f.out = "py_doc" ->
               ~CRefuses(types, Quoted(f.spec)) =>
                 \A d \in f.text : d \in PyModule(types) <=> ~PyWrong(types, d)

\* What numbers the messages of types in text, its values and the sizes of its
\* messages does it as the C library does with the given facts.
Numbering(name, facts) == {d.ns : d \in {g \in facts : g.name = name}}
NumbersAlike(types, facts, text, numbered, size, hidden, own) ==
  /\ \A m \in Range(Messages(types)) :
       Numbering(Scoped(numbered, m.name), text) = Numbering(<<"k" \o "SsMsgType" \o m.name>>, facts)
  /\ \A m \in Range(Messages(types)) : m.name \notin hidden /\ size \notin Names(m.fields) =>
       Numbering(Scoped(m.name, size), text) = {PackedSizeMacro(types, m).ns}
  /\ \A e \in Range(OfKind(types, {"Enum"})) : e.name \notin hidden =>
       \A v \in Names(e.fields) \ own :
         Numbering(Scoped(e.name, v), text) = Numbering(<<"k" \o e.name \o v>>, facts)
Finds(types, facts) ==
  \A p \in PyLooksUp(types) : \E g \in facts : g.kind = "function" /\ g.name = <<p>>

\* If the C library of a specification compiles, the Python module that is loaded
\* with it, and the C++ library when it compiles, number its messages and values
\* and size its messages alike under every alias tag, and Python finds every
\* function in it.
LibrariesAgree ==
  \A f \in Latest({"py", "cc_source"}), t \in Tag :
    LET types == Types(f, t)
        lib == CSource(types, Quoted(f.spec))
    IN  Compiles(lib) =>
          /\ f.out = "py" =>
               /\ Finds(types, Facts(lib))
               /\ NumbersAlike(types, Facts(lib), f.text, "unpack_message", "packed_size",
                               PyGlobals, PyEnumAttribute)
          /\ f.out = "cc_source" /\ f.text # <<>> /\ Compiles(f.text) =>
               NumbersAlike(types, Facts(lib), Facts(f.text), "MsgType", "kPackedSize", {}, {})
=============================================================================
