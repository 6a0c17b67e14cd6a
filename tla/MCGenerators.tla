---------------------------- MODULE MCGenerators ----------------------------
(***************************************************************************)
(* Instances of Generators for TLC: every specification of at most two     *)
(* entries drawn from a list in which each entry is good or bad in its own *)
(* way, alone or after another, and specifications of which the generated  *)
(* libraries compile or fail to, each in its own way.                      *)
(***************************************************************************)
EXTENDS Generators

Primitives ==
  <<"uint8", "uint16", "uint32", "uint64", "int8", "int16", "int32", "int64", "float">>
PrimSizes == [p \in Range(Primitives) |->
  CASE p \in {"uint8", "int8"} -> 1 [] p \in {"uint16", "int16"} -> 2
    [] p \in {"uint64", "int64"} -> 8 [] OTHER -> 4]
Tags == {"c", "none"}

\* The hash takes struct Q for struct A when their members agree.
CollidingHash(t) == IF t.name = "Q" THEN [t EXCEPT !.name = "A"] ELSE t

Memb(name, type, lens, tags) ==
  [shape |-> "ok", name |-> name, type |-> type, lens |-> lens, tags |-> tags, bits |-> 0]
Value(name) == Memb(name, "", <<>>, {})
BitsItem(name, n) == [Memb(name, "", <<>>, {}) EXCEPT !.bits = n]
Shaped(shape, item) == [item EXCEPT !.shape = shape]
Entry(name, kind, items) ==
  [shape |-> "ok", name |-> name, kind |-> kind, items |-> items, quoted |-> FALSE]

x == Memb("x", "uint16", <<>>, {})
y == Memb("y", "uint32", <<2, 3>>, {})

Entries == {
  Entry("A", "Struct", <<x>>),
  Entry("Q", "Struct", <<x>>),
  Entry("Unknown", "Message", <<x, Memb("a", "A", <<>>, {})>>),
  Entry("M", "Message", <<Memb("a", "A", <<2>>, {"c"}), y>>),
  Entry("M", "Message", <<Memb("ss_header", "uint16", <<>>, {})>>),
  Entry("M", "Message", <<y, Memb("y", "uint16", <<>>, {})>>),
  Entry("S", "Struct", <<x, Memb("s", "S", <<1>>, {})>>),
  Entry("S", "Struct", <<Memb("z", "uint16", <<2, 0>>, {})>>),
  Entry("S", "Struct", <<Shaped("bare", x)>>),
  Entry("E", "Enum", <<Value("v"), Value("w")>>),
  Entry("E", "Enum", <<Value("v"), Value("v")>>),
  Entry("B", "Bitfield", <<BitsItem("f", 60), BitsItem("g", 4)>>),
  Entry("B", "Bitfield", <<BitsItem("f", 60), BitsItem("g", 5)>>),
  Entry("B", "Bitfield", <<BitsItem("f", 0)>>),
  Entry("uint16", "Enum", <<>>),
  Entry("C", "Union", <<>>),
  [Entry("C", "Struct", <<x>>) EXCEPT !.shape = "bad"] }

Firsts == {e \in Entries : e.name \in {"A", "Q", "Unknown"}}

\* One entry, with a message after it.
M == Entry("M", "Message", <<x, y>>)
BeforeMessage == {
  Entry("E", "Enum", <<Value("name"), Value("v")>>),
  Entry("E", "Enum", <<Value("ForceSigned")>>),
  Entry("Ss", "Enum", <<Value("MsgTypeM")>>),
  Entry("Num", "Enum", <<Value("SsMsgType")>>),
  Entry("SsStatus", "Enum", <<>>), Entry("Status", "Struct", <<x>>),
  Entry("SsWriteFile", "Struct", <<x>>), Entry("SsMsgType", "Enum", <<Value("M"), Value("Unknown")>>),
  Entry("B", "Bitfield", <<BitsItem("f", 3), BitsItem("g", 9)>>),
  Entry("B", "Bitfield", <<>>),
  Entry("S", "Struct", <<>>),
  Entry("S", "Struct", <<Memb("Pack", "float", <<>>, {"c"}), x>>),
  Entry("S", "Struct", <<Memb("x", "uint16", <<2, 3>>, {"c"})>>),
  Entry("S", "Struct", <<Memb("x", "uint16", <<32768>>, {})>>),
  Entry("Uint16", "Struct", <<x>>), Entry("m", "Struct", <<x>>),
  Entry("m", "Message", <<x, y>>), Entry("m", "Message", <<x>>),
  Entry("Header", "Message", <<>>), Entry("Header", "Message", <<x>>),
  Entry("Foo", "Message", <<Memb("kUid", "uint16", <<>>, {})>>),
  Entry("Foo", "Message", <<Memb("pack", "uint16", <<>>, {})>>),
  Entry("Foo", "Message", <<Memb("packed_size", "uint16", <<>>, {})>>),
  Entry("Foo", "Message", <<Memb("a", "uint16", <<32765>>, {})>>),
  Entry("Foo", "Message", <<Memb("a", "int8", [n \in 1 .. 19 |-> 1], {})>>),
  [Entry("Foo", "Struct", <<x>>) EXCEPT !.quoted = TRUE],
  Entry("Logger", "Enum", <<Value("v")>>),
  Entry("Message", "Enum", <<Value("Uids")>>), Entry("uint16_t", "Struct", <<x>>),
  Entry("SsUnpackM", "Struct", <<x>>), Entry("SS_M_PACKED_SIZE", "Struct", <<x>>),
  Entry("kMessageUids", "Struct", <<x>>), Entry("kMessageTypes", "Message", <<x>>),
  Entry("kMessageTypes", "Enum", <<Value("v")>>), Entry("AddCallback", "Message", <<x>>),
  Entry("kNumMsgTypes", "Enum", <<Value("v")>>),
  Entry("Foo", "Bitfield", <<BitsItem("uint8_t", 3)>>),
  Entry("Foo", "Struct", <<Memb("uint16_t", "uint16", <<>>, {})>>),
  Entry("Foo", "Message", <<Memb("Status", "uint16", <<>>, {})>>),
  Entry("Foo", "Message", <<Memb("h", "SsHeader", <<2>>, {"c"})>>),
  Entry("Foo", "Struct", <<Memb("h", "SsHeader", <<>>, {"c"})>>) }

\* A struct with a message in it, and types with like names.
Others == {
  <<M, Entry("S", "Struct", <<Memb("m", "M", <<2>>, {"c"})>>), Entry("N", "Message", <<Memb("s", "S", <<>>, {})>>)>>,
  <<M, Entry("S", "Struct", <<Memb("m", "M", <<2>>, {})>>), Entry("N", "Message", <<Memb("s", "S", <<>>, {})>>)>>,
  <<M, Entry("N", "Message", <<Memb("m", "M", <<>>, {}), Memb("f", "float", <<>>, {"c"})>>)>>,
  <<Entry("Foo", "Struct", <<x>>), Entry("foo", "Struct", <<x>>), M>>,
  <<M, Entry("SsPackM", "Struct", <<x>>), Entry("N", "Message", <<Memb("s", "SsPackM", <<>>, {})>>)>>,
  <<Entry("SsPackM", "Struct", <<x>>), M, Entry("N", "Message", <<Memb("s", "SsPackM", <<>>, {"c"})>>)>>,
  <<Entry("Foo", "Message", <<x>>), Entry("foo", "Message", <<x>>)>>,
  <<Entry("E", "Enum", <<Value("FG")>>), Entry("EF", "Enum", <<Value("G")>>), M>> }

TypeNames == {"SsHeader"} \cup Range(Primitives)
  \cup {e.name : e \in Entries \cup BeforeMessage \cup {M}} \cup {"N", "foo", "EF", "SsPackM"}
CamelNames == [n \in TypeNames |->
  CASE n = "uint8" -> "Uint8" [] n = "uint16" -> "Uint16" [] n = "uint32" -> "Uint32"
    [] n = "uint64" -> "Uint64" [] n = "int8" -> "Int8" [] n = "int16" -> "Int16"
    [] n = "int32" -> "Int32" [] n = "int64" -> "Int64" [] n = "float" -> "Float"
    [] n = "foo" -> "Foo" [] OTHER -> n]
SnakeNames == [n \in TypeNames |->
  CASE n \in {"Foo", "foo"} -> "FOO" [] n = "m" -> "M" [] n = "Header" -> "HEADER"
    [] n = "Unknown" -> "UNKNOWN" [] n = "SsHeader" -> "SS_HEADER" [] OTHER -> n]
EnumAttributes == {"name", "value", "is_valid", "description"}

\* The most values that C takes for an enum.
ASSUME EnumLimit ==
  \A n \in {127, 128, 32767, 32768} :
    StaticAsserts(<<TypeObj("E", "Enum", [v \in 1 .. n |-> Scalar("v", NoRef)])>>).ok
      <=> n < 32768

\* The keys of a YAML map are distinct.
SpecFiles ==
  {<<>>} \cup {<<e>> : e \in Entries}
    \cup {s \in Firsts \X Entries : s[1].name # s[2].name}
    \cup {<<e, M>> : e \in BeforeMessage} \cup Others
=============================================================================
